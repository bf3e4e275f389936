--------------------------- MODULE MCTCPConnection ---------------------------
(***************************************************************************)
(* TCPConnection for TLC: the files of the runs and their sizes in bytes.  *)
(***************************************************************************)
EXTENDS TCPConnection

TwoFiles  == [f \in {"a", "b"} |-> IF f = "a" THEN 3 ELSE 5]
\* With the default Packet_Size of 10, the last packet of "a" has 8 bytes.
EightTail == [f \in {"a", "b"} |-> IF f = "a" THEN 18 ELSE 5]
EmptyFile == [f \in {"a"} |-> 0]
EvenFile  == [f \in {"a"} |-> 6]
=============================================================================
