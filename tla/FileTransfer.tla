---------------------------- MODULE FileTransfer ----------------------------
(***************************************************************************)
(* What a TCP connection of the simulator promises its user: files are     *)
(* transmitted one after the other; the receiver accepts the packets of a  *)
(* file one after the other and writes it when it has them all; the sender *)
(* learns of a packet only after the receiver has accepted it, and begins  *)
(* the next transmission only when it has learned of all packets.  When a  *)
(* file is transmitted again the receiver may run ahead and accept it once *)
(* more; when another file is, the receiver has yet to begin.              *)
(***************************************************************************)
EXTENDS Naturals

CONSTANTS Files,
          N,      \* N[f]: packets of file f, its header included
          Whole   \* Whole[f]: the content of file f

VARIABLES sent,       \* the file of the current transmission
          started,    \* transmissions begun by the sender
          confirmed,  \* packets of the current one the sender knows accepted
          written,    \* files written by the receiver
          accepted,   \* packets of the next file accepted by the receiver
          disk        \* the file on the receiver's disk

ftVars == <<sent, started, confirmed, written, accepted, disk>>

FTInit ==
  /\ sent \in Files
  /\ started = 0
  /\ confirmed = 0
  /\ written = 0
  /\ accepted = 0
  /\ disk = <<>>

Begin ==
  /\ started = 0 \/ confirmed = N[sent]
  /\ sent' \in Files
  /\ sent' # sent => written = started /\ accepted = 0
  /\ started' = started + 1
  /\ confirmed' = 0
  /\ UNCHANGED <<written, accepted, disk>>

Accept ==
  /\ accepted + 1 < N[sent]
  /\ accepted' = accepted + 1
  /\ UNCHANGED <<sent, started, confirmed, written, disk>>

Finish ==
  /\ accepted + 1 = N[sent]
  /\ accepted' = 0
  /\ written' = written + 1
  /\ disk' = Whole[sent]
  /\ UNCHANGED <<sent, started, confirmed>>

Confirm ==
  /\ started > 0
  /\ confirmed < N[sent]
  /\ started < written + 1 \/ (started = written + 1 /\ confirmed < accepted)
  /\ confirmed' = confirmed + 1
  /\ UNCHANGED <<sent, started, written, accepted, disk>>

FTNext == Begin \/ Accept \/ Finish \/ Confirm

FTSpec == FTInit /\ [][FTNext]_ftVars
=============================================================================
