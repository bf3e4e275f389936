----------------------------- MODULE TCPTransfer -----------------------------
(***************************************************************************)
(* The cases in which a TCPConnection is a reliable transport: files whose *)
(* packet ids do not wrap and none of whose data packets has an 8 byte     *)
(* body; one of them, sent over and over (the "send" command with a repeat *)
(* delay), or several, if data packets do not overtake each other.  The    *)
(* path may lose packets both ways, repeat them (by retransmission) and,   *)
(* with one file, reorder data packets at will; acks stay in order,        *)
(* because they have a single producer, the receiver's host thread, and    *)
(* every queue on the way back is FIFO for one producer.                   *)
(***************************************************************************)
EXTENDS TCPConnection

ASSUME OrderAssumption == Reorder => \A f, g \in Files : f = g
ASSUME NoWrapAssumption == \A f \in Files : NumPackets(f) + 1 < maxPacketId
ASSUME NoHeaderLookalike ==
  \A f \in Files : /\ FileSize[f] > 0
                   /\ Packet_Size # HeaderBytes
                   /\ FileSize[f] % Packet_Size # HeaderBytes

\* Bytes of data in the first k packets of a file, for k < NumPackets.
PrefixBytes(k) == IF k = 0 THEN 0 ELSE (k - 1) * Packet_Size

(***************************************************************************)
(* The inductive invariant.                                                *)
(***************************************************************************)

\* The sender's counters, by phase.
SenderInv ==
  /\ WindowOK
  /\ m_senderLastPacketAcked <= NumPackets(file)
  /\ phase = "idle" <=> round = 0
  /\ phase \in {"sleeping", "done"} => m_senderLastPacketAcked = NumPackets(file)
  /\ phase = "idle" => m_senderLastPacketAcked = 0

\* m_inBuffer holds the first m_receiverLastPacketAcked packets of the file,
\* in order, and the byte counters agree with it; what is on the disk is a
\* file, and the one being sent as soon as that has been written.
ReceiverInv ==
  /\ m_receiverLastPacketAcked < NumPackets(file)
  /\ Len(m_inBuffer) = m_receiverLastPacketAcked
  /\ \A i \in 1 .. Len(m_inBuffer) : m_inBuffer[i] = [file |-> file, idx |-> i]
  /\ m_bytesReceivedSoFar = PrefixBytes(m_receiverLastPacketAcked)
  /\ m_receiverLastPacketAcked > 0 => m_currentMessageSize = FileSize[file]
  /\ filesWritten = 0 => disk = <<>>
  /\ filesWritten # 0 => \E f \in Files : disk = Content(f)
  /\ filesWritten # 0 /\ round <= filesWritten => disk = Content(file)

\* Data packets on the way are packets of a file, and nothing is on the way
\* before the first transmission.
PacketsOfFiles(path) ==
  \A i \in 1 .. Len(path) : path[i].idx <= NumPackets(path[i].file)

DataInv ==
  /\ PacketsOfFiles(toReceiver)
  /\ round = 0 => toReceiver = <<>> /\ toSender = <<>>

\* On a path that keeps the order there are first the data packets left over
\* from the transmission before, while the receiver waits for the header of
\* this one; then its headers; then its data, sent since a header was acked.
Layers(m, h) ==
  /\ \A i \in 1 .. Len(toReceiver) :
       /\ i <= m => toReceiver[i].idx # 1
       /\ m < i => toReceiver[i].file = file
       /\ m < i => (i <= h <=> toReceiver[i].idx = 1)
  /\ m > 0 => filesWritten + 1 = round /\ m_receiverLastPacketAcked = 0
  /\ h > 0 => filesWritten # round
  /\ h < Len(toReceiver) => m_senderLastPacketAcked # 0

\* On such a path the receiver is never ahead of the sender's transmission,
\* and not beyond its header before the sender knows of it.
OrderInv ==
  /\ filesWritten <= round
  /\ filesWritten = round => m_receiverLastPacketAcked = 0
  /\ m_senderLastPacketAcked = 0 =>
       /\ m_receiverLastPacketAcked <= 1
       /\ round = 0 \/ filesWritten # round
  /\ \E h \in 0 .. Len(toReceiver) : \E m \in 0 .. h : Layers(m, h)

\* An ack is for a packet of the file, or from a receiver that was waiting for
\* its header; and not from one that was waiting for the packet it acks.
AckFits(a) ==
  /\ a.id # 0
  /\ a.id <= NumPackets(file) \/ (a.at.files + 1 = round /\ a.at.last = 0)
  /\ a.at.last < NumPackets(file)
  /\ a.at.last # a.id - 1

\* Acks on the way are in the order of the receiver's progress, and none is
\* from before what the sender has already learned.
AckInv ==
  \A i \in 1 .. Len(toSender) :
    LET a == toSender[i] IN
    /\ AckFits(a)
    /\ NoFurther(round, m_senderLastPacketAcked, a.at.files + 1, a.at.last)
    /\ NoFurther(a.at.files, a.at.last, filesWritten, m_receiverLastPacketAcked)
    /\ \A j \in i .. Len(toSender) :
         NoFurther(a.at.files, a.at.last,
                   toSender[j].at.files, toSender[j].at.last)

IInv ==
  /\ TypeOK
  /\ SenderInv
  /\ ReceiverInv
  /\ DataInv
  /\ AckInv
  /\ AckedIsAccepted
  /\ ~Reorder => OrderInv

(***************************************************************************)
(* The transport implements FileTransfer.                                  *)
(***************************************************************************)
FT == INSTANCE FileTransfer
        WITH N <- [f \in Files |-> NumPackets(f)],
             Whole <- [f \in Files |-> Content(f)],
             sent <- file,
             started <- round,
             confirmed <- m_senderLastPacketAcked,
             written <- filesWritten,
             accepted <- m_receiverLastPacketAcked

\* Losing, repeating, reordering and retransmitting are invisible: every
\* step of the two TCPConnection objects is a step of FileTransfer or none.
ImplementsFileTransfer == FT!FTSpec
=============================================================================
