---------------------------- MODULE TCPConnection ----------------------------
(***************************************************************************)
(* One direction of a TCP simulation between two hosts: the sending half   *)
(* of the TCPConnection object at one host, the receiving half of the      *)
(* TCPConnection object at its end point, and the path of routers between  *)
(* them (TCPConnection.cpp).  The sender is Go-Back-N with slow start, the *)
(* receiver accepts packets in order and acknowledges EVERY packet it is   *)
(* handed, the ones it discards included.                                  *)
(*                                                                         *)
(* Handlers are atomic here: handleAck and timeoutBody run under           *)
(* m_connectionLock, and stopTimeout, the only place where handleAck lets  *)
(* go of the lock, has by then set m_isTimeoutAllowed to false, so that no *)
(* timeout thread does anything in the gap.  What the main thread does to  *)
(* it is the subject of TimeoutThreads.  Time is abstracted: a timeout may *)
(* expire at any moment, unless its duration is negative, which            *)
(* LightweightSemaphore::wait takes for no timeout at all.  Of             *)
(* m_estimatedRTT only the sign is kept.                                   *)
(***************************************************************************)
EXTENDS Integers, Sequences, SequencesExt

CONSTANTS
  Files,        \* the files a user may send
  FileSize,     \* FileSize[f]: the size of file f in bytes
  Packet_Size,  \* TCPConnection::Packet_Size
  maxPacketId,  \* TCPConnection::maxPacketId, the modulus of packet ids
  PayloadWord,  \* the value that 8 bytes of payload have when read as a size
  Reorder,      \* may data packets overtake each other on the way?
  ChanCap,      \* packets each way the path holds; what exceeds it is lost
  \* May 5 * Router::defaultBufferSize * Router::defaultRouterDelay be negative in
  \* 64 bits, as with the default buffer size 2^64 - 1 and a delay?
  NegativeFirstRTT,
  MaxRounds     \* bound on the number of transmissions (TLC)

ASSUME FilesAssumption == Files # {} /\ FileSize \in [Files -> Nat]
ASSUME PacketSizeAssumption == Packet_Size \in Nat \ {0}
ASSUME PacketIdAssumption == maxPacketId \in Nat /\ maxPacketId > 1
ASSUME PathAssumption == /\ Reorder \in BOOLEAN
                         /\ ChanCap \in Nat \ {0}
                         /\ PayloadWord \in Nat
                         /\ NegativeFirstRTT \in BOOLEAN
                         /\ MaxRounds \in Nat

VARIABLES
  \* the sending half
  phase,                    \* where the sender is in the life of a message
  file,                     \* m_msgBuffer: the file being sent
  repeat,                   \* m_repeatDelay # (uint64_t)-1
  m_cwnd,
  m_ssthresh,
  m_senderLastPacketAcked,
  m_lastPacketSent,
  m_isTimeoutAllowed,
  negativeRTT,              \* m_estimatedRTT < 0
  waitsForEver,             \* the timeout that runs was given a negative duration
  round,                    \* history: number of transmissions begun
  \* the receiving half
  m_inBuffer,
  m_currentMessageSize,
  m_bytesReceivedSoFar,
  m_receiverLastPacketAcked,
  disk,                     \* the file "./log/<host> from <end point>"
  filesWritten,             \* history: number of files written so far
  \* the path
  toReceiver,               \* data packets on their way
  toSender                  \* acks on their way

senderVars == <<phase, file, repeat, m_cwnd, m_ssthresh, m_senderLastPacketAcked,
                m_lastPacketSent, m_isTimeoutAllowed, negativeRTT, waitsForEver,
                round>>
receiverVars == <<m_inBuffer, m_currentMessageSize, m_bytesReceivedSoFar,
                  m_receiverLastPacketAcked, disk, filesWritten>>
vars == <<phase, file, repeat, m_cwnd, m_ssthresh, m_senderLastPacketAcked,
          m_lastPacketSent, m_isTimeoutAllowed, negativeRTT, waitsForEver, round, m_inBuffer,
          m_currentMessageSize, m_bytesReceivedSoFar, m_receiverLastPacketAcked,
          disk, filesWritten, toReceiver, toSender>>

-----------------------------------------------------------------------------
(***************************************************************************)
(* Packets (packetize).  Packet 1 of a file is the header, an 8 byte body  *)
(* holding the file's size; packets 2 .. NumPackets(f) are its data.  The  *)
(* wire carries only id = index modulo maxPacketId.                        *)
(***************************************************************************)
HeaderBytes == 8

NumPackets(f) ==
  FileSize[f] \div Packet_Size + 1
    + (IF FileSize[f] % Packet_Size = 0 THEN 0 ELSE 1)

BodySize(p) ==
  IF p.idx = 1 THEN HeaderBytes
  ELSE IF p.idx = NumPackets(p.file) /\ FileSize[p.file] % Packet_Size # 0
       THEN FileSize[p.file] % Packet_Size
       ELSE Packet_Size

BodyAsSize(p) == IF p.idx = 1 THEN FileSize[p.file] ELSE PayloadWord

PacketId(i) == i % maxPacketId

Packet == [file : Files, idx : Nat \ {0}]
\* "at" is history: how far the receiver had come when it sent the ack.
Ack == [id : 0 .. maxPacketId - 1, at : [files : Nat, last : Nat]]

\* Packets lo .. hi of file f, in the order sendNextWindow sends them.
Window(f, lo, hi) ==
  [j \in 1 .. (IF lo <= hi THEN hi - lo + 1 ELSE 0) |->
     [file |-> f, idx |-> lo + j - 1]]

\* The data packets of file f: what the receiver must write.
Content(f) ==
  [j \in 1 .. NumPackets(f) - 1 |-> [file |-> f, idx |-> j + 1]]

Least(a, b) == IF a <= b THEN a ELSE b
Greatest(a, b) == IF a >= b THEN a ELSE b

\* Packets put on the path; the ones that do not fit are dropped.
Offer(path, packets) ==
  SubSeq(path \o packets, 1, Least(Len(path) + Len(packets), ChanCap))

\* (uint64_t)-1, the first m_ssthresh: a window no larger than it only
\* doubles, up to maxPacketId, so every larger value behaves as this one.
maxSsthresh == maxPacketId + 1

-----------------------------------------------------------------------------
Init ==
  /\ phase = "idle"
  /\ file \in Files
  /\ repeat = FALSE
  /\ m_cwnd = 1
  /\ m_ssthresh = maxSsthresh
  /\ m_senderLastPacketAcked = 0
  /\ m_lastPacketSent = 0
  /\ m_isTimeoutAllowed = FALSE
  /\ negativeRTT \in {FALSE, NegativeFirstRTT}
  /\ waitsForEver = FALSE
  /\ round = 0
  /\ m_inBuffer = <<>>
  /\ m_currentMessageSize = 0
  /\ m_bytesReceivedSoFar = 0
  /\ m_receiverLastPacketAcked = 0
  /\ disk = <<>>
  /\ filesWritten = 0
  /\ toReceiver = <<>>
  /\ toSender = <<>>

-----------------------------------------------------------------------------
(***************************************************************************)
(* The sending half.                                                       *)
(***************************************************************************)

\* Sends from the first unacked packet, with the window just computed.
sendNextWindow ==
  /\ m_lastPacketSent' =
       Least(m_senderLastPacketAcked' + m_cwnd', NumPackets(file'))
  /\ toReceiver' =
       Offer(toReceiver,
             Window(file', m_senderLastPacketAcked' + 1, m_lastPacketSent'))

\* A timeout runs for the round trip estimated now.
startTimeout ==
  /\ m_isTimeoutAllowed' = TRUE
  /\ waitsForEver' = negativeRTT'

\* An average with a measured round trip: it may bring a negative estimate
\* above zero, and never one below.
measureRTT == negativeRTT' \in (IF negativeRTT THEN BOOLEAN ELSE {FALSE})

\* A congestion event (m_lastPacketSent is overwritten by sendNextWindow).
startSlowAgain ==
  /\ m_ssthresh' = Greatest(m_cwnd \div 2, 1)
  /\ m_cwnd' = 1

\* resetConnection, packetize and the first window of a transmission of f.
transmit(f) ==
  /\ round < MaxRounds
  /\ phase' = "sending"
  /\ file' = f
  /\ m_cwnd' = 1
  /\ m_ssthresh' = maxSsthresh
  /\ m_senderLastPacketAcked' = 0
  /\ round' = round + 1
  /\ UNCHANGED <<negativeRTT, receiverVars, toSender>>
  /\ startTimeout
  /\ sendNextWindow

\* The user's "send" command.  During the repeat delay it waits for
\* m_connectionLock, which the sleeping host thread holds.
sendMessage(f, r) ==
  /\ phase # "sleeping"
  /\ repeat' = r
  /\ transmit(f)

\* The host thread wakes from the repeat delay and sends the file again.
resendMessage ==
  /\ phase = "sleeping"
  /\ transmit(file)
  /\ UNCHANGED repeat

\* A timeout thread's wait expires while timeouts are allowed.
timeoutBody ==
  /\ m_isTimeoutAllowed /\ ~waitsForEver
  /\ startSlowAgain
  /\ UNCHANGED <<phase, file, repeat, m_senderLastPacketAcked, negativeRTT,
                 round, receiverVars, toSender>>
  /\ sendNextWindow
  /\ startTimeout

\* The last packet is acked: stop, or sleep and repeat.
onDataSentCompletely ==
  /\ phase' = IF repeat THEN "sleeping" ELSE "done"
  /\ m_isTimeoutAllowed' = FALSE
  /\ UNCHANGED <<m_cwnd, m_ssthresh, m_lastPacketSent, waitsForEver, toReceiver>>

\* Mutant: no new timeout for the new window.
growWindow_noTimeout ==
  /\ m_cwnd' = IF m_cwnd < m_ssthresh
               THEN Least(2 * m_cwnd, maxPacketId)
               ELSE m_cwnd + 1
  /\ sendNextWindow
  /\ m_isTimeoutAllowed' = FALSE
  /\ UNCHANGED <<phase, m_ssthresh, waitsForEver>>

\* The whole window is acked: grow it and send the next one.
growWindow ==
  /\ m_cwnd' = IF m_cwnd < m_ssthresh
               THEN Least(2 * m_cwnd, maxPacketId)
               ELSE m_cwnd + 1
  /\ sendNextWindow
  /\ startTimeout
  /\ UNCHANGED <<phase, m_ssthresh>>

\* Mutant: acks taken as cumulative, which they are not.
ackOfNextPacket_cumulative(id) ==
  /\ id >= PacketId(m_senderLastPacketAcked + 1)
  /\ m_senderLastPacketAcked' = id
  /\ \/ /\ id = PacketId(m_lastPacketSent)
        /\ m_senderLastPacketAcked' = NumPackets(file)
        /\ onDataSentCompletely
     \/ /\ id = PacketId(m_lastPacketSent)
        /\ m_senderLastPacketAcked' # NumPackets(file)
        /\ growWindow
     \/ /\ id # PacketId(m_lastPacketSent)
        /\ UNCHANGED <<phase, m_cwnd, m_ssthresh, m_lastPacketSent,
                       m_isTimeoutAllowed, waitsForEver, toReceiver>>

\* Mutant: m_outBuffer's dummy element is discounted twice at its end.
ackOfNextPacket_oneShort(id) ==
  /\ id = PacketId(m_senderLastPacketAcked + 1)
  /\ m_senderLastPacketAcked' = m_senderLastPacketAcked + 1
  /\ \/ /\ id = PacketId(m_lastPacketSent)
        /\ m_senderLastPacketAcked' >= NumPackets(file) - 1
        /\ onDataSentCompletely
     \/ /\ id = PacketId(m_lastPacketSent)
        /\ m_senderLastPacketAcked' < NumPackets(file) - 1
        /\ growWindow
     \/ /\ id # PacketId(m_lastPacketSent)
        /\ UNCHANGED <<phase, m_cwnd, m_ssthresh, m_lastPacketSent,
                       m_isTimeoutAllowed, waitsForEver, toReceiver>>

ackOfNextPacket(id) ==
  /\ id = PacketId(m_senderLastPacketAcked + 1)
  /\ m_senderLastPacketAcked' = m_senderLastPacketAcked + 1
  /\ \/ /\ id = PacketId(m_lastPacketSent)
        /\ m_senderLastPacketAcked' = NumPackets(file)
        /\ onDataSentCompletely
     \/ /\ id = PacketId(m_lastPacketSent)
        /\ m_senderLastPacketAcked' # NumPackets(file)
        /\ growWindow
     \/ /\ id # PacketId(m_lastPacketSent)
        /\ UNCHANGED <<phase, m_cwnd, m_ssthresh, m_lastPacketSent,
                       m_isTimeoutAllowed, waitsForEver, toReceiver>>

\* Mutant: stopTimeout without a new startTimeout.
ackOfLaterPacket_noTimeout(id) ==
  /\ id > PacketId(m_senderLastPacketAcked + 1)
  /\ startSlowAgain
  /\ m_isTimeoutAllowed' = FALSE
  /\ UNCHANGED <<phase, m_senderLastPacketAcked, waitsForEver>>
  /\ sendNextWindow

\* An ack beyond the next one means that the next packet was lost.
ackOfLaterPacket(id) ==
  /\ id > PacketId(m_senderLastPacketAcked + 1)
  /\ startSlowAgain
  /\ startTimeout
  /\ UNCHANGED <<phase, m_senderLastPacketAcked>>
  /\ sendNextWindow

ackOfEarlierPacket(id) ==
  /\ id < PacketId(m_senderLastPacketAcked + 1)
  /\ UNCHANGED <<phase, m_cwnd, m_ssthresh, m_senderLastPacketAcked,
                 m_lastPacketSent, m_isTimeoutAllowed, waitsForEver, toReceiver>>

\* The host thread of the sender takes the oldest ack; it is asleep during
\* the repeat delay.
handleAck ==
  /\ toSender # <<>>
  /\ phase # "sleeping"
  /\ measureRTT
  /\ UNCHANGED <<file, repeat, round, receiverVars>>
  /\ LET id == Head(toSender).id
     IN  \/ ackOfNextPacket(id)
         \/ ackOfLaterPacket(id)
         \/ ackOfEarlierPacket(id)
  /\ toSender' = Tail(toSender)

-----------------------------------------------------------------------------
(***************************************************************************)
(* The receiving half.                                                     *)
(***************************************************************************)

\* With an empty buffer any packet with an 8 byte body is taken for a header.
looksLikeHeader(p) ==
  /\ m_inBuffer = <<>>
  /\ m_bytesReceivedSoFar = 0
  /\ BodySize(p) = HeaderBytes

\* Mutant: packets beyond a gap are accepted.
isNext_orLater(p) == PacketId(p.idx) >= PacketId(m_receiverLastPacketAcked + 1)

isNext(p) == PacketId(p.idx) = PacketId(m_receiverLastPacketAcked + 1)

acceptHeader(p) ==
  /\ looksLikeHeader(p)
  /\ m_currentMessageSize' = BodyAsSize(p)
  /\ m_inBuffer' = <<p>>
  /\ m_receiverLastPacketAcked' =
       m_receiverLastPacketAcked + (IF isNext(p) THEN 1 ELSE 0)
  /\ UNCHANGED <<m_bytesReceivedSoFar, disk, filesWritten>>

acceptData(p) ==
  /\ ~looksLikeHeader(p)
  /\ isNext(p)
  /\ m_bytesReceivedSoFar + BodySize(p) # m_currentMessageSize
  /\ m_bytesReceivedSoFar' = m_bytesReceivedSoFar + BodySize(p)
  /\ m_inBuffer' = Append(m_inBuffer, p)
  /\ m_receiverLastPacketAcked' = m_receiverLastPacketAcked + 1
  /\ UNCHANGED <<m_currentMessageSize, disk, filesWritten>>

\* Mutant: m_bytesReceivedSoFar keeps counting over the next file.
acceptLastData_keepCount(p) ==
  /\ ~looksLikeHeader(p)
  /\ isNext(p)
  /\ m_bytesReceivedSoFar + BodySize(p) = m_currentMessageSize
  /\ disk' = Tail(Append(m_inBuffer, p))
  /\ filesWritten' = filesWritten + 1
  /\ m_inBuffer' = <<>>
  /\ m_currentMessageSize' = 0
  /\ m_receiverLastPacketAcked' = 0
  /\ UNCHANGED m_bytesReceivedSoFar

\* Mutant: the header is not taken off before the file is written.
acceptLastData_withHeader(p) ==
  /\ ~looksLikeHeader(p)
  /\ isNext(p)
  /\ m_bytesReceivedSoFar + BodySize(p) = m_currentMessageSize
  /\ disk' = Append(m_inBuffer, p)
  /\ filesWritten' = filesWritten + 1
  /\ m_inBuffer' = <<>>
  /\ m_bytesReceivedSoFar' = 0
  /\ m_currentMessageSize' = 0
  /\ m_receiverLastPacketAcked' = 0

\* onNewFileCompletelyReceived writes all but the header and starts over;
\* handleData then compares the packet's id with the fresh counter.
acceptLastData(p) ==
  /\ ~looksLikeHeader(p)
  /\ isNext(p)
  /\ m_bytesReceivedSoFar + BodySize(p) = m_currentMessageSize
  /\ disk' = Tail(Append(m_inBuffer, p))
  /\ filesWritten' = filesWritten + 1
  /\ m_inBuffer' = <<>>
  /\ m_bytesReceivedSoFar' = 0
  /\ m_currentMessageSize' = 0
  /\ m_receiverLastPacketAcked' =
       IF PacketId(p.idx) = PacketId(1) THEN 1 ELSE 0

discard(p) ==
  /\ ~looksLikeHeader(p)
  /\ ~isNext(p)
  /\ UNCHANGED receiverVars

sendPacketAck(p) ==
  toSender' = Offer(toSender,
                    <<[id |-> PacketId(p.idx),
                       at |-> [files |-> filesWritten',
                               last |-> m_receiverLastPacketAcked']]>>)

\* The host thread of the receiver takes a data packet from the path.
handleData ==
  /\ \E i \in (IF Reorder THEN DOMAIN toReceiver ELSE DOMAIN toReceiver \cap {1}) :
       LET p == toReceiver[i]
       IN  /\ acceptHeader(p) \/ acceptData(p) \/ acceptLastData(p) \/ discard(p)
           /\ sendPacketAck(p)
           /\ toReceiver' = RemoveAt(toReceiver, i)
  /\ UNCHANGED senderVars

-----------------------------------------------------------------------------
(***************************************************************************)
(* The path: a router drops a packet instead of forwarding it.  The test   *)
(* is rand()/RAND_MAX > defaultDropRate, so that a packet can be dropped   *)
(* at every drop rate, 0.0 included.                                       *)
(***************************************************************************)
drop ==
  /\ \/ /\ \E i \in DOMAIN toReceiver : toReceiver' = RemoveAt(toReceiver, i)
        /\ UNCHANGED toSender
     \/ /\ \E i \in DOMAIN toSender : toSender' = RemoveAt(toSender, i)
        /\ UNCHANGED toReceiver
  /\ UNCHANGED <<senderVars, receiverVars>>

-----------------------------------------------------------------------------
\* A user who waits for the end of one transmission before the next "send",
\* and one who does not.
userSends ==
  /\ phase \in {"idle", "done"}
  /\ \E f \in Files, r \in BOOLEAN : sendMessage(f, r)

userPreempts ==
  /\ phase = "sending"
  /\ \E f \in Files, r \in BOOLEAN : sendMessage(f, r)

Next ==
  \/ userSends
  \/ resendMessage
  \/ timeoutBody
  \/ handleAck
  \/ handleData
  \/ drop

Spec == Init /\ [][Next]_vars

PreemptSpec == Init /\ [][Next \/ userPreempts]_vars

(***************************************************************************)
(* Fairness.  A host thread that has a message in its queue runs, and so   *)
(* does a timeout thread whose wait is over; a wait ends unless its        *)
(* duration is negative.  A router drops packets independently of each     *)
(* other, so a packet offered over and over gets through: strong fairness  *)
(* of the two receiving handlers, since drop can empty the path again      *)
(* before they run.                                                        *)
(***************************************************************************)
Fairness ==
  /\ WF_vars(timeoutBody)
  /\ WF_vars(resendMessage)
  /\ SF_vars(handleAck)
  /\ SF_vars(handleData)

FairSpec == Spec /\ Fairness

-----------------------------------------------------------------------------
(***************************************************************************)
(* Properties.                                                             *)
(***************************************************************************)

\* The values of the fields of the two TCPConnection objects and of the path.
TypeOK ==
  /\ phase \in {"idle", "sending", "sleeping", "done"}
  /\ file \in Files
  /\ repeat \in BOOLEAN
  /\ m_cwnd \in Nat \ {0}
  /\ m_ssthresh \in Nat \ {0}
  /\ m_senderLastPacketAcked \in Nat
  /\ m_lastPacketSent \in Nat
  /\ m_isTimeoutAllowed \in BOOLEAN
  /\ negativeRTT \in BOOLEAN
  /\ waitsForEver \in BOOLEAN
  /\ round \in Nat
  /\ m_inBuffer \in Seq(Packet)
  /\ m_currentMessageSize \in Nat
  /\ m_bytesReceivedSoFar \in Nat
  /\ m_receiverLastPacketAcked \in Nat
  /\ disk \in Seq(Packet)
  /\ filesWritten \in Nat
  /\ toReceiver \in Seq(Packet)
  /\ toSender \in Seq(Ack)

\* While a message is being sent there is always an unacked packet that has
\* been sent and a timeout that will send it again; the window never runs
\* past m_cwnd nor past the end of m_outBuffer; and once the message is
\* acked no timeout is left to send anything (handleAck, timeoutBody).
WindowOK ==
  /\ phase = "sending" =>
       /\ m_isTimeoutAllowed
       /\ m_senderLastPacketAcked < m_lastPacketSent
       /\ m_lastPacketSent <= NumPackets(file)
       /\ m_lastPacketSent - m_senderLastPacketAcked <= m_cwnd
  /\ phase # "sending" => ~m_isTimeoutAllowed

\* (f1, l1) is no further than (f2, l2): an earlier file, or the same file
\* and no more of its packets.
NoFurther(f1, l1, f2, l2) == f1 < f2 \/ (f1 = f2 /\ l1 <= l2)

\* The sender never counts a packet as acked that the receiver has not
\* accepted, although the receiver acks packets that it throws away
\* (handleAck trusts every ack id, handleData acks whatever it is handed).
AckedIsAccepted ==
  NoFurther(round, m_senderLastPacketAcked,
            filesWritten + 1, m_receiverLastPacketAcked)

\* When the sender logs "File transmitted Completely!!!!", the receiver has
\* written the file, and its content is that of the file sent.
CompleteMeansWritten ==
  phase \in {"sleeping", "done"} =>
     filesWritten >= round /\ disk = Content(file)

\* The same without the count of transmissions, for a user who breaks one
\* off: a file reported as transmitted is the one on the receiver's disk.
CompleteIsOnDisk == phase \in {"sleeping", "done"} => disk = Content(file)

\* The file on the receiver's disk is one of the files sent, whole and in
\* order: no packet missing, repeated or of another file.
FileIntact == disk # <<>> => \E f \in Files : disk = Content(f)

\* Under loss and retransmission every transmission ends: the last packet is
\* acked eventually, since whatever is lost is sent again by a timeout.  Only a
\* timeout of negative duration can stop one, and then it is never replaced.
TransmissionEnds ==
  phase = "sending" ~> phase \in {"sleeping", "done"} \/ []waitsForEver

\* Every transmission ends.
TransmissionAlwaysEnds == phase = "sending" ~> phase \in {"sleeping", "done"}

=============================================================================
