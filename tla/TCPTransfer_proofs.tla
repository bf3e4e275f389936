-------------------------- MODULE TCPTransfer_proofs --------------------------
(***************************************************************************)
(* Proofs that the transport of TCPTransfer is reliable, for every set of  *)
(* files, packet size, id modulus, path capacity and number of rounds that *)
(* its assumptions allow.                                                  *)
(***************************************************************************)
EXTENDS TCPTransfer, SequenceTheorems, TLAPS

-----------------------------------------------------------------------------
(***************************************************************************)
(* Sequences: what the path does to its packets.                           *)
(***************************************************************************)

\* Taking a packet off the path leaves the others in their order.
LEMMA RemoveAtProps ==
  ASSUME NEW S, NEW s \in Seq(S), NEW i \in 1 .. Len(s)
  PROVE  /\ RemoveAt(s, i) \in Seq(S)
         /\ Len(RemoveAt(s, i)) = Len(s) - 1
         /\ \A j \in 1 .. Len(s) - 1 :
              RemoveAt(s, i)[j] = IF j < i THEN s[j] ELSE s[j + 1]
<1> DEFINE a == SubSeq(s, 1, i - 1)
           b == SubSeq(s, i + 1, Len(s))
<1>1. Len(s) \in Nat /\ \A j \in 1 .. Len(s) : s[j] \in S
  BY ElementOfSeq, LenProperties
<1>2. /\ a \in Seq(S) /\ Len(a) = i - 1
      /\ \A j \in 1 .. i - 1 : a[j] = s[j]
  <2>1. \A j \in 1 .. i - 1 : s[j] \in S
    BY <1>1
  <2> QED BY <1>1, <2>1, SubSeqProperties
<1>3. /\ b \in Seq(S) /\ Len(b) = Len(s) - i
      /\ \A j \in 1 .. Len(s) - i : b[j] = s[i + j]
  <2>1. \A j \in i + 1 .. Len(s) : s[j] \in S
    BY <1>1
  <2> QED BY <1>1, <2>1, SubSeqProperties
<1> HIDE DEF a, b
<1>4. /\ a \o b \in Seq(S)
      /\ Len(a \o b) = Len(a) + Len(b)
      /\ \A j \in 1 .. Len(a) + Len(b) :
           (a \o b)[j] = IF j <= Len(a) THEN a[j] ELSE b[j - Len(a)]
  BY <1>2, <1>3, ConcatProperties
<1>5. ASSUME NEW j \in 1 .. Len(s) - 1
      PROVE  (a \o b)[j] = IF j < i THEN s[j] ELSE s[j + 1]
  <2>1. CASE j < i
    BY <1>1, <1>2, <1>3, <1>4, <2>1
  <2>2. CASE ~(j < i)
    <3>1. /\ (a \o b)[j] = b[j - (i - 1)]
          /\ j - (i - 1) \in 1 .. Len(s) - i
      BY <1>1, <1>2, <1>3, <1>4, <2>2
    <3>2. b[j - (i - 1)] = s[i + (j - (i - 1))]
      BY <1>3, <3>1
    <3>3. i + (j - (i - 1)) = j + 1
      BY <1>1
    <3> QED BY <2>2, <3>1, <3>2, <3>3
  <2> QED BY <2>1, <2>2
<1>6. RemoveAt(s, i) = a \o b
  BY DEF RemoveAt, a, b
<1> QED BY <1>1, <1>2, <1>3, <1>4, <1>5, <1>6

\* Packets offered to the path come behind the ones already there; the last
\* ones may be missing.
LEMMA OfferProps ==
  ASSUME NEW S, NEW s \in Seq(S), NEW t \in Seq(S)
  PROVE  /\ Offer(s, t) \in Seq(S)
         /\ Len(Offer(s, t)) <= Len(s) + Len(t)
         /\ \A j \in 1 .. Len(Offer(s, t)) :
              Offer(s, t)[j] = IF j <= Len(s) THEN s[j] ELSE t[j - Len(s)]
<1> DEFINE n == Least(Len(s) + Len(t), ChanCap)
<1>1. Len(s) \in Nat /\ Len(t) \in Nat /\ ChanCap \in Nat
  BY LenProperties, PathAssumption
<1>2. n \in Nat /\ n <= Len(s) + Len(t)
  BY <1>1 DEF Least
<1>3. /\ s \o t \in Seq(S)
      /\ Len(s \o t) = Len(s) + Len(t)
      /\ \A i \in 1 .. Len(s) + Len(t) :
           (s \o t)[i] = IF i <= Len(s) THEN s[i] ELSE t[i - Len(s)]
  BY ConcatProperties
<1>4. \A i \in 1 .. n : (s \o t)[i] \in S
  BY <1>1, <1>2, <1>3, ElementOfSeq
<1>5. /\ Offer(s, t) \in Seq(S)
      /\ Len(Offer(s, t)) = n
      /\ \A j \in 1 .. n : Offer(s, t)[j] = (s \o t)[j]
  <2> HIDE DEF n
  <2>1. Offer(s, t) = SubSeq(s \o t, 1, n)
    BY DEF Offer, n
  <2>2. /\ SubSeq(s \o t, 1, n) \in Seq(S)
        /\ Len(SubSeq(s \o t, 1, n)) = IF 1 <= n THEN n - 1 + 1 ELSE 0
        /\ \A i \in 1 .. n - 1 + 1 : SubSeq(s \o t, 1, n)[i] = (s \o t)[1 + i - 1]
    BY <1>2, <1>4, SubSeqProperties
  <2>3. Len(SubSeq(s \o t, 1, n)) = n
    BY <1>2, <2>2
  <2>4. ASSUME NEW j \in 1 .. n
        PROVE  SubSeq(s \o t, 1, n)[j] = (s \o t)[j]
    <3>1. j \in 1 .. n - 1 + 1 /\ 1 + j - 1 = j
      BY <1>2
    <3>2. SubSeq(s \o t, 1, n)[j] = (s \o t)[1 + j - 1]
      BY <2>2, <3>1, Zenon
    <3> QED BY <3>1, <3>2, Zenon
  <2>5. SubSeq(s \o t, 1, n) \in Seq(S)
    BY <2>2
  <2> QED BY <2>1, <2>3, <2>4, <2>5
<1> QED BY <1>1, <1>2, <1>3, <1>5

\* A function on 1 .. n is a sequence of length n.
LEMMA FunctionIsSeq ==
  ASSUME NEW S, NEW n \in Nat, NEW g \in [1 .. n -> S]
  PROVE  g \in Seq(S) /\ Len(g) = n
<1>1. g \in Seq(S)
  BY SeqDef
<1>2. Len(g) \in Nat /\ 1 .. Len(g) = 1 .. n
  BY <1>1, LenProperties
<1> QED BY <1>1, <1>2

\* Taking the oldest message off the path.
LEMMA TailProps ==
  ASSUME NEW S, NEW s \in Seq(S), s # <<>>
  PROVE  /\ Tail(s) \in Seq(S)
         /\ Len(s) \in Nat \ {0}
         /\ Len(Tail(s)) = Len(s) - 1
         /\ \A j \in 1 .. Len(s) - 1 : Tail(s)[j] = s[j + 1]
         /\ Head(s) = s[1]
         /\ s[1] \in S
BY HeadTailProperties, EmptySeq, LenProperties, ElementOfSeq

-----------------------------------------------------------------------------
(***************************************************************************)
(* Packets: how packetize cuts a file.                                     *)
(***************************************************************************)

LEMMA DivisionFacts ==
  ASSUME NEW n \in Nat, NEW d \in Nat \ {0}
  PROVE  /\ n \div d \in Nat
         /\ n % d \in 0 .. d - 1
         /\ n = (n \div d) * d + (n % d)
<1>1. n \div d \in Nat
  BY SMT
<1>2. n % d \in 0 .. d - 1
  BY SMT
<1>3. n = (n \div d) * d + (n % d)
  BY SMT
<1> QED BY <1>1, <1>2, <1>3

\* Every file has a header and at least one data packet, ids are indices,
\* and the bytes of the data packets add up to the size in the header.
LEMMA FileFacts ==
  ASSUME NEW f \in Files
  PROVE  /\ NumPackets(f) \in Nat
         /\ NumPackets(f) >= 2
         /\ NumPackets(f) + 1 < maxPacketId
         /\ \A i \in 0 .. NumPackets(f) + 1 : PacketId(i) = i
         /\ \A k \in 1 .. NumPackets(f) - 2 :
              /\ k * Packet_Size < FileSize[f]
              /\ (k - 1) * Packet_Size + Packet_Size = k * Packet_Size
         /\ \A p \in Packet : p.file = f /\ p.idx = NumPackets(f) =>
              (NumPackets(f) - 2) * Packet_Size + BodySize(p) = FileSize[f]
<1> DEFINE N == NumPackets(f)
           P == Packet_Size
           F == FileSize[f]
           q == F \div P
           r == F % P
<1>1. F \in Nat /\ F > 0 /\ P \in Nat \ {0} /\ maxPacketId \in Nat
  BY FilesAssumption, PacketSizeAssumption, PacketIdAssumption, NoHeaderLookalike
<1>2. q \in Nat /\ r \in 0 .. P - 1 /\ F = q * P + r
  BY <1>1, DivisionFacts
<1>3. N = q + 1 + (IF r = 0 THEN 0 ELSE 1)
  BY DEF NumPackets
<1>4. N + 1 < maxPacketId
  BY NoWrapAssumption
<1>5. \A p \in Packet : p.file = f /\ p.idx = N /\ N >= 2 =>
         BodySize(p) = IF r # 0 THEN r ELSE P
  BY <1>1, <1>2, <1>3 DEF BodySize
<1> HIDE DEF N, P, F, q, r
<1>6. N \in Nat /\ N >= 2
  <2>1. CASE r = 0
    <3>1. q # 0
      BY <1>1, <1>2, <2>1, SMT
    <3> QED BY <1>2, <1>3, <2>1, <3>1
  <2>2. CASE r # 0
    BY <1>2, <1>3, <2>2
  <2> QED BY <2>1, <2>2
<1>7. \A i \in 0 .. N + 1 : PacketId(i) = i
  <2> SUFFICES ASSUME NEW i \in 0 .. N + 1 PROVE i % maxPacketId = i
    BY DEF PacketId
  <2>1. i \in Nat /\ i < maxPacketId
    BY <1>4, <1>6, <1>1
  <2> QED BY <2>1, <1>1, SMT
<1>8. ASSUME NEW k \in 1 .. N - 2
      PROVE  k * P < F /\ (k - 1) * P + P = k * P
  <2>1. k \in Nat /\ (k - 1) * P + P = k * P
    BY <1>1, SMT
  <2>2. CASE r = 0
    <3>1. k < q
      BY <1>2, <1>3, <2>2
    <3>2. k * P < q * P
      BY <2>1, <3>1, <1>1, <1>2, SMT
    <3> QED BY <1>1, <1>2, <2>1, <2>2, <3>2, SMT
  <2>3. CASE r # 0
    <3>1. k <= q
      BY <1>2, <1>3, <2>3
    <3>2. k * P <= q * P
      BY <2>1, <3>1, <1>1, <1>2, SMT
    <3> QED BY <1>1, <1>2, <2>1, <2>3, <3>2, SMT
  <2> QED BY <2>2, <2>3, <2>1
<1>9. (N - 2) * P + (IF r # 0 THEN r ELSE P) = F
  <2>1. CASE r = 0
    <3>1. N - 2 = q - 1 /\ (q - 1) * P + P = q * P
      BY <1>1, <1>2, <1>3, <2>1, SMT
    <3> QED BY <1>1, <1>2, <2>1, <3>1, SMT
  <2>2. CASE r # 0
    <3>1. N - 2 = q
      BY <1>2, <1>3, <2>2
    <3> QED BY <1>1, <1>2, <2>2, <3>1, SMT
  <2> QED BY <2>1, <2>2
<1> QED BY <1>4, <1>5, <1>6, <1>7, <1>8, <1>9 DEF N, P, F

\* If packets may overtake each other, there is one file only.
LEMMA SameFile == Reorder => \A f, g \in Files : f = g
BY OrderAssumption

\* The packets of a window.
LEMMA WindowProps ==
  ASSUME NEW f \in Files, NEW lo \in Nat \ {0}, NEW hi \in Nat, lo <= hi
  PROVE  /\ Window(f, lo, hi) \in Seq(Packet)
         /\ Len(Window(f, lo, hi)) = hi - lo + 1
         /\ \A j \in 1 .. Len(Window(f, lo, hi)) :
              /\ Window(f, lo, hi)[j].file = f
              /\ Window(f, lo, hi)[j].idx = lo + j - 1
<1>1. Window(f, lo, hi) = [j \in 1 .. hi - lo + 1 |-> [file |-> f, idx |-> lo + j - 1]]
  BY DEF Window
<1>2. hi - lo + 1 \in Nat
  OBVIOUS
<1>3. \A j \in 1 .. hi - lo + 1 : [file |-> f, idx |-> lo + j - 1] \in Packet
  BY DEF Packet
<1>4. Window(f, lo, hi) \in [1 .. hi - lo + 1 -> Packet]
  BY <1>1, <1>3
<1>5. Window(f, lo, hi) \in Seq(Packet) /\ Len(Window(f, lo, hi)) = hi - lo + 1
  BY <1>2, <1>4, FunctionIsSeq
<1>6. ASSUME NEW j \in 1 .. hi - lo + 1
      PROVE  Window(f, lo, hi)[j].file = f /\ Window(f, lo, hi)[j].idx = lo + j - 1
  <2>1. Window(f, lo, hi)[j] = [file |-> f, idx |-> lo + j - 1]
    BY <1>1
  <2> QED BY <2>1
<1> QED BY <1>5, <1>6

-----------------------------------------------------------------------------
(***************************************************************************)
(* The sending half.                                                       *)
(***************************************************************************)

\* The upper end of a window.
LEMMA LeastProps ==
  ASSUME NEW a \in Nat, NEW c \in Nat \ {0}, NEW n \in Nat, a < n
  PROVE  /\ Least(a + c, n) \in Nat
         /\ a < Least(a + c, n)
         /\ Least(a + c, n) <= n
         /\ Least(a + c, n) - a <= c
BY DEF Least

\* sendNextWindow, called with an unacked packet left, sends at least one
\* packet, at most m_cwnd, and only packets of the file; they come behind
\* those already on the way.
LEMMA SendNextWindowProps ==
  ASSUME toReceiver \in Seq(Packet), file' \in Files, DataInv,
         m_cwnd' \in Nat \ {0}, m_senderLastPacketAcked' \in Nat,
         m_senderLastPacketAcked' < NumPackets(file'),
         sendNextWindow
  PROVE  /\ m_lastPacketSent' \in Nat
         /\ m_senderLastPacketAcked' < m_lastPacketSent'
         /\ m_lastPacketSent' <= NumPackets(file')
         /\ m_lastPacketSent' - m_senderLastPacketAcked' <= m_cwnd'
         /\ toReceiver' \in Seq(Packet)
         /\ Len(toReceiver') <= Len(toReceiver) + m_cwnd'
         /\ PacketsOfFiles(toReceiver')
         /\ \A i \in 1 .. Len(toReceiver') :
              IF i <= Len(toReceiver)
              THEN toReceiver'[i] = toReceiver[i]
              ELSE /\ toReceiver'[i].file = file'
                   /\ toReceiver'[i].idx = 1 <=>
                        m_senderLastPacketAcked' = 0 /\ i = Len(toReceiver) + 1
<1> DEFINE N == NumPackets(file')
           SA == m_senderLastPacketAcked'
           last == m_lastPacketSent'
           w == Window(file', SA + 1, last)
<1>1. N \in Nat /\ last = Least(SA + m_cwnd', N)
  BY FileFacts DEF sendNextWindow
<1>2. /\ last \in Nat /\ SA \in Nat
      /\ SA < last /\ last <= N /\ last - SA <= m_cwnd'
  BY <1>1, LeastProps
<1>3. /\ w \in Seq(Packet)
      /\ Len(w) = last - SA
      /\ \A j \in 1 .. Len(w) : w[j].file = file' /\ w[j].idx = SA + j
  <2> HIDE DEF last, SA, N
  <2>1. SA + 1 \in Nat \ {0} /\ SA + 1 <= last /\ last - (SA + 1) + 1 = last - SA
    BY <1>1, <1>2
  <2>2. /\ w \in Seq(Packet) /\ Len(w) = last - (SA + 1) + 1
        /\ \A j \in 1 .. Len(w) : w[j].file = file' /\ w[j].idx = (SA + 1) + j - 1
    BY <1>2, <2>1, WindowProps
  <2>3. \A j \in 1 .. Len(w) : (SA + 1) + j - 1 = SA + j
    BY <1>2, <2>1, <2>2
  <2> QED BY <2>1, <2>2, <2>3
<1>4. toReceiver' = Offer(toReceiver, w)
  BY DEF sendNextWindow
<1> HIDE DEF w
<1>5. /\ toReceiver' \in Seq(Packet)
      /\ Len(toReceiver') <= Len(toReceiver) + Len(w)
      /\ \A j \in 1 .. Len(toReceiver') :
           toReceiver'[j] = IF j <= Len(toReceiver) THEN toReceiver[j]
                            ELSE w[j - Len(toReceiver)]
  BY <1>3, <1>4, OfferProps
<1>6. /\ Len(toReceiver) \in Nat /\ Len(toReceiver') \in Nat /\ Len(w) \in Nat
      /\ Len(toReceiver') <= Len(toReceiver) + m_cwnd'
  <2>1. Len(toReceiver) \in Nat /\ Len(toReceiver') \in Nat /\ Len(w) \in Nat
    BY <1>3, <1>5, LenProperties
  <2> HIDE DEF last, SA
  <2> QED BY <1>2, <1>3, <1>5, <2>1
<1>7. ASSUME NEW i \in 1 .. Len(toReceiver'), i <= Len(toReceiver)
      PROVE  /\ toReceiver'[i] = toReceiver[i]
             /\ toReceiver'[i].idx <= NumPackets(toReceiver'[i].file)
  BY <1>5, <1>6, <1>7 DEF DataInv, PacketsOfFiles
<1>8. ASSUME NEW i \in 1 .. Len(toReceiver'), ~(i <= Len(toReceiver))
      PROVE  /\ toReceiver'[i].file = file'
             /\ toReceiver'[i].idx <= NumPackets(file')
             /\ toReceiver'[i].idx = 1 <=> SA = 0 /\ i = Len(toReceiver) + 1
  <2> DEFINE k == i - Len(toReceiver)
  <2>1. k \in 1 .. Len(w)
    BY <1>5, <1>6, <1>8
  <2>2. toReceiver'[i] = w[k]
    BY <1>5, <1>8
  <2>3. toReceiver'[i].file = file' /\ toReceiver'[i].idx = SA + k
    BY <1>3, <2>1, <2>2
  <2>4. SA + k <= last
    BY <1>2, <1>3, <2>1
  <2>5. SA + k = 1 <=> SA = 0 /\ i = Len(toReceiver) + 1
    BY <1>6, <2>1
  <2>6. toReceiver'[i].idx <= N
    <3> HIDE DEF k, SA, last, N
    <3> QED BY <1>1, <1>2, <2>1, <2>3, <2>4
  <2> QED BY <2>3, <2>5, <2>6
<1> QED BY <1>2, <1>5, <1>6, <1>7, <1>8 DEF PacketsOfFiles

\* What is sent comes behind the layers that are on the path already: it
\* extends the headers until a header is acked, and the data from then on.
LEMMA WindowLayers ==
  ASSUME toReceiver \in Seq(Packet), file' \in Files, DataInv,
         m_cwnd' \in Nat \ {0}, m_senderLastPacketAcked' \in Nat,
         m_senderLastPacketAcked' < NumPackets(file'),
         sendNextWindow,
         NEW h \in 0 .. Len(toReceiver), NEW m \in 0 .. h,
         \A i \in 1 .. Len(toReceiver) :
           /\ i <= m => toReceiver[i].idx # 1
           /\ m < i => toReceiver[i].file = file'
           /\ m < i => (i <= h <=> toReceiver[i].idx = 1),
         m_senderLastPacketAcked' = 0 =>
           /\ m_cwnd' = 1
           /\ h = Len(toReceiver)
           /\ filesWritten' # round',
         m > 0 => filesWritten' + 1 = round' /\ m_receiverLastPacketAcked' = 0,
         h > 0 => filesWritten' # round'
  PROVE  \E h2 \in 0 .. Len(toReceiver') : \E m2 \in 0 .. h2 : Layers(m2, h2)'
<1> DEFINE SA == m_senderLastPacketAcked'
           n == Len(toReceiver)
           n2 == Len(toReceiver')
<1>1. /\ toReceiver' \in Seq(Packet)
      /\ n2 <= n + m_cwnd'
      /\ \A i \in 1 .. n2 :
           IF i <= n
           THEN toReceiver'[i] = toReceiver[i]
           ELSE /\ toReceiver'[i].file = file'
                /\ toReceiver'[i].idx = 1 <=> SA = 0 /\ i = n + 1
  BY SendNextWindowProps
<1>2. n \in Nat /\ n2 \in Nat /\ h \in Nat /\ m \in Nat /\ m <= h /\ h <= n
  BY <1>1, LenProperties
<1>3. PICK h2 \in 0 .. n2 : h2 = IF SA = 0 THEN n2 ELSE Least(h, n2)
  BY <1>2 DEF Least
<1>4. PICK m2 \in 0 .. h2 : m2 = Least(m, n2)
  BY <1>2, <1>3 DEF Least
<1>5. ASSUME NEW i \in 1 .. n2, i <= m2
      PROVE  toReceiver'[i].idx # 1
  BY <1>1, <1>2, <1>4, <1>5 DEF Least
<1>6. ASSUME NEW i \in 1 .. n2, m2 < i
      PROVE  /\ toReceiver'[i].file = file'
             /\ i <= h2 <=> toReceiver'[i].idx = 1
  <2>1. m < i
    BY <1>2, <1>4, <1>6 DEF Least
  <2>2. CASE i <= n
    <3>1. /\ toReceiver'[i].file = file'
          /\ i <= h <=> toReceiver'[i].idx = 1
      BY <1>1, <1>2, <2>1, <2>2
    <3>2. i <= h2 <=> i <= h
      BY <1>2, <1>3, <2>2 DEF Least
    <3> QED BY <3>1, <3>2
  <2>3. CASE ~(i <= n)
    <3>1. /\ toReceiver'[i].file = file'
          /\ toReceiver'[i].idx = 1 <=> SA = 0 /\ i = n + 1
      BY <1>1, <2>3
    <3>2. CASE SA = 0
      <4>1. i = n + 1 /\ i <= h2
        BY <1>1, <1>2, <1>3, <2>3, <3>2
      <4> QED BY <3>1, <3>2, <4>1
    <3>3. CASE SA # 0
      <4>1. ~(i <= h2)
        BY <1>2, <1>3, <2>3, <3>3 DEF Least
      <4> QED BY <3>1, <3>3, <4>1
    <3> QED BY <3>2, <3>3
  <2> QED BY <2>2, <2>3
<1>7. /\ m2 > 0 => filesWritten' + 1 = round' /\ m_receiverLastPacketAcked' = 0
      /\ h2 > 0 => filesWritten' # round'
      /\ h2 < n2 => SA # 0
  BY <1>2, <1>3, <1>4 DEF Least
<1>8. Layers(m2, h2)'
  BY <1>5, <1>6, <1>7 DEF Layers
<1> QED BY <1>3, <1>4, <1>8

\* What leaves the path leaves the layers as they are.
LEMMA RemoveLayers ==
  ASSUME toReceiver \in Seq(Packet), NEW k \in 1 .. Len(toReceiver),
         toReceiver' = RemoveAt(toReceiver, k),
         file' = file, m_senderLastPacketAcked' = m_senderLastPacketAcked,
         NEW h \in 0 .. Len(toReceiver), NEW m \in 0 .. h, Layers(m, h),
         m > 0 => filesWritten' + 1 = round' /\ m_receiverLastPacketAcked' = 0,
         h > 0 => filesWritten' # round'
  PROVE  \E h2 \in 0 .. Len(toReceiver') : \E m2 \in 0 .. h2 : Layers(m2, h2)'
<1> DEFINE n == Len(toReceiver)
<1>1. /\ n \in Nat /\ Len(toReceiver') = n - 1
      /\ \A j \in 1 .. n - 1 :
           toReceiver'[j] = IF j < k THEN toReceiver[j] ELSE toReceiver[j + 1]
  BY RemoveAtProps, LenProperties
<1>2. PICK h2 \in 0 .. n - 1 : h2 = IF k <= h THEN h - 1 ELSE h
  BY <1>1
<1>3. PICK m2 \in 0 .. h2 : m2 = IF k <= m THEN m - 1 ELSE m
  BY <1>1, <1>2
<1>4. ASSUME NEW i \in 1 .. n - 1
      PROVE  /\ i <= m2 => toReceiver'[i].idx # 1
             /\ m2 < i => toReceiver'[i].file = file'
             /\ m2 < i => (i <= h2 <=> toReceiver'[i].idx = 1)
  <2>1. PICK l \in 1 .. n : l = IF i < k THEN i ELSE i + 1
    BY <1>1
  <2>2. toReceiver'[i] = toReceiver[l]
    BY <1>1, <2>1
  <2>3. (i <= m2 <=> l <= m) /\ (m2 < i <=> m < l) /\ (i <= h2 <=> l <= h)
    BY <1>1, <1>2, <1>3, <2>1
  <2>4. /\ l <= m => toReceiver[l].idx # 1
        /\ m < l => toReceiver[l].file = file
        /\ m < l => (l <= h <=> toReceiver[l].idx = 1)
    BY DEF Layers
  <2> QED BY <2>2, <2>3, <2>4
<1>5. /\ m2 > 0 => filesWritten' + 1 = round' /\ m_receiverLastPacketAcked' = 0
      /\ h2 > 0 => filesWritten' # round'
      /\ h2 < n - 1 => m_senderLastPacketAcked' # 0
  <2>1. h < n => m_senderLastPacketAcked # 0
    BY DEF Layers
  <2> QED BY <1>1, <1>2, <1>3, <2>1
<1>6. Layers(m2, h2)'
  BY <1>1, <1>4, <1>5 DEF Layers
<1> QED BY <1>1, <1>2, <1>3, <1>6

\* Facts about NoFurther: it is transitive, and a later position of the
\* sender keeps what was ahead of it ahead.
LEMMA NoFurtherTransitive ==
  ASSUME NEW f1 \in Nat, NEW l1 \in Nat, NEW f2 \in Nat, NEW l2 \in Nat,
         NEW f3 \in Nat, NEW l3 \in Nat,
         NoFurther(f1, l1, f2, l2), NoFurther(f2, l2, f3, l3)
  PROVE  NoFurther(f1, l1, f3, l3)
BY DEF NoFurther

LEMMA NoFurtherAhead ==
  ASSUME NEW f1 \in Nat, NEW l1 \in Nat, NEW f2 \in Nat, NEW l2 \in Nat,
         NEW f3 \in Nat, NEW l3 \in Nat,
         NoFurther(f1, l1, f2 + 1, l2), NoFurther(f2, l2, f3, l3)
  PROVE  NoFurther(f1, l1, f3 + 1, l3)
BY DEF NoFurther

\* The acks on the way are records with natural fields.
LEMMA AckTypes ==
  ASSUME NEW s \in Seq(Ack), NEW i \in 1 .. Len(s)
  PROVE  /\ s[i] \in Ack
         /\ s[i].id \in Nat
         /\ s[i].at.files \in Nat
         /\ s[i].at.last \in Nat
<1>1. s[i] \in Ack
  BY ElementOfSeq
<1> QED BY <1>1, PacketIdAssumption DEF Ack

-----------------------------------------------------------------------------
(***************************************************************************)
(* The sign of the estimated round trip, and of the timeout that runs.     *)
(***************************************************************************)

LEMMA startTimeoutProps ==
  ASSUME negativeRTT' \in BOOLEAN, startTimeout
  PROVE  m_isTimeoutAllowed' = TRUE /\ m_isTimeoutAllowed' \in BOOLEAN
         /\ waitsForEver' \in BOOLEAN
BY Zenon DEF startTimeout

LEMMA measureRTTProps ==
  ASSUME negativeRTT \in BOOLEAN, measureRTT
  PROVE  negativeRTT' \in BOOLEAN
<1>1. CASE negativeRTT
  BY <1>1 DEF measureRTT
<1>2. CASE ~negativeRTT
  BY <1>2 DEF measureRTT
<1> QED BY <1>1, <1>2

-----------------------------------------------------------------------------
(***************************************************************************)
(* The inductive invariant holds initially and is preserved by each action. *)
(***************************************************************************)

LEMMA InitIInv == Init => IInv
<1> SUFFICES ASSUME Init PROVE IInv
  OBVIOUS
<1> USE DEF Init
<1>1. NumPackets(file) \in Nat /\ NumPackets(file) >= 2
  BY FileFacts
<1>2. TypeOK
  <2>1. maxSsthresh \in Nat \ {0}
    BY PacketIdAssumption DEF maxSsthresh
  <2>2. <<>> \in Seq(Packet) /\ <<>> \in Seq(Ack)
    BY EmptySeq
  <2>3. /\ repeat \in BOOLEAN /\ m_isTimeoutAllowed \in BOOLEAN
        /\ negativeRTT \in BOOLEAN /\ waitsForEver \in BOOLEAN
    BY PathAssumption, Zenon
  <2>4. /\ m_cwnd \in Nat \ {0} /\ m_ssthresh \in Nat \ {0}
        /\ m_senderLastPacketAcked \in Nat /\ m_lastPacketSent \in Nat
        /\ round \in Nat /\ m_currentMessageSize \in Nat
        /\ m_bytesReceivedSoFar \in Nat /\ m_receiverLastPacketAcked \in Nat
        /\ filesWritten \in Nat
    BY <2>1
  <2> QED BY <2>2, <2>3, <2>4 DEF TypeOK
<1>3. SenderInv
  BY <1>1 DEF SenderInv, WindowOK
<1>4. ReceiverInv
  BY <1>1 DEF ReceiverInv, PrefixBytes
<1>5. DataInv /\ AckInv
  BY DEF DataInv, PacketsOfFiles, AckInv
<1>6. AckedIsAccepted
  BY DEF AckedIsAccepted, NoFurther
<1>7. OrderInv
  <2>1. Len(toReceiver) = 0 /\ Layers(0, 0)
    BY DEF Layers
  <2>2. /\ filesWritten <= round /\ m_receiverLastPacketAcked = 0
        /\ m_receiverLastPacketAcked <= 1 /\ round = 0
    OBVIOUS
  <2>3. 0 \in 0 .. Len(toReceiver) /\ 0 \in 0 .. 0
    BY <2>1
  <2> QED BY <2>1, <2>2, <2>3 DEF OrderInv
<1> QED BY <1>2, <1>3, <1>4, <1>5, <1>6, <1>7 DEF IInv

\* When no file is being sent, the receiver is past the transmission before;
\* and on a path that keeps the order it has not begun another.
LEMMA BeforeTransmission ==
  ASSUME IInv, phase # "sending"
  PROVE  /\ round <= filesWritten
         /\ ~Reorder => filesWritten = round /\ m_receiverLastPacketAcked = 0
<1>1. /\ round \in Nat /\ filesWritten \in Nat /\ file \in Files
      /\ m_receiverLastPacketAcked \in Nat
      /\ phase \in {"idle", "sending", "sleeping", "done"}
  BY DEF IInv, TypeOK
<1>2. NumPackets(file) \in Nat
  BY <1>1, FileFacts
<1>3. round <= filesWritten
  <2>1. CASE phase = "idle"
    BY <1>1, <2>1 DEF IInv, SenderInv
  <2>2. CASE phase \in {"sleeping", "done"}
    <3>1. /\ m_senderLastPacketAcked = NumPackets(file)
          /\ m_receiverLastPacketAcked < NumPackets(file)
      BY <2>2 DEF IInv, SenderInv, ReceiverInv
    <3> QED BY <1>1, <1>2, <3>1 DEF IInv, AckedIsAccepted, NoFurther
  <2> QED BY <1>1, <2>1, <2>2
<1>4. ~Reorder => filesWritten <= round
                  /\ (filesWritten = round => m_receiverLastPacketAcked = 0)
  BY DEF IInv, OrderInv
<1> QED BY <1>1, <1>3, <1>4

\* A transmission begins only when the receiver, and every ack on the way,
\* is past the one before; so a new file begins on a path that has at most
\* data packets of it left, for a receiver that waits for a header.
LEMMA TransmitIInv ==
  ASSUME IInv, phase # "sending", NEW f \in Files, repeat' \in BOOLEAN,
         transmit(f)
  PROVE  IInv'
<1> DEFINE N == NumPackets(f)
<1>1. /\ file \in Files /\ file' = f
      /\ Reorder => file = f
  BY SameFile DEF transmit, IInv, TypeOK
<1>2. N \in Nat /\ N >= 2 /\ NumPackets(file) \in Nat /\ NumPackets(file) >= 2
  BY <1>1, FileFacts
<1>3. /\ toReceiver \in Seq(Packet) /\ DataInv /\ sendNextWindow
      /\ m_cwnd' = 1 /\ m_senderLastPacketAcked' = 0 /\ round' = round + 1
      /\ UNCHANGED receiverVars /\ toSender' = toSender
      /\ m_cwnd' \in Nat \ {0} /\ m_senderLastPacketAcked' \in Nat
      /\ m_senderLastPacketAcked' < N
  BY <1>2 DEF transmit, IInv, TypeOK
<1>4. /\ m_lastPacketSent' \in Nat
      /\ m_senderLastPacketAcked' < m_lastPacketSent'
      /\ m_lastPacketSent' <= N
      /\ m_lastPacketSent' - m_senderLastPacketAcked' <= m_cwnd'
      /\ toReceiver' \in Seq(Packet)
      /\ PacketsOfFiles(toReceiver')
  BY <1>1, <1>3, SendNextWindowProps
<1> HIDE DEF N
<1>5. TypeOK'
  <2>1. negativeRTT' \in BOOLEAN /\ startTimeout
    BY Zenon DEF IInv, TypeOK, transmit
  <2>2. m_isTimeoutAllowed' \in BOOLEAN /\ waitsForEver' \in BOOLEAN
    BY <2>1, startTimeoutProps
  <2> QED BY <1>1, <1>4, <2>1, <2>2, PacketIdAssumption
      DEF IInv, TypeOK, transmit, receiverVars, maxSsthresh
<1>6. SenderInv'
  <2>1. phase' = "sending" /\ m_isTimeoutAllowed' = TRUE /\ round' # 0
    BY DEF transmit, startTimeout, IInv, TypeOK
  <2>2. NumPackets(file') = N
    BY <1>1 DEF N
  <2>3. m_senderLastPacketAcked' <= NumPackets(file')
    BY <1>2, <1>3, <2>2
  <2>4. WindowOK'
    BY <1>4, <2>1, <2>2 DEF WindowOK
  <2> QED BY <1>3, <2>1, <2>3, <2>4 DEF SenderInv
<1>7. /\ round \in Nat /\ filesWritten \in Nat /\ m_receiverLastPacketAcked \in Nat
      /\ m_inBuffer \in Seq(Packet)
  BY DEF IInv, TypeOK
<1>8. /\ round <= filesWritten
      /\ ~Reorder => filesWritten = round /\ m_receiverLastPacketAcked = 0
  BY BeforeTransmission
<1>9. ReceiverInv'
  <2>1. CASE Reorder
    <3>1. file' = file
      BY <1>1, <2>1
    <3> QED BY <1>3, <1>7, <3>1 DEF IInv, ReceiverInv, PrefixBytes, receiverVars
  <2>2. CASE ~Reorder
    <3>1. /\ m_receiverLastPacketAcked' = 0 /\ Len(m_inBuffer') = 0
          /\ m_bytesReceivedSoFar' = 0 /\ filesWritten' < round'
          /\ disk' = disk /\ filesWritten' = filesWritten
      BY <1>3, <1>7, <1>8, <2>2 DEF IInv, ReceiverInv, PrefixBytes, receiverVars
    <3>2. /\ filesWritten = 0 => disk = <<>>
          /\ filesWritten # 0 => \E g \in Files : disk = Content(g)
      BY DEF IInv, ReceiverInv
    <3>3. filesWritten # 0 => \E g \in Files : disk' = Content(g)
      BY <3>1, <3>2
    <3> QED BY <1>1, <1>2, <1>3, <1>7, <3>1, <3>2, <3>3
            DEF ReceiverInv, PrefixBytes, N, Content, NumPackets
  <2> QED BY <2>1, <2>2
<1>10. DataInv'
  BY <1>3, <1>4, <1>7 DEF DataInv
<1>11. AckedIsAccepted'
  BY <1>3, <1>7, <1>8 DEF AckedIsAccepted, NoFurther, receiverVars
<1>12. AckInv'
  <2> SUFFICES ASSUME NEW i \in 1 .. Len(toSender)
               PROVE  /\ AckFits(toSender[i])'
                      /\ NoFurther(round + 1, 0, toSender[i].at.files + 1,
                                   toSender[i].at.last)
    BY <1>3 DEF IInv, AckInv, AckFits, receiverVars
  <2> DEFINE a == toSender[i]
  <2>1. a.at.files \in Nat /\ a.at.last \in Nat
    BY AckTypes DEF IInv, TypeOK
  <2>2. round # 0
    BY EmptySeq DEF IInv, DataInv, TypeOK
  <2>3. m_senderLastPacketAcked = NumPackets(file)
    BY <2>2 DEF IInv, SenderInv, TypeOK
  <2>4. /\ AckFits(a) /\ a.at.last < NumPackets(file)
        /\ NoFurther(round, m_senderLastPacketAcked, a.at.files + 1, a.at.last)
        /\ NoFurther(a.at.files, a.at.last, filesWritten, m_receiverLastPacketAcked)
    BY DEF IInv, AckInv, AckFits
  <2>5. round <= a.at.files
    BY <1>2, <1>7, <2>1, <2>3, <2>4 DEF NoFurther
  <2>6. CASE Reorder
    <3>1. a.id <= NumPackets(file)
      BY <1>7, <2>1, <2>4, <2>5 DEF AckFits
    <3> QED BY <1>1, <1>3, <1>7, <2>1, <2>4, <2>5, <2>6, <3>1 DEF AckFits, NoFurther
  <2>7. CASE ~Reorder
    <3>1. a.at.files = round /\ a.at.last = 0
      BY <1>7, <1>8, <2>1, <2>4, <2>5, <2>7 DEF NoFurther
    <3> QED BY <1>1, <1>2, <1>3, <1>7, <2>4, <3>1 DEF AckFits, NoFurther, N
  <2> QED BY <2>6, <2>7
<1>13. ~Reorder => OrderInv'
  <2> SUFFICES ASSUME ~Reorder PROVE OrderInv'
    OBVIOUS
  <2>1h. PICK h \in 0 .. Len(toReceiver) : \E m \in 0 .. h : Layers(m, h)
    BY DEF IInv, OrderInv
  <2>1. PICK m \in 0 .. h : Layers(m, h)
    BY <2>1h
  <2>2. Len(toReceiver) \in Nat
    BY <1>3, LenProperties
  <2>3. h = 0 /\ m = 0
    BY <1>8, <2>1, <2>2 DEF Layers
  <2>4. \A i \in 1 .. Len(toReceiver) : toReceiver[i].idx # 1
    BY <2>1, <2>2, <2>3 DEF Layers
  <2>5. \E h2 \in 0 .. Len(toReceiver') : \E m2 \in 0 .. h2 : Layers(m2, h2)'
    <3> DEFINE n == Len(toReceiver)
    <3>1. n \in 0 .. n
      BY <2>2
    <3>2. \A i \in 1 .. n : i <= n /\ ~(n < i)
      BY <2>2
    <3>3. /\ filesWritten' # round' /\ filesWritten' + 1 = round'
          /\ m_receiverLastPacketAcked' = 0
      BY <1>3, <1>7, <1>8 DEF receiverVars
    <3> QED BY <1>1, <1>3, <2>4, <3>1, <3>2, <3>3, WindowLayers DEF N
  <2> QED BY <1>3, <1>7, <1>8, <2>5 DEF OrderInv, receiverVars
<1> QED BY <1>5, <1>6, <1>9, <1>10, <1>11, <1>12, <1>13 DEF IInv

LEMMA SendIInv == IInv /\ (resendMessage \/ userSends) => IInv'
<1> SUFFICES ASSUME IInv, resendMessage \/ userSends
             PROVE  IInv'
  OBVIOUS
<1>1. CASE resendMessage
  <2>1. /\ phase # "sending" /\ file \in Files /\ repeat' \in BOOLEAN
        /\ transmit(file)
    BY <1>1 DEF resendMessage, IInv, TypeOK
  <2> QED BY <2>1, TransmitIInv
<1>2. CASE userSends
  <2>1. PICK f \in Files, r \in BOOLEAN : phase # "sending" /\ sendMessage(f, r)
    BY <1>2 DEF userSends
  <2>2. repeat' \in BOOLEAN /\ transmit(f)
    BY <2>1 DEF sendMessage
  <2> QED BY <2>1, <2>2, TransmitIInv
<1> QED BY <1>1, <1>2

\* On a path that keeps the order, what the sender does within a
\* transmission leaves the layers: it sends the header again until that is
\* acked, and data from then on.
LEMMA SenderOrder ==
  ASSUME IInv, ~Reorder, file' = file, round' = round, round # 0,
         UNCHANGED receiverVars,
         m_senderLastPacketAcked' \in Nat,
         m_senderLastPacketAcked' = 0 => m_senderLastPacketAcked = 0,
         \/ toReceiver' = toReceiver
         \/ /\ m_cwnd' \in Nat \ {0}
            /\ m_senderLastPacketAcked' < NumPackets(file)
            /\ m_senderLastPacketAcked' = 0 => m_cwnd' = 1
            /\ sendNextWindow
  PROVE  OrderInv'
<1>1. /\ toReceiver \in Seq(Packet) /\ Len(toReceiver) \in Nat /\ file \in Files
      /\ DataInv /\ round \in Nat
      /\ filesWritten' = filesWritten
      /\ m_receiverLastPacketAcked' = m_receiverLastPacketAcked
  BY LenProperties DEF IInv, TypeOK, receiverVars
<1>2. /\ filesWritten <= round
      /\ filesWritten = round => m_receiverLastPacketAcked = 0
      /\ m_senderLastPacketAcked = 0 =>
           m_receiverLastPacketAcked <= 1 /\ filesWritten # round
  BY DEF IInv, OrderInv
<1>3h. PICK h \in 0 .. Len(toReceiver) : \E m \in 0 .. h : Layers(m, h)
  BY DEF IInv, OrderInv
<1>3. PICK m \in 0 .. h : Layers(m, h)
  BY <1>3h
<1>4. /\ \A i \in 1 .. Len(toReceiver) :
           /\ i <= m => toReceiver[i].idx # 1
           /\ m < i => toReceiver[i].file = file'
           /\ m < i => (i <= h <=> toReceiver[i].idx = 1)
      /\ m > 0 => filesWritten' + 1 = round' /\ m_receiverLastPacketAcked' = 0
      /\ h > 0 => filesWritten' # round'
      /\ h < Len(toReceiver) => m_senderLastPacketAcked # 0
  BY <1>1, <1>3 DEF Layers
<1>5. \E h2 \in 0 .. Len(toReceiver') : \E m2 \in 0 .. h2 : Layers(m2, h2)'
  <2>1. CASE toReceiver' = toReceiver
    <3>1. Layers(m, h)'
      BY <1>4, <2>1 DEF Layers
    <3> QED BY <2>1, <3>1
  <2>2. CASE /\ m_cwnd' \in Nat \ {0}
             /\ m_senderLastPacketAcked' < NumPackets(file)
             /\ m_senderLastPacketAcked' = 0 => m_cwnd' = 1
             /\ sendNextWindow
    <3>1. m_senderLastPacketAcked' = 0 =>
            m_cwnd' = 1 /\ h = Len(toReceiver) /\ filesWritten' # round'
      BY <1>1, <1>2, <1>4, <2>2
    <3>2. file' \in Files /\ m_senderLastPacketAcked' < NumPackets(file')
      BY <1>1, <2>2
    <3> QED BY <1>1, <1>4, <2>2, <3>1, <3>2, WindowLayers
  <2> QED BY <2>1, <2>2
<1> QED BY <1>1, <1>2, <1>5 DEF OrderInv

LEMMA TimeoutIInv == IInv /\ timeoutBody => IInv'
<1> SUFFICES ASSUME IInv, timeoutBody PROVE IInv'
  OBVIOUS
<1> DEFINE N == NumPackets(file)
<1>1. /\ file \in Files /\ file' = file /\ NumPackets(file') = N
      /\ FileSize[file'] = FileSize[file] /\ Content(file') = Content(file)
  BY DEF timeoutBody, IInv, TypeOK
<1>2. N \in Nat /\ N >= 2
  BY <1>1, FileFacts
<1>3. /\ phase = "sending" /\ m_senderLastPacketAcked \in Nat
      /\ m_senderLastPacketAcked < N
  BY <1>2 DEF timeoutBody, IInv, TypeOK, SenderInv, WindowOK
<1>4. /\ m_cwnd' = 1 /\ m_ssthresh' \in Nat \ {0}
      /\ m_senderLastPacketAcked' = m_senderLastPacketAcked
  BY SMT DEF timeoutBody, startSlowAgain, Greatest, IInv, TypeOK
<1>5. /\ m_lastPacketSent' \in Nat
      /\ m_senderLastPacketAcked' < m_lastPacketSent'
      /\ m_lastPacketSent' <= N
      /\ m_lastPacketSent' - m_senderLastPacketAcked' <= m_cwnd'
      /\ toReceiver' \in Seq(Packet)
      /\ PacketsOfFiles(toReceiver')
  <2>1. /\ m_cwnd' \in Nat \ {0} /\ m_senderLastPacketAcked' \in Nat
        /\ m_senderLastPacketAcked' < N
        /\ toReceiver \in Seq(Packet) /\ DataInv /\ sendNextWindow
    BY <1>3, <1>4 DEF timeoutBody, IInv, TypeOK
  <2> QED BY <1>1, <2>1, SendNextWindowProps
<1> HIDE DEF N
<1>6a. /\ negativeRTT' \in BOOLEAN /\ m_isTimeoutAllowed' = TRUE
       /\ m_isTimeoutAllowed' \in BOOLEAN /\ waitsForEver' \in BOOLEAN
  <2>1. negativeRTT' \in BOOLEAN /\ startTimeout
    BY Zenon DEF IInv, TypeOK, timeoutBody
  <2> QED BY <2>1, startTimeoutProps
<1>6. TypeOK'
  BY <1>4, <1>5, <1>6a DEF IInv, TypeOK, timeoutBody, receiverVars
<1>7. SenderInv'
  BY <1>1, <1>2, <1>3, <1>4, <1>5, <1>6a
  DEF IInv, TypeOK, SenderInv, WindowOK, timeoutBody
<1>8. ReceiverInv'
  BY <1>1 DEF IInv, ReceiverInv, PrefixBytes, timeoutBody, receiverVars
<1>9. DataInv'
  BY <1>1, <1>3, <1>5 DEF IInv, SenderInv, DataInv, timeoutBody
<1>10. AckInv' /\ AckedIsAccepted'
  BY <1>1 DEF IInv, AckInv, AckFits, AckedIsAccepted, timeoutBody, receiverVars
<1>11. ~Reorder => OrderInv'
  <2> SUFFICES ASSUME ~Reorder PROVE OrderInv'
    OBVIOUS
  <2>1. /\ round' = round /\ round # 0 /\ UNCHANGED receiverVars
        /\ m_senderLastPacketAcked' \in Nat /\ m_cwnd' \in Nat \ {0}
        /\ m_senderLastPacketAcked' < NumPackets(file) /\ sendNextWindow
    BY <1>2, <1>3, <1>4 DEF timeoutBody, IInv, SenderInv, N
  <2> QED BY <1>1, <1>4, <2>1, SenderOrder
<1> QED BY <1>6, <1>7, <1>8, <1>9, <1>10, <1>11 DEF IInv

\* What handleAck needs to know of the sender: in each of its cases it
\* leaves the counters in order, and never passes the position at which
\* the receiver sent the ack.
LEMMA HandleAckSender ==
  ASSUME IInv, NEW a \in Ack, round # 0, phase # "sleeping",
         AckFits(a),
         a.at.files \in Nat, a.at.last \in Nat,
         NoFurther(round, m_senderLastPacketAcked, a.at.files + 1, a.at.last),
         file' = file, repeat' = repeat, round' = round,
         negativeRTT' \in BOOLEAN,
         \/ ackOfNextPacket(a.id)
         \/ ackOfLaterPacket(a.id)
         \/ ackOfEarlierPacket(a.id)
  PROVE  /\ phase' \in {"idle", "sending", "sleeping", "done"}
         /\ m_cwnd' \in Nat \ {0} /\ m_ssthresh' \in Nat \ {0}
         /\ m_senderLastPacketAcked' \in Nat /\ m_lastPacketSent' \in Nat
         /\ m_isTimeoutAllowed' \in BOOLEAN
         /\ waitsForEver' \in BOOLEAN
         /\ toReceiver' \in Seq(Packet)
         /\ SenderInv'
         /\ PacketsOfFiles(toReceiver')
         /\ m_senderLastPacketAcked' = 0 => m_senderLastPacketAcked = 0
         /\ \/ toReceiver' = toReceiver
            \/ /\ m_senderLastPacketAcked' < NumPackets(file)
               /\ m_senderLastPacketAcked' = 0 => m_cwnd' = 1
               /\ sendNextWindow
         /\ NoFurther(round, m_senderLastPacketAcked', a.at.files + 1, a.at.last)
<1> DEFINE N == NumPackets(file)
           SA == m_senderLastPacketAcked
           Window_OK == /\ m_lastPacketSent' \in Nat
                        /\ m_senderLastPacketAcked' < m_lastPacketSent'
                        /\ m_lastPacketSent' <= N
                        /\ m_lastPacketSent' - m_senderLastPacketAcked' <= m_cwnd'
           Data_OK == /\ toReceiver' \in Seq(Packet)
                      /\ PacketsOfFiles(toReceiver')
<1>1. /\ file \in Files /\ NumPackets(file') = N
      /\ SA \in Nat /\ SA <= N /\ round \in Nat
      /\ m_cwnd \in Nat \ {0} /\ m_ssthresh \in Nat \ {0}
      /\ m_lastPacketSent \in Nat /\ m_isTimeoutAllowed \in BOOLEAN
      /\ waitsForEver \in BOOLEAN
      /\ toReceiver \in Seq(Packet) /\ DataInv
      /\ phase \in {"sending", "done"}
  BY DEF IInv, TypeOK, SenderInv
<1>2. N \in Nat /\ N >= 2 /\ \A i \in 0 .. N + 1 : PacketId(i) = i
  BY <1>1, FileFacts
<1>2a. /\ a.id \in Nat \ {0} /\ a.at.last # a.id - 1
       /\ a.id <= N \/ SA = 0
  BY <1>1, PacketIdAssumption DEF AckFits, NoFurther, Ack
<1>3. maxPacketId \in Nat \ {0}
  BY PacketIdAssumption
<1>4. phase = "done" => SA = N
  BY DEF IInv, SenderInv
<1>5. phase = "sending" =>
        /\ m_isTimeoutAllowed /\ SA < m_lastPacketSent /\ m_lastPacketSent <= N
        /\ m_lastPacketSent - SA <= m_cwnd
  BY DEF IInv, SenderInv, WindowOK
<1>6. PacketId(SA + 1) = SA + 1
  BY <1>1, <1>2
<1>7. Data_OK \/ toReceiver' # toReceiver
  BY <1>1 DEF DataInv, PacketsOfFiles
<1> HIDE DEF N, SA, Data_OK
<1>8. ASSUME m_cwnd' \in Nat \ {0}, m_senderLastPacketAcked' \in Nat,
             m_senderLastPacketAcked' < N, sendNextWindow
      PROVE  Window_OK /\ Data_OK
  BY <1>1, <1>8, SendNextWindowProps DEF N, Data_OK
<1>8a. startTimeout =>
         /\ m_isTimeoutAllowed' = TRUE /\ m_isTimeoutAllowed' \in BOOLEAN
         /\ waitsForEver' \in BOOLEAN
  BY startTimeoutProps
<1>9. ASSUME phase' = "sending", m_isTimeoutAllowed' = TRUE, Window_OK,
             m_senderLastPacketAcked' \in Nat
      PROVE  SenderInv'
  BY <1>1, <1>2, <1>9 DEF SenderInv, WindowOK
<1>10. CASE ackOfNextPacket(a.id)
  <2>1. /\ a.id = SA + 1 /\ m_senderLastPacketAcked' = SA + 1
        /\ SA < N /\ phase = "sending" /\ PacketId(m_lastPacketSent) = m_lastPacketSent
    BY <1>1, <1>2, <1>2a, <1>4, <1>5, <1>6, <1>10 DEF ackOfNextPacket, N, SA
  <2>2. NoFurther(round, m_senderLastPacketAcked', a.at.files + 1, a.at.last)
    BY <1>1, <1>2a, <2>1 DEF NoFurther, SA
  <2>3. CASE a.id = PacketId(m_lastPacketSent) /\ m_senderLastPacketAcked' = N
    <3>1. /\ phase' \in {"sleeping", "done"} /\ m_isTimeoutAllowed' = FALSE
          /\ m_cwnd' = m_cwnd /\ m_ssthresh' = m_ssthresh
          /\ m_lastPacketSent' = m_lastPacketSent /\ toReceiver' = toReceiver
      BY <1>10, <2>3 DEF ackOfNextPacket, onDataSentCompletely, N
    <3>2. SenderInv'
      BY <1>1, <1>2, <2>3, <3>1 DEF SenderInv, WindowOK
    <3>3. m_isTimeoutAllowed' \in BOOLEAN /\ waitsForEver' \in BOOLEAN
      BY <1>1, <1>10, <2>3, <3>1, Zenon DEF ackOfNextPacket, onDataSentCompletely, N
    <3>4. m_senderLastPacketAcked' \in Nat
      BY <1>1, <2>1
    <3> QED BY <1>1, <1>7, <2>1, <2>2, <3>1, <3>2, <3>3, <3>4 DEF Data_OK, N
  <2>4. CASE a.id = PacketId(m_lastPacketSent) /\ m_senderLastPacketAcked' # N
    <3>1. growWindow
      BY <1>10, <2>4 DEF ackOfNextPacket, N
    <3>2. /\ phase' = "sending" /\ m_isTimeoutAllowed' = TRUE
          /\ m_isTimeoutAllowed' \in BOOLEAN /\ waitsForEver' \in BOOLEAN
          /\ m_ssthresh' = m_ssthresh /\ sendNextWindow
      BY <1>8a, <2>1, <3>1 DEF growWindow
    <3>3. m_cwnd' \in Nat \ {0}
      BY <1>1, <1>3, <3>1 DEF growWindow, Least
    <3>4. m_senderLastPacketAcked' \in Nat /\ m_senderLastPacketAcked' < N
      BY <1>1, <1>2, <2>1, <2>4 DEF SA
    <3>5. Window_OK /\ Data_OK
      BY <1>8, <3>2, <3>3, <3>4
    <3> QED BY <1>1, <1>9, <2>1, <2>2, <3>2, <3>3, <3>4, <3>5 DEF Data_OK, N
  <2>5. CASE a.id # PacketId(m_lastPacketSent)
    <3>1. /\ phase' = "sending" /\ m_isTimeoutAllowed' = m_isTimeoutAllowed
          /\ m_cwnd' = m_cwnd /\ m_ssthresh' = m_ssthresh
          /\ m_lastPacketSent' = m_lastPacketSent /\ toReceiver' = toReceiver
      BY <1>10, <2>1, <2>5 DEF ackOfNextPacket
    <3>2. /\ m_isTimeoutAllowed' = TRUE
          /\ m_isTimeoutAllowed' \in BOOLEAN /\ waitsForEver' \in BOOLEAN
      BY <1>1, <1>5, <1>10, <2>1, <2>5, <3>1, Zenon DEF ackOfNextPacket
    <3>3. Window_OK /\ m_senderLastPacketAcked' \in Nat
      BY <1>1, <1>2, <1>5, <2>1, <2>5, <3>1 DEF SA
    <3> QED BY <1>1, <1>7, <1>9, <2>1, <2>2, <3>1, <3>2, <3>3 DEF Data_OK, N
  <2> QED BY <2>3, <2>4, <2>5
<1>11. CASE ackOfLaterPacket(a.id)
  <2>1. SA < N /\ phase = "sending"
    BY <1>1, <1>2, <1>2a, <1>4, <1>6, <1>11 DEF ackOfLaterPacket, N, SA
  <2>2. /\ phase' = "sending" /\ m_isTimeoutAllowed' = TRUE /\ sendNextWindow
        /\ m_isTimeoutAllowed' \in BOOLEAN /\ waitsForEver' \in BOOLEAN
        /\ m_senderLastPacketAcked' = SA
    BY <1>8a, <2>1, <1>11 DEF ackOfLaterPacket, SA
  <2>3. m_cwnd' = 1 /\ m_ssthresh' \in Nat \ {0}
    BY <1>1, <1>11, SMT DEF ackOfLaterPacket, startSlowAgain, Greatest
  <2>4. Window_OK /\ Data_OK
    BY <1>1, <1>8, <2>1, <2>2, <2>3
  <2> QED BY <1>1, <1>9, <2>1, <2>2, <2>3, <2>4 DEF Data_OK, N, SA
<1>12. CASE ackOfEarlierPacket(a.id)
  <2>1. /\ phase' = phase /\ m_isTimeoutAllowed' = m_isTimeoutAllowed
        /\ m_cwnd' = m_cwnd /\ m_ssthresh' = m_ssthresh
        /\ m_lastPacketSent' = m_lastPacketSent /\ toReceiver' = toReceiver
        /\ m_senderLastPacketAcked' = m_senderLastPacketAcked
        /\ waitsForEver' = waitsForEver
    BY <1>12 DEF ackOfEarlierPacket
  <2>2. SenderInv'
    BY <1>1, <2>1 DEF IInv, SenderInv, WindowOK
  <2> QED BY <1>1, <1>7, <2>1, <2>2 DEF Data_OK, N, SA
<1> QED BY <1>10, <1>11, <1>12

LEMMA AckIInv == IInv /\ handleAck => IInv'
<1> SUFFICES ASSUME IInv, handleAck PROVE IInv'
  OBVIOUS
<1> DEFINE a == toSender[1]
           tail == Tail(toSender)
<1>1. /\ toSender \in Seq(Ack) /\ toSender # <<>> /\ toSender' = tail
      /\ file \in Files /\ file' = file /\ NumPackets(file') = NumPackets(file)
      /\ FileSize[file'] = FileSize[file] /\ Content(file') = Content(file)
      /\ repeat' = repeat /\ round' = round /\ UNCHANGED receiverVars
      /\ phase # "sleeping"
  BY DEF IInv, TypeOK, handleAck
<1>1a. negativeRTT' \in BOOLEAN
  BY measureRTTProps DEF IInv, TypeOK, handleAck
<1>2. /\ tail \in Seq(Ack) /\ Len(toSender) \in Nat \ {0}
      /\ Len(tail) = Len(toSender) - 1
      /\ \A j \in 1 .. Len(tail) : tail[j] = toSender[j + 1]
      /\ Head(toSender) = a /\ a \in Ack
  BY <1>1, TailProps
<1>3. /\ AckFits(a)
      /\ NoFurther(round, m_senderLastPacketAcked, a.at.files + 1, a.at.last)
      /\ NoFurther(a.at.files, a.at.last, filesWritten, m_receiverLastPacketAcked)
      /\ \A j \in 1 .. Len(toSender) :
           NoFurther(a.at.files, a.at.last,
                     toSender[j].at.files, toSender[j].at.last)
  <2>1. 1 \in 1 .. Len(toSender)
    BY <1>2
  <2> QED BY <2>1 DEF IInv, AckInv
<1>4. a.at.files \in Nat /\ a.at.last \in Nat
  BY <1>1, <1>2, AckTypes
<1>5. round # 0 /\ round \in Nat /\ filesWritten \in Nat
      /\ m_receiverLastPacketAcked \in Nat
  BY <1>1 DEF IInv, DataInv, TypeOK
<1>6. /\ phase' \in {"idle", "sending", "sleeping", "done"}
      /\ m_cwnd' \in Nat \ {0} /\ m_ssthresh' \in Nat \ {0}
      /\ m_senderLastPacketAcked' \in Nat /\ m_lastPacketSent' \in Nat
      /\ m_isTimeoutAllowed' \in BOOLEAN
      /\ waitsForEver' \in BOOLEAN
      /\ toReceiver' \in Seq(Packet)
      /\ SenderInv'
      /\ PacketsOfFiles(toReceiver')
      /\ m_senderLastPacketAcked' = 0 => m_senderLastPacketAcked = 0
      /\ \/ toReceiver' = toReceiver
         \/ /\ m_senderLastPacketAcked' < NumPackets(file)
            /\ m_senderLastPacketAcked' = 0 => m_cwnd' = 1
            /\ sendNextWindow
      /\ NoFurther(round, m_senderLastPacketAcked', a.at.files + 1, a.at.last)
  <2>1. \/ ackOfNextPacket(a.id)
        \/ ackOfLaterPacket(a.id)
        \/ ackOfEarlierPacket(a.id)
    BY <1>2 DEF handleAck
  <2> HIDE DEF a
  <2> QED BY <1>1, <1>1a, <1>2, <1>3, <1>4, <1>5, <2>1, HandleAckSender
<1> HIDE DEF a, tail
<1>7. TypeOK'
  BY <1>1, <1>1a, <1>2, <1>6 DEF IInv, TypeOK, receiverVars
<1>8. ReceiverInv'
  BY <1>1 DEF IInv, ReceiverInv, PrefixBytes, receiverVars
<1>9. DataInv'
  BY <1>1, <1>5, <1>6 DEF DataInv
<1>10. AckedIsAccepted'
  <2>1. NoFurther(a.at.files + 1, a.at.last,
                  filesWritten + 1, m_receiverLastPacketAcked)
    BY <1>3, <1>4, <1>5 DEF NoFurther
  <2>2. NoFurther(round, m_senderLastPacketAcked',
                  filesWritten + 1, m_receiverLastPacketAcked)
    <3> DEFINE sa == m_senderLastPacketAcked'
               af == a.at.files + 1
               al == a.at.last
               fw == filesWritten + 1
    <3>1. /\ af \in Nat /\ al \in Nat /\ fw \in Nat /\ sa \in Nat
          /\ NoFurther(round, sa, af, al)
          /\ NoFurther(af, al, fw, m_receiverLastPacketAcked)
      BY <1>4, <1>5, <1>6, <2>1
    <3> HIDE DEF sa, af, al, fw
    <3>2. NoFurther(round, sa, fw, m_receiverLastPacketAcked)
      BY <1>5, <3>1, NoFurtherTransitive
    <3> QED BY <3>2 DEF sa, fw
  <2> QED BY <1>1, <2>2 DEF AckedIsAccepted, receiverVars
<1>11. AckInv'
  <2>1. ASSUME NEW i \in 1 .. Len(tail)
        PROVE  /\ AckFits(tail[i])
               /\ NoFurther(tail[i].at.files, tail[i].at.last,
                            filesWritten, m_receiverLastPacketAcked)
               /\ NoFurther(round, m_senderLastPacketAcked',
                            tail[i].at.files + 1, tail[i].at.last)
               /\ \A j \in i .. Len(tail) :
                    NoFurther(tail[i].at.files, tail[i].at.last,
                              tail[j].at.files, tail[j].at.last)
    <3>1. i + 1 \in 1 .. Len(toSender) /\ tail[i] = toSender[i + 1]
      BY <1>2
    <3>2. tail[i].at.files \in Nat /\ tail[i].at.last \in Nat
      BY <1>1, <3>1, AckTypes
    <3>3. NoFurther(a.at.files + 1, a.at.last,
                    tail[i].at.files + 1, tail[i].at.last)
      <4>1. NoFurther(a.at.files, a.at.last, tail[i].at.files, tail[i].at.last)
        BY <1>3, <3>1
      <4> QED BY <4>1, <1>4, <3>2 DEF NoFurther
    <3>4. NoFurther(round, m_senderLastPacketAcked',
                    tail[i].at.files + 1, tail[i].at.last)
      <4> DEFINE sa == m_senderLastPacketAcked'
                 af == a.at.files + 1
                 al == a.at.last
                 tf == tail[i].at.files + 1
                 tl == tail[i].at.last
      <4>1. af \in Nat /\ al \in Nat /\ tf \in Nat /\ tl \in Nat
        BY <1>4, <3>2
      <4>2. sa \in Nat /\ NoFurther(round, sa, af, al) /\ NoFurther(af, al, tf, tl)
        BY <1>6, <3>3
      <4> HIDE DEF sa, af, al, tf, tl
      <4>3. NoFurther(round, sa, tf, tl)
        BY <1>5, <4>1, <4>2, NoFurtherTransitive
      <4> QED BY <4>3 DEF sa, tf, tl
    <3>5. ASSUME NEW j \in i .. Len(tail)
          PROVE  NoFurther(tail[i].at.files, tail[i].at.last,
                           tail[j].at.files, tail[j].at.last)
      <4>1. /\ j \in 1 .. Len(tail) /\ tail[j] = toSender[j + 1]
            /\ j + 1 \in (i + 1) .. Len(toSender)
        BY <1>2
      <4> QED BY <3>1, <4>1 DEF IInv, AckInv
    <3> QED BY <3>1, <3>4, <3>5 DEF IInv, AckInv
  <2> QED BY <1>1, <2>1 DEF AckInv, AckFits, receiverVars
<1>12. ~Reorder => OrderInv'
  BY <1>1, <1>5, <1>6, SenderOrder
<1> QED BY <1>6, <1>7, <1>8, <1>9, <1>10, <1>11, <1>12 DEF IInv

-----------------------------------------------------------------------------
(***************************************************************************)
(* The receiving half.                                                     *)
(***************************************************************************)

\* A buffer that holds the packets 1 .. N of the file, in this order, is
\* the file's content once the header is taken off.
LEMMA WholeBuffer ==
  ASSUME NEW f \in Files, NEW s \in Seq(Packet), Len(s) = NumPackets(f),
         \A i \in 1 .. Len(s) : s[i] = [file |-> f, idx |-> i]
  PROVE  Tail(s) = Content(f) /\ Tail(s) \in Seq(Packet)
<1> DEFINE N == NumPackets(f)
<1>1. N \in Nat /\ N >= 2
  BY FileFacts
<1>2. s # <<>>
  BY <1>1, EmptySeq
<1>3. /\ Tail(s) \in Seq(Packet) /\ Len(Tail(s)) = N - 1
      /\ \A j \in 1 .. N - 1 : Tail(s)[j] = s[j + 1]
  BY <1>2, TailProps
<1>4. Content(f) = [j \in 1 .. N - 1 |-> [file |-> f, idx |-> j + 1]]
  BY DEF Content
<1> HIDE DEF N
<1>5. Content(f) \in [1 .. N - 1 -> Packet]
  <2>1. \A j \in 1 .. N - 1 : [file |-> f, idx |-> j + 1] \in Packet
    BY <1>1 DEF Packet
  <2> QED BY <1>4, <2>1
<1>6. Content(f) \in Seq(Packet) /\ Len(Content(f)) = N - 1
  BY <1>1, <1>5, FunctionIsSeq
<1>7. ASSUME NEW j \in 1 .. N - 1
      PROVE  Tail(s)[j] = Content(f)[j]
  <2>1. j + 1 \in 1 .. Len(s)
    BY <1>1 DEF N
  <2>2. s[j + 1] = [file |-> f, idx |-> j + 1]
    BY <2>1
  <2> QED BY <1>3, <1>4, <2>2
<1>8. Tail(s) = Content(f)
  BY <1>3, <1>6, <1>7, SeqEqual
<1> QED BY <1>3, <1>8

\* What handleData may do to the receiver's progress: nothing, if it is not
\* waiting for the packet, or one packet more, or the whole file.
ReceiverStep(p) ==
  \/ /\ p.idx # m_receiverLastPacketAcked + 1
     /\ UNCHANGED <<m_receiverLastPacketAcked, filesWritten, disk>>
  \/ /\ p.idx = m_receiverLastPacketAcked + 1
     /\ m_receiverLastPacketAcked + 1 < NumPackets(file)
     /\ m_receiverLastPacketAcked' = m_receiverLastPacketAcked + 1
     /\ UNCHANGED <<filesWritten, disk>>
  \/ /\ p.idx = m_receiverLastPacketAcked + 1
     /\ m_receiverLastPacketAcked + 1 = NumPackets(file)
     /\ m_receiverLastPacketAcked' = 0
     /\ filesWritten' = filesWritten + 1
     /\ disk' = Content(file)

\* A packet that the receiver may be handed: one of the file being sent, or
\* one left over from the file before while it is waiting for a header.
Deliverable(p) ==
  /\ p.idx <= NumPackets(p.file)
  /\ \/ p.file = file
     \/ /\ p.idx # 1
        /\ m_receiverLastPacketAcked = 0
        /\ filesWritten + 1 = round

LEMMA DeliveredFits ==
  ASSUME IInv, NEW i \in DOMAIN toReceiver, Reorder \/ i = 1
  PROVE  /\ i \in 1 .. Len(toReceiver)
         /\ toReceiver[i] \in Packet
         /\ Deliverable(toReceiver[i])
<1>1. /\ toReceiver \in Seq(Packet) /\ i \in 1 .. Len(toReceiver) /\ file \in Files
      /\ Len(toReceiver) \in Nat
  BY LenProperties DEF IInv, TypeOK
<1>2. toReceiver[i] \in Packet /\ toReceiver[i].file \in Files
  <2>1. toReceiver[i] \in Packet
    BY <1>1, ElementOfSeq
  <2> QED BY <2>1 DEF Packet
<1>3. toReceiver[i].idx <= NumPackets(toReceiver[i].file)
  BY <1>1 DEF IInv, DataInv, PacketsOfFiles
<1>4. CASE Reorder
  BY <1>1, <1>2, <1>3, <1>4, SameFile DEF Deliverable
<1>5. CASE ~Reorder
  <2>1h. PICK h \in 0 .. Len(toReceiver) : \E m \in 0 .. h : Layers(m, h)
    BY <1>5 DEF IInv, OrderInv
  <2>1. PICK m \in 0 .. h : Layers(m, h)
    BY <2>1h
  <2>2. CASE m > 0
    <3>1. i <= m
      BY <1>1, <1>5, <2>1, <2>2
    <3> QED BY <1>1, <1>2, <1>3, <2>1, <2>2, <3>1 DEF Layers, Deliverable
  <2>3. CASE ~(m > 0)
    <3>1. m < i
      BY <1>1, <2>1, <2>3
    <3> QED BY <1>1, <1>2, <1>3, <2>1, <3>1 DEF Layers, Deliverable
  <2> QED BY <2>2, <2>3
<1> QED BY <1>1, <1>2, <1>4, <1>5

\* The four cases of handleData: the receiver takes exactly the packet it
\* is waiting for, and is not waiting for it any more when it acks it.
LEMMA HandleDataReceiver ==
  ASSUME IInv, NEW p \in Packet, Deliverable(p), file' = file, round' = round,
         acceptHeader(p) \/ acceptData(p) \/ acceptLastData(p) \/ discard(p)
  PROVE  /\ m_inBuffer' \in Seq(Packet)
         /\ m_currentMessageSize' \in Nat
         /\ m_bytesReceivedSoFar' \in Nat
         /\ m_receiverLastPacketAcked' \in Nat
         /\ disk' \in Seq(Packet)
         /\ filesWritten' \in Nat
         /\ ReceiverInv'
         /\ m_receiverLastPacketAcked' # p.idx - 1
         /\ NoFurther(filesWritten, m_receiverLastPacketAcked,
                      filesWritten', m_receiverLastPacketAcked')
         /\ ReceiverStep(p)
<1> DEFINE N == NumPackets(file)
           k == m_receiverLastPacketAcked
           F == FileSize[file]
<1>1. /\ file \in Files /\ NumPackets(file') = N
      /\ FileSize[file'] = F /\ Content(file') = Content(file)
      /\ k \in Nat /\ m_inBuffer \in Seq(Packet) /\ m_currentMessageSize \in Nat
      /\ m_bytesReceivedSoFar \in Nat /\ disk \in Seq(Packet) /\ filesWritten \in Nat
      /\ round \in Nat /\ p.file \in Files /\ p.idx \in Nat \ {0}
      /\ p = [file |-> p.file, idx |-> p.idx]
  BY DEF IInv, TypeOK, Packet
<1>2. /\ N \in Nat /\ N >= 2
      /\ \A i \in 0 .. N + 1 : PacketId(i) = i
      /\ F \in Nat /\ Packet_Size \in Nat \ {0}
  BY <1>1, FileFacts, FilesAssumption, PacketSizeAssumption
<1>3. /\ k < N /\ Len(m_inBuffer) = k
      /\ \A i \in 1 .. k : m_inBuffer[i] = [file |-> file, idx |-> i]
      /\ m_bytesReceivedSoFar = PrefixBytes(k)
      /\ k > 0 => m_currentMessageSize = F
      /\ filesWritten = 0 => disk = <<>>
      /\ filesWritten # 0 => \E f \in Files : disk = Content(f)
      /\ filesWritten # 0 /\ round <= filesWritten => disk = Content(file)
  BY DEF IInv, ReceiverInv
<1>4. p.idx = k + 1 => p.file = file /\ p = [file |-> file, idx |-> p.idx]
  BY <1>1 DEF Deliverable
<1>5. m_inBuffer = <<>> <=> k = 0
  BY <1>1, <1>3, EmptySeq
<1>6. PacketId(p.idx) = p.idx /\ PacketId(k + 1) = k + 1 /\ PacketId(1) = 1
  <2>1. /\ p.idx \in 0 .. NumPackets(p.file) + 1
        /\ \A i \in 0 .. NumPackets(p.file) + 1 : PacketId(i) = i
    BY <1>1, FileFacts DEF Deliverable
  <2>2. PacketId(p.idx) = p.idx
    BY <2>1
  <2>3. k + 1 \in 0 .. N + 1 /\ 1 \in 0 .. N + 1
    BY <1>1, <1>2, <1>3
  <2> QED BY <1>2, <2>2, <2>3
<1>7. BodySize(p) = HeaderBytes <=> p.idx = 1
  BY <1>1, NoHeaderLookalike DEF BodySize
<1>8. looksLikeHeader(p) <=> k = 0 /\ p.idx = 1
  BY <1>3, <1>5, <1>7 DEF looksLikeHeader, PrefixBytes
<1>9. isNext(p) <=> p.idx = k + 1
  BY <1>6 DEF isNext
<1>10. ASSUME k > 0, p.idx = k + 1
       PROVE  /\ k + 1 < N => /\ m_bytesReceivedSoFar + BodySize(p) = k * Packet_Size
                              /\ k * Packet_Size \in Nat
                              /\ k * Packet_Size # F
              /\ k + 1 = N => m_bytesReceivedSoFar + BodySize(p) = F
  <2>1. m_bytesReceivedSoFar = (k - 1) * Packet_Size
    BY <1>1, <1>3, <1>10 DEF PrefixBytes
  <2>2. CASE k + 1 < N
    <3>1. k \in 1 .. N - 2
      BY <1>1, <1>2, <1>10, <2>2
    <3>2. /\ k * Packet_Size < F
          /\ (k - 1) * Packet_Size + Packet_Size = k * Packet_Size
      BY <1>1, <3>1, FileFacts
    <3>3. BodySize(p) = Packet_Size
      BY <1>1, <1>2, <1>4, <1>10, <2>2 DEF BodySize
    <3>4. k * Packet_Size \in Nat
      BY <1>1, <1>2, SMT
    <3>5. k + 1 # N
      BY <1>1, <1>2, <2>2
    <3> QED BY <1>2, <2>1, <3>2, <3>3, <3>4, <3>5
  <2>3. CASE k + 1 = N
    <3>1. (N - 2) * Packet_Size + BodySize(p) = F
      BY <1>1, <1>4, <1>10, <2>3, FileFacts
    <3>2. k - 1 = N - 2
      BY <1>1, <1>2, <2>3
    <3> QED BY <1>1, <1>2, <2>1, <2>3, <3>1, <3>2
  <2> QED BY <1>1, <1>2, <2>2, <2>3
<1>11. /\ Append(m_inBuffer, p) \in Seq(Packet)
       /\ Len(Append(m_inBuffer, p)) = k + 1
       /\ p.idx = k + 1 => \A i \in 1 .. k + 1 :
                             Append(m_inBuffer, p)[i] = [file |-> file, idx |-> i]
  <2>1. /\ Append(m_inBuffer, p) \in Seq(Packet)
        /\ Len(Append(m_inBuffer, p)) = k + 1
        /\ \A i \in 1 .. k : Append(m_inBuffer, p)[i] = m_inBuffer[i]
        /\ Append(m_inBuffer, p)[k + 1] = p
    BY <1>1, <1>3, AppendProperties
  <2> QED BY <1>1, <1>3, <1>4, <2>1
<1> HIDE DEF N, k, F
<1>12. CASE acceptHeader(p)
  <2>1. k = 0 /\ p.idx = 1
    BY <1>8, <1>12 DEF acceptHeader
  <2>2. /\ m_currentMessageSize' = F /\ m_inBuffer' = <<p>>
        /\ m_receiverLastPacketAcked' = 1
        /\ m_bytesReceivedSoFar' = m_bytesReceivedSoFar
        /\ disk' = disk /\ filesWritten' = filesWritten
    BY <1>4, <1>9, <1>12, <2>1 DEF acceptHeader, BodyAsSize, F, k
  <2>3. /\ <<p>> \in Seq(Packet) /\ Len(<<p>>) = 1
        /\ \A i \in 1 .. 1 : <<p>>[i] = [file |-> file, idx |-> i]
    BY <1>1, <1>4, <2>1
  <2>4. m_bytesReceivedSoFar' = PrefixBytes(1)
    BY <1>2, <1>3, <2>1, <2>2 DEF PrefixBytes
  <2>5. ReceiverInv'
    BY <1>1, <1>2, <1>3, <2>2, <2>3, <2>4 DEF ReceiverInv
  <2> QED BY <1>1, <1>2, <2>1, <2>2, <2>3, <2>5 DEF NoFurther, ReceiverStep, k, N
<1>13. CASE acceptData(p)
  <2>1. p.idx = k + 1 /\ k > 0
    BY <1>1, <1>8, <1>9, <1>13 DEF acceptData
  <2>2. k + 1 < N
    BY <1>1, <1>2, <1>3, <1>10, <1>13, <2>1 DEF acceptData
  <2>3. /\ m_bytesReceivedSoFar' = k * Packet_Size
        /\ m_bytesReceivedSoFar' \in Nat
        /\ m_inBuffer' = Append(m_inBuffer, p)
        /\ m_receiverLastPacketAcked' = k + 1
        /\ m_currentMessageSize' = m_currentMessageSize
        /\ disk' = disk /\ filesWritten' = filesWritten
    BY <1>10, <1>13, <2>1, <2>2 DEF acceptData, k
  <2>4. m_bytesReceivedSoFar' = PrefixBytes(k + 1)
    BY <1>1, <2>3 DEF PrefixBytes
  <2>5. ReceiverInv'
    BY <1>1, <1>2, <1>3, <1>11, <2>1, <2>2, <2>3, <2>4 DEF ReceiverInv
  <2> QED BY <1>1, <1>2, <1>11, <2>1, <2>2, <2>3, <2>5 DEF NoFurther, ReceiverStep, k, N
<1>14. CASE acceptLastData(p)
  <2>1. p.idx = k + 1 /\ k > 0
    BY <1>1, <1>8, <1>9, <1>14 DEF acceptLastData
  <2>2. k + 1 = N
    BY <1>1, <1>2, <1>3, <1>10, <1>14, <2>1 DEF acceptLastData
  <2>3. /\ disk' = Tail(Append(m_inBuffer, p)) /\ filesWritten' = filesWritten + 1
        /\ m_inBuffer' = <<>> /\ m_bytesReceivedSoFar' = 0
        /\ m_currentMessageSize' = 0 /\ m_receiverLastPacketAcked' = 0
    BY <1>1, <1>6, <1>14, <2>1 DEF acceptLastData
  <2>4. disk' = Content(file) /\ disk' \in Seq(Packet)
    BY <1>1, <1>11, <2>1, <2>2, <2>3, WholeBuffer DEF N
  <2>5. <<>> \in Seq(Packet) /\ Len(<<>>) = 0
    BY EmptySeq
  <2>6. ReceiverInv'
    <3>1. disk' = Content(file') /\ \E f \in Files : disk' = Content(f)
      BY <1>1, <2>4, Zenon
    <3>2. /\ filesWritten' # 0
          /\ m_receiverLastPacketAcked' < NumPackets(file')
          /\ Len(m_inBuffer') = 0
          /\ m_bytesReceivedSoFar' = PrefixBytes(0)
      BY <1>1, <1>2, <2>3, <2>5 DEF PrefixBytes
    <3>3. \A i \in 1 .. Len(m_inBuffer') : m_inBuffer'[i] = [file |-> file', idx |-> i]
      BY <3>2
    <3>4. /\ Len(m_inBuffer') = m_receiverLastPacketAcked'
          /\ m_bytesReceivedSoFar' = PrefixBytes(m_receiverLastPacketAcked')
          /\ ~(m_receiverLastPacketAcked' > 0)
      BY <2>3, <3>2
    <3> QED BY <3>1, <3>2, <3>3, <3>4, Zenon DEF ReceiverInv
  <2>7. NoFurther(filesWritten, k, filesWritten', m_receiverLastPacketAcked')
    BY <1>1, <2>3 DEF NoFurther
  <2>8. ReceiverStep(p)
    BY <2>1, <2>2, <2>3, <2>4 DEF ReceiverStep, k, N
  <2> QED BY <1>1, <2>1, <2>2, <2>3, <2>4, <2>5, <2>6, <2>7, <2>8 DEF k
<1>15. CASE discard(p)
  <2>1. p.idx # k + 1
    BY <1>9, <1>15 DEF discard
  <2>2. ReceiverInv'
    BY <1>1, <1>15 DEF discard, IInv, ReceiverInv, PrefixBytes, receiverVars, N, F
  <2>3. ReceiverStep(p)
    BY <1>15, <2>1 DEF discard, receiverVars, ReceiverStep, k
  <2> QED BY <1>1, <1>15, <2>1, <2>2, <2>3
          DEF discard, receiverVars, NoFurther, k
<1> QED BY <1>12, <1>13, <1>14, <1>15

\* An ack sent from the receiver's position comes behind the acks that are
\* already on the way, and the sender is not past that position.
LEMMA SendAckProps ==
  ASSUME IInv, NEW b \in Ack, NEW s \in Seq(Ack), s = Offer(toSender, <<b>>),
         AckFits(b),
         NoFurther(filesWritten, m_receiverLastPacketAcked, b.at.files, b.at.last)
  PROVE  \A i \in 1 .. Len(s) :
           /\ AckFits(s[i])
           /\ NoFurther(round, m_senderLastPacketAcked,
                        s[i].at.files + 1, s[i].at.last)
           /\ NoFurther(s[i].at.files, s[i].at.last, b.at.files, b.at.last)
           /\ \A j \in i .. Len(s) :
                NoFurther(s[i].at.files, s[i].at.last, s[j].at.files, s[j].at.last)
<1> DEFINE n == Len(toSender)
           fw == filesWritten
           rl == m_receiverLastPacketAcked
           bf == b.at.files
           bl == b.at.last
<1>1. toSender \in Seq(Ack) /\ n \in Nat /\ <<b>> \in Seq(Ack) /\ Len(<<b>>) = 1
  BY LenProperties DEF IInv, TypeOK
<1>2. Len(s) \in Nat /\ Len(s) <= n + 1
  BY <1>1, OfferProps, LenProperties
<1>3. \A j \in 1 .. Len(s) : s[j] = IF j <= n THEN toSender[j] ELSE b
  <2>1. \A j \in 1 .. Len(s) : s[j] = IF j <= n THEN toSender[j] ELSE <<b>>[j - n]
    BY <1>1, OfferProps
  <2>2. \A j \in 1 .. Len(s) : ~(j <= n) => j - n = 1
    BY <1>1, <1>2
  <2> QED BY <2>1, <2>2
<1>4. bf \in Nat /\ bl \in Nat /\ fw \in Nat /\ rl \in Nat
      /\ round \in Nat /\ m_senderLastPacketAcked \in Nat
  BY DEF Ack, IInv, TypeOK
<1>5. NoFurther(fw, rl, bf, bl) /\ NoFurther(round, m_senderLastPacketAcked, fw + 1, rl)
  BY DEF IInv, AckedIsAccepted
<1>6. NoFurther(round, m_senderLastPacketAcked, bf + 1, bl) /\ NoFurther(bf, bl, bf, bl)
  <2> HIDE DEF fw, rl, bf, bl
  <2> QED BY <1>4, <1>5 DEF NoFurther
<1>7. ASSUME NEW i \in 1 .. n
      PROVE  NoFurther(toSender[i].at.files, toSender[i].at.last, bf, bl)
  <2> DEFINE tf == toSender[i].at.files
             tl == toSender[i].at.last
  <2>1. tf \in Nat /\ tl \in Nat
    BY <1>1, AckTypes
  <2>2. NoFurther(tf, tl, fw, rl)
    BY DEF IInv, AckInv
  <2> HIDE DEF tf, tl, fw, rl, bf, bl
  <2>3. NoFurther(tf, tl, bf, bl)
    BY <1>4, <1>5, <2>1, <2>2, NoFurtherTransitive
  <2> QED BY <2>3 DEF tf, tl
<1>8. ASSUME NEW i \in 1 .. Len(s)
      PROVE  /\ AckFits(s[i])
             /\ NoFurther(round, m_senderLastPacketAcked,
                          s[i].at.files + 1, s[i].at.last)
             /\ NoFurther(s[i].at.files, s[i].at.last, bf, bl)
  <2>1. CASE i <= n
    <3>1. i \in 1 .. n /\ s[i] = toSender[i]
      BY <1>1, <1>2, <1>3, <2>1
    <3> QED BY <1>7, <3>1 DEF IInv, AckInv
  <2>2. CASE ~(i <= n)
    <3>1. s[i] = b
      BY <1>3, <2>2
    <3> QED BY <1>6, <3>1
  <2> QED BY <2>1, <2>2
<1>9. ASSUME NEW i \in 1 .. Len(s), NEW j \in i .. Len(s)
      PROVE  NoFurther(s[i].at.files, s[i].at.last, s[j].at.files, s[j].at.last)
  <2>0. j \in 1 .. Len(s)
    BY <1>2
  <2>1. CASE j <= n
    <3>1. /\ i \in 1 .. n /\ s[i] = toSender[i]
          /\ j \in i .. n /\ s[j] = toSender[j]
      BY <1>1, <1>2, <1>3, <2>0, <2>1
    <3> QED BY <3>1 DEF IInv, AckInv
  <2>2. CASE ~(j <= n)
    <3>1. s[j] = b
      BY <1>3, <2>0, <2>2
    <3> QED BY <1>8, <3>1
  <2> QED BY <2>1, <2>2
<1> QED BY <1>8, <1>9

\* On a path that keeps the order, the receiver takes its packets from the
\* oldest layer: what is left over it discards, it takes one header and
\* discards the others, and by then the data packets are of its file.
LEMMA DataOrder ==
  ASSUME IInv, ~Reorder, 1 \in 1 .. Len(toReceiver),
         ReceiverStep(toReceiver[1]), toReceiver' = RemoveAt(toReceiver, 1),
         UNCHANGED senderVars
  PROVE  OrderInv'
<1> DEFINE p == toReceiver[1]
           N == NumPackets(file)
<1>1. /\ toReceiver \in Seq(Packet) /\ Len(toReceiver) \in Nat /\ file \in Files
      /\ round \in Nat /\ filesWritten \in Nat /\ m_receiverLastPacketAcked \in Nat
      /\ m_senderLastPacketAcked \in Nat
      /\ file' = file /\ round' = round
      /\ m_senderLastPacketAcked' = m_senderLastPacketAcked
      /\ round # 0
  BY EmptySeq, LenProperties DEF IInv, TypeOK, DataInv, senderVars
<1>2. N \in Nat /\ N >= 2
  BY <1>1, FileFacts
<1>3. /\ filesWritten <= round
      /\ filesWritten = round => m_receiverLastPacketAcked = 0
      /\ m_senderLastPacketAcked = 0 =>
           m_receiverLastPacketAcked <= 1 /\ filesWritten # round
  BY <1>1 DEF IInv, OrderInv
<1>4h. PICK h \in 0 .. Len(toReceiver) : \E m \in 0 .. h : Layers(m, h)
  BY DEF IInv, OrderInv
<1>4. PICK m \in 0 .. h : Layers(m, h)
  BY <1>4h
<1>5. /\ m > 0 => /\ p.idx # 1 /\ m_receiverLastPacketAcked = 0
                  /\ filesWritten + 1 = round
      /\ m = 0 => (h > 0 <=> p.idx = 1)
      /\ h > 0 => filesWritten # round
      /\ h < Len(toReceiver) => m_senderLastPacketAcked # 0
  BY <1>1, <1>4 DEF Layers
<1>6. \/ /\ p.idx # m_receiverLastPacketAcked + 1
         /\ m_receiverLastPacketAcked' = m_receiverLastPacketAcked
         /\ filesWritten' = filesWritten
      \/ /\ p.idx = m_receiverLastPacketAcked + 1
         /\ m_receiverLastPacketAcked' = m_receiverLastPacketAcked + 1
         /\ filesWritten' = filesWritten
      \/ /\ p.idx = m_receiverLastPacketAcked + 1
         /\ m_receiverLastPacketAcked + 1 = N
         /\ m_receiverLastPacketAcked' = 0
         /\ filesWritten' = filesWritten + 1
  BY DEF ReceiverStep
<1> HIDE DEF p, N
<1>7. /\ m > 0 => filesWritten' + 1 = round' /\ m_receiverLastPacketAcked' = 0
      /\ h > 0 => filesWritten' # round'
  BY <1>1, <1>2, <1>4, <1>5, <1>6
<1>8. /\ filesWritten' <= round'
      /\ filesWritten' = round' => m_receiverLastPacketAcked' = 0
      /\ m_senderLastPacketAcked' = 0 =>
           m_receiverLastPacketAcked' <= 1 /\ filesWritten' # round'
  BY <1>1, <1>2, <1>3, <1>4, <1>5, <1>6
<1>9. \E h2 \in 0 .. Len(toReceiver') : \E m2 \in 0 .. h2 : Layers(m2, h2)'
  BY <1>1, <1>4, <1>7, RemoveLayers
<1> QED BY <1>8, <1>9 DEF OrderInv

LEMMA DataIInv == IInv /\ handleData => IInv'
<1> SUFFICES ASSUME IInv, handleData PROVE IInv'
  OBVIOUS
<1>1. PICK i \in DOMAIN toReceiver :
        /\ Reorder \/ i = 1
        /\ \/ acceptHeader(toReceiver[i]) \/ acceptData(toReceiver[i])
           \/ acceptLastData(toReceiver[i]) \/ discard(toReceiver[i])
        /\ sendPacketAck(toReceiver[i])
        /\ toReceiver' = RemoveAt(toReceiver, i)
  BY DEF handleData
<1> DEFINE p == toReceiver[i]
           b == [id |-> PacketId(p.idx),
                 at |-> [files |-> filesWritten', last |-> m_receiverLastPacketAcked']]
<1>2. /\ toReceiver \in Seq(Packet) /\ i \in 1 .. Len(toReceiver)
      /\ p \in Packet /\ Deliverable(p) /\ toReceiver # <<>>
  <2>1. /\ i \in 1 .. Len(toReceiver) /\ p \in Packet /\ Deliverable(p)
    BY <1>1, DeliveredFits
  <2> QED BY <2>1, EmptySeq DEF IInv, TypeOK
<1>3. /\ file \in Files /\ file' = file /\ NumPackets(file') = NumPackets(file)
      /\ UNCHANGED senderVars /\ round' = round /\ round \in Nat
  BY DEF IInv, TypeOK, handleData, senderVars
<1>4. /\ m_inBuffer' \in Seq(Packet)
      /\ m_currentMessageSize' \in Nat
      /\ m_bytesReceivedSoFar' \in Nat
      /\ m_receiverLastPacketAcked' \in Nat
      /\ disk' \in Seq(Packet)
      /\ filesWritten' \in Nat
      /\ ReceiverInv'
      /\ m_receiverLastPacketAcked' # p.idx - 1
      /\ NoFurther(filesWritten, m_receiverLastPacketAcked,
                   filesWritten', m_receiverLastPacketAcked')
      /\ ReceiverStep(p)
  <2> HIDE DEF p
  <2>1. acceptHeader(p) \/ acceptData(p) \/ acceptLastData(p) \/ discard(p)
    BY <1>1 DEF p
  <2> QED BY <1>2, <1>3, <2>1, HandleDataReceiver
<1>5. /\ p.idx \in Nat \ {0} /\ PacketId(p.idx) = p.idx
      /\ p.idx + 1 < maxPacketId /\ NumPackets(file) \in Nat
  <2>1. p.idx \in Nat \ {0} /\ p.file \in Files
    BY <1>2 DEF Packet
  <2>2. /\ NumPackets(p.file) \in Nat /\ NumPackets(p.file) + 1 < maxPacketId
        /\ \A j \in 0 .. NumPackets(p.file) + 1 : PacketId(j) = j
    BY <2>1, FileFacts
  <2>3. p.idx <= NumPackets(p.file) /\ p.idx \in 0 .. NumPackets(p.file) + 1
    BY <1>2, <2>1, <2>2 DEF Deliverable
  <2> QED BY <1>3, <2>1, <2>2, <2>3, FileFacts, PacketIdAssumption
<1>6. toSender' = Offer(toSender, <<b>>)
  BY <1>1 DEF sendPacketAck
<1> HIDE DEF p
<1>7. /\ b \in Ack /\ b.id = p.idx /\ b.at.files = filesWritten'
      /\ b.at.last = m_receiverLastPacketAcked'
  <2>1. p.idx \in 0 .. maxPacketId - 1
    BY <1>5, PacketIdAssumption
  <2> QED BY <1>4, <1>5, <2>1 DEF Ack
<1>8. m_receiverLastPacketAcked' < NumPackets(file)
  BY <1>3, <1>4 DEF ReceiverInv
<1> HIDE DEF b
<1>9. toSender' \in Seq(Ack)
  <2>1. toSender \in Seq(Ack) /\ <<b>> \in Seq(Ack)
    BY <1>7 DEF IInv, TypeOK
  <2> QED BY <1>6, <2>1, OfferProps
<1>10. /\ toReceiver' \in Seq(Packet)
       /\ PacketsOfFiles(toReceiver')
  <2>1. /\ toReceiver' \in Seq(Packet)
        /\ Len(toReceiver') = Len(toReceiver) - 1
        /\ \A j \in 1 .. Len(toReceiver) - 1 :
             toReceiver'[j] = IF j < i THEN toReceiver[j] ELSE toReceiver[j + 1]
    BY <1>1, <1>2, RemoveAtProps
  <2>2. Len(toReceiver) \in Nat
    BY <1>2, LenProperties
  <2> QED BY <2>1, <2>2 DEF IInv, DataInv, PacketsOfFiles
<1>11. TypeOK'
  BY <1>3, <1>4, <1>9, <1>10 DEF IInv, TypeOK, senderVars
<1>12. SenderInv'
  BY <1>3 DEF IInv, SenderInv, WindowOK, senderVars
<1>13. DataInv'
  <2>1. round' # 0
    BY <1>2, <1>3 DEF IInv, DataInv, senderVars
  <2> QED BY <1>3, <1>10, <2>1 DEF DataInv
<1>14. AckInv'
  <2>1. /\ AckFits(b)
        /\ NoFurther(filesWritten, m_receiverLastPacketAcked, b.at.files, b.at.last)
    <3>1. \/ p.idx <= NumPackets(file)
          \/ /\ filesWritten' + 1 = round
             /\ m_receiverLastPacketAcked' = 0
      <4>1. CASE p.file = file
        BY <1>2, <4>1 DEF Deliverable
      <4>2. CASE p.file # file
        <5>1. /\ p.idx # m_receiverLastPacketAcked + 1
              /\ m_receiverLastPacketAcked = 0 /\ filesWritten + 1 = round
          BY <1>2, <1>5, <4>2 DEF Deliverable
        <5> QED BY <1>4, <5>1 DEF ReceiverStep
      <4> QED BY <4>1, <4>2
    <3> QED BY <1>4, <1>5, <1>7, <1>8, <3>1 DEF AckFits
  <2>2. \A j \in 1 .. Len(toSender') :
           /\ AckFits(toSender'[j])
           /\ NoFurther(round, m_senderLastPacketAcked,
                        toSender'[j].at.files + 1, toSender'[j].at.last)
           /\ NoFurther(toSender'[j].at.files, toSender'[j].at.last,
                        b.at.files, b.at.last)
           /\ \A l \in j .. Len(toSender') :
                NoFurther(toSender'[j].at.files, toSender'[j].at.last,
                          toSender'[l].at.files, toSender'[l].at.last)
    BY <1>6, <1>7, <1>9, <2>1, SendAckProps, Zenon
  <2> QED BY <1>3, <1>7, <2>2 DEF AckInv, AckFits, senderVars
<1>15. AckedIsAccepted'
  <2>1. /\ round \in Nat /\ m_senderLastPacketAcked \in Nat
        /\ filesWritten \in Nat /\ m_receiverLastPacketAcked \in Nat
        /\ NoFurther(round, m_senderLastPacketAcked,
                     filesWritten + 1, m_receiverLastPacketAcked)
    BY DEF IInv, TypeOK, AckedIsAccepted
  <2>3. NoFurther(round, m_senderLastPacketAcked,
                  filesWritten' + 1, m_receiverLastPacketAcked')
    BY <1>4, <2>1, NoFurtherAhead
  <2> QED BY <1>3, <2>3 DEF AckedIsAccepted, senderVars
<1>16. ~Reorder => OrderInv'
  <2> SUFFICES ASSUME ~Reorder PROVE OrderInv'
    OBVIOUS
  <2>1. i = 1 /\ ReceiverStep(toReceiver[1]) /\ toReceiver' = RemoveAt(toReceiver, 1)
    BY <1>1, <1>4 DEF p
  <2> QED BY <1>2, <1>3, <2>1, DataOrder
<1> QED BY <1>4, <1>11, <1>12, <1>13, <1>14, <1>15, <1>16 DEF IInv

LEMMA DropIInv == IInv /\ drop => IInv'
<1> SUFFICES ASSUME IInv, drop PROVE IInv'
  OBVIOUS
<1>1. UNCHANGED <<senderVars, receiverVars>>
  BY DEF drop
<1>2. /\ toReceiver \in Seq(Packet) /\ toSender \in Seq(Ack)
      /\ Len(toReceiver) \in Nat /\ Len(toSender) \in Nat
      /\ DOMAIN toReceiver = 1 .. Len(toReceiver)
      /\ DOMAIN toSender = 1 .. Len(toSender)
  BY LenProperties DEF IInv, TypeOK
<1>3. file' = file /\ NumPackets(file') = NumPackets(file)
      /\ FileSize[file'] = FileSize[file] /\ Content(file') = Content(file)
  BY <1>1 DEF senderVars
<1>4. SenderInv' /\ ReceiverInv' /\ AckedIsAccepted'
  BY <1>1, <1>3
  DEF IInv, SenderInv, WindowOK, ReceiverInv, PrefixBytes, AckedIsAccepted,
      senderVars, receiverVars
<1>5. ASSUME NEW i \in 1 .. Len(toReceiver), toReceiver' = RemoveAt(toReceiver, i),
             toSender' = toSender
      PROVE  IInv'
  <2>1. /\ toReceiver' \in Seq(Packet)
        /\ Len(toReceiver') = Len(toReceiver) - 1
        /\ \A j \in 1 .. Len(toReceiver) - 1 :
             toReceiver'[j] = IF j < i THEN toReceiver[j] ELSE toReceiver[j + 1]
    BY <1>2, <1>5, RemoveAtProps
  <2>2. TypeOK'
    BY <1>1, <1>5, <2>1 DEF IInv, TypeOK, senderVars, receiverVars
  <2>3. round # 0
    BY <1>2, EmptySeq DEF IInv, DataInv
  <2>4. DataInv'
    BY <1>1, <1>2, <1>3, <2>1, <2>3 DEF IInv, DataInv, PacketsOfFiles, senderVars
  <2>5. AckInv'
    BY <1>1, <1>3, <1>5 DEF IInv, AckInv, AckFits, senderVars, receiverVars
  <2>6. ~Reorder => OrderInv'
    <3> SUFFICES ASSUME ~Reorder PROVE OrderInv'
      OBVIOUS
    <3>1. /\ round' = round /\ filesWritten' = filesWritten
          /\ m_receiverLastPacketAcked' = m_receiverLastPacketAcked
          /\ m_senderLastPacketAcked' = m_senderLastPacketAcked
      BY <1>1 DEF senderVars, receiverVars
    <3>2h. PICK h \in 0 .. Len(toReceiver) : \E m \in 0 .. h : Layers(m, h)
      BY DEF IInv, OrderInv
    <3>2. PICK m \in 0 .. h : Layers(m, h)
      BY <3>2h
    <3>3. /\ m > 0 => filesWritten' + 1 = round' /\ m_receiverLastPacketAcked' = 0
          /\ h > 0 => filesWritten' # round'
      BY <3>1, <3>2 DEF Layers
    <3>4. \E h2 \in 0 .. Len(toReceiver') : \E m2 \in 0 .. h2 : Layers(m2, h2)'
      BY <1>2, <1>3, <1>5, <3>1, <3>2, <3>3, RemoveLayers
    <3> QED BY <3>1, <3>4 DEF IInv, OrderInv
  <2> QED BY <1>4, <2>2, <2>4, <2>5, <2>6 DEF IInv
<1>6. ASSUME NEW i \in 1 .. Len(toSender), toSender' = RemoveAt(toSender, i),
             toReceiver' = toReceiver
      PROVE  IInv'
  <2> DEFINE n == Len(toSender)
             at(j) == IF j < i THEN j ELSE j + 1
  <2>1. /\ toSender' \in Seq(Ack) /\ Len(toSender') = n - 1
        /\ \A j \in 1 .. n - 1 :
             toSender'[j] = IF j < i THEN toSender[j] ELSE toSender[j + 1]
    BY <1>2, <1>6, RemoveAtProps
  <2>2. TypeOK'
    BY <1>1, <1>6, <2>1 DEF IInv, TypeOK, senderVars, receiverVars
  <2>3. DataInv'
    <3>1. round # 0
      BY <1>2, EmptySeq DEF IInv, DataInv
    <3> QED BY <1>1, <1>3, <1>6, <3>1 DEF IInv, DataInv, PacketsOfFiles, senderVars
  <2>4. AckInv'
    <3>1. \A j \in 1 .. n - 1 : at(j) \in 1 .. n /\ toSender'[j] = toSender[at(j)]
      BY <1>2, <2>1
    <3>2. \A j \in 1 .. n - 1 : \A l \in j .. n - 1 : at(l) \in at(j) .. n
      BY <1>2
    <3> HIDE DEF at
    <3>3. \A j \in 1 .. n - 1 : \A l \in j .. n - 1 : l \in 1 .. n - 1
      BY <1>2
    <3>4. ASSUME NEW k \in 1 .. n
          PROVE  /\ AckFits(toSender[k])
                 /\ NoFurther(round, m_senderLastPacketAcked,
                              toSender[k].at.files + 1, toSender[k].at.last)
                 /\ NoFurther(toSender[k].at.files, toSender[k].at.last,
                              filesWritten, m_receiverLastPacketAcked)
                 /\ \A l \in k .. n :
                      NoFurther(toSender[k].at.files, toSender[k].at.last,
                                toSender[l].at.files, toSender[l].at.last)
      BY DEF IInv, AckInv
    <3>5. ASSUME NEW j \in 1 .. n - 1
          PROVE  /\ AckFits(toSender'[j])
                 /\ NoFurther(round, m_senderLastPacketAcked,
                              toSender'[j].at.files + 1, toSender'[j].at.last)
                 /\ NoFurther(toSender'[j].at.files, toSender'[j].at.last,
                              filesWritten, m_receiverLastPacketAcked)
      BY <3>1, <3>4
    <3>6. ASSUME NEW j \in 1 .. n - 1, NEW l \in j .. n - 1
          PROVE  NoFurther(toSender'[j].at.files, toSender'[j].at.last,
                           toSender'[l].at.files, toSender'[l].at.last)
      <4>1. /\ at(j) \in 1 .. n /\ at(l) \in at(j) .. n
            /\ toSender'[j] = toSender[at(j)] /\ toSender'[l] = toSender[at(l)]
        BY <3>1, <3>2, <3>3
      <4> QED BY <3>4, <4>1
    <3> QED BY <1>1, <1>3, <2>1, <3>5, <3>6
            DEF AckInv, AckFits, senderVars, receiverVars
  <2>5. ~Reorder => OrderInv'
    BY <1>1, <1>3, <1>6
    DEF IInv, OrderInv, Layers, senderVars, receiverVars
  <2> QED BY <1>4, <2>2, <2>3, <2>4, <2>5 DEF IInv
<1> QED BY <1>2, <1>5, <1>6 DEF drop

-----------------------------------------------------------------------------
(***************************************************************************)
(* The theorems.                                                           *)
(***************************************************************************)

LEMMA NextIInv == IInv /\ [Next]_vars => IInv'
<1> SUFFICES ASSUME IInv, [Next]_vars PROVE IInv'
  OBVIOUS
<1>1. CASE resendMessage \/ userSends
  BY <1>1, SendIInv
<1>2. CASE timeoutBody
  BY <1>2, TimeoutIInv
<1>3. CASE handleAck
  BY <1>3, AckIInv
<1>4. CASE handleData
  BY <1>4, DataIInv
<1>5. CASE drop
  BY <1>5, DropIInv
<1>6. CASE UNCHANGED vars
  BY <1>6 DEF vars, IInv, TypeOK, SenderInv, WindowOK, ReceiverInv, PrefixBytes,
              DataInv, PacketsOfFiles, AckInv, AckFits, AckedIsAccepted,
              OrderInv, Layers, NumPackets, Content
<1> QED BY <1>1, <1>2, <1>3, <1>4, <1>5, <1>6 DEF Next

\* The inductive invariant of the two TCPConnection objects and the path
\* between them holds in every state, whatever the path loses or reorders.
THEOREM InvariantHolds == Spec => []IInv
BY InitIInv, NextIInv, PTL DEF Spec

\* The fields of both TCPConnection objects keep their types; in particular
\* m_cwnd and m_ssthresh never reach 0 (startSlowAgain).
THEOREM TypeCorrect == Spec => []TypeOK
<1>1. IInv => TypeOK
  BY DEF IInv
<1> QED BY <1>1, InvariantHolds, PTL

\* While a message is being sent, an unacked packet is out and a timeout is
\* armed to send it again; afterwards none is (handleAck, timeoutBody).
THEOREM WindowCorrect == Spec => []WindowOK
<1>1. IInv => WindowOK
  BY DEF IInv, SenderInv
<1> QED BY <1>1, InvariantHolds, PTL

\* The sender's m_senderLastPacketAcked is never ahead of what the receiver
\* has accepted (handleAck, handleData, sendPacketAck).
THEOREM AckedCorrect == Spec => []AckedIsAccepted
<1>1. IInv => AckedIsAccepted
  BY DEF IInv
<1> QED BY <1>1, InvariantHolds, PTL

\* When the sender has logged that the file is transmitted, the receiver has
\* written all of it (onDataSentCompletely, onNewFileCompletelyReceived).
THEOREM CompleteCorrect == Spec => []CompleteMeansWritten
<1>1. IInv => CompleteMeansWritten
  <2> SUFFICES ASSUME IInv, phase \in {"sleeping", "done"}
               PROVE  filesWritten >= round /\ disk = Content(file)
    BY DEF CompleteMeansWritten
  <2>1. /\ file \in Files /\ round \in Nat /\ filesWritten \in Nat
        /\ m_receiverLastPacketAcked \in Nat
    BY DEF IInv, TypeOK
  <2>2. NumPackets(file) \in Nat
    BY <2>1, FileFacts
  <2>3. /\ m_senderLastPacketAcked = NumPackets(file)
        /\ m_receiverLastPacketAcked < NumPackets(file)
        /\ round # 0
    BY DEF IInv, SenderInv, ReceiverInv
  <2>4. filesWritten >= round
    BY <2>1, <2>2, <2>3 DEF IInv, AckedIsAccepted, NoFurther
  <2> QED BY <2>1, <2>3, <2>4 DEF IInv, ReceiverInv
<1> QED BY <1>1, InvariantHolds, PTL

\* What is on the receiver's disk is a whole file, one of those sent, with
\* no packet missing, repeated or of another file: although a header that
\* is delivered again, or packets of the file sent before, reach a receiver
\* whose buffer is empty (looksLikeHeader, onNewFileCompletelyReceived).
THEOREM FilesAreIntact == Spec => []FileIntact
<1>1. IInv => FileIntact
  BY DEF IInv, ReceiverInv, FileIntact
<1> QED BY <1>1, InvariantHolds, PTL

-----------------------------------------------------------------------------
(***************************************************************************)
(* Refinement.                                                             *)
(***************************************************************************)

LEMMA StepImplements == IInv /\ IInv' /\ [Next]_vars => [FT!FTNext]_(FT!ftVars)
<1> SUFFICES ASSUME IInv, IInv', [Next]_vars
             PROVE  FT!FTNext \/ UNCHANGED FT!ftVars
  OBVIOUS
<1> DEFINE N == NumPackets(file)
<1>1. /\ file \in Files /\ round \in Nat /\ m_senderLastPacketAcked \in Nat
      /\ filesWritten \in Nat /\ m_receiverLastPacketAcked \in Nat
  BY DEF IInv, TypeOK
<1>2. /\ N \in Nat
      /\ [f \in Files |-> NumPackets(f)][file] = N
      /\ [f \in Files |-> Content(f)][file] = Content(file)
  BY <1>1, FileFacts
<1>3. ASSUME NEW f \in Files, phase # "sending", transmit(f)
      PROVE  FT!Begin
  <2>1. round = 0 \/ m_senderLastPacketAcked = N
    BY <1>1, <1>2, <1>3 DEF IInv, TypeOK, SenderInv
  <2>2. /\ file' = f /\ round' = round + 1 /\ m_senderLastPacketAcked' = 0
        /\ UNCHANGED <<filesWritten, m_receiverLastPacketAcked, disk>>
    BY <1>3 DEF transmit, receiverVars
  <2>3. file' # file => filesWritten = round /\ m_receiverLastPacketAcked = 0
    BY <1>1, <1>3, <2>2, SameFile, BeforeTransmission
  <2> HIDE DEF N
  <2> QED BY <1>2, <2>1, <2>2, <2>3 DEF FT!Begin
<1>4. CASE resendMessage \/ userSends
  <2>1. CASE resendMessage
    BY <1>1, <1>3, <2>1 DEF resendMessage, FT!FTNext
  <2>2. CASE userSends
    BY <1>3, <2>2 DEF userSends, sendMessage, FT!FTNext
  <2> QED BY <1>4, <2>1, <2>2
<1>5. CASE timeoutBody
  BY <1>5 DEF timeoutBody, receiverVars, FT!ftVars
<1>6. CASE handleAck
  <2>1. /\ round' = round /\ filesWritten' = filesWritten /\ disk' = disk
        /\ m_receiverLastPacketAcked' = m_receiverLastPacketAcked
        /\ file' = file
    BY <1>6 DEF handleAck, receiverVars
  <2>2. CASE m_senderLastPacketAcked' = m_senderLastPacketAcked
    BY <2>1, <2>2 DEF FT!ftVars
  <2>3. CASE m_senderLastPacketAcked' = m_senderLastPacketAcked + 1
    <3>1. m_senderLastPacketAcked + 1 <= N
      BY <2>1, <2>3 DEF IInv, SenderInv
    <3>2. m_senderLastPacketAcked < N
      BY <1>1, <1>2, <3>1
    <3>3. NoFurther(round, m_senderLastPacketAcked + 1,
                    filesWritten + 1, m_receiverLastPacketAcked)
      BY <2>1, <2>3 DEF IInv, AckedIsAccepted
    <3>4. \/ round < filesWritten + 1
          \/ /\ round = filesWritten + 1
             /\ m_senderLastPacketAcked < m_receiverLastPacketAcked
      BY <1>1, <3>3 DEF NoFurther
    <3>5. round > 0
      BY <1>1, <1>6 DEF IInv, DataInv, handleAck
    <3> HIDE DEF N
    <3> QED BY <1>2, <2>1, <2>3, <3>2, <3>4, <3>5 DEF FT!FTNext, FT!Confirm
  <2> QED BY <1>6, <2>2, <2>3
          DEF handleAck, ackOfNextPacket, ackOfLaterPacket, ackOfEarlierPacket
<1>7. CASE handleData
  <2>1. UNCHANGED senderVars
    BY <1>7 DEF handleData
  <2>2. PICK p \in Packet : ReceiverStep(p)
    <3>1. PICK i \in DOMAIN toReceiver :
            /\ Reorder \/ i = 1
            /\ \/ acceptHeader(toReceiver[i]) \/ acceptData(toReceiver[i])
               \/ acceptLastData(toReceiver[i]) \/ discard(toReceiver[i])
      BY <1>7 DEF handleData
    <3>2. toReceiver[i] \in Packet /\ Deliverable(toReceiver[i])
      BY <3>1, DeliveredFits
    <3>3. file' = file /\ round' = round
      BY <2>1 DEF senderVars
    <3> QED BY <3>1, <3>2, <3>3, HandleDataReceiver
  <2> HIDE DEF N
  <2> QED BY <1>2, <2>1, <2>2
          DEF ReceiverStep, senderVars, FT!FTNext, FT!Accept, FT!Finish, FT!ftVars, N
<1>8. CASE drop
  BY <1>8 DEF drop, senderVars, receiverVars, FT!ftVars
<1>9. CASE UNCHANGED vars
  BY <1>9 DEF vars, FT!ftVars
<1> QED BY <1>4, <1>5, <1>6, <1>7, <1>8, <1>9 DEF Next

\* The two TCPConnection objects and the lossy path implement FileTransfer:
\* every handler is one of its steps or changes nothing it can see.
THEOREM TransportImplements == Spec => ImplementsFileTransfer
<1>1. Init => FT!FTInit
  BY DEF Init, FT!FTInit
<1> QED BY <1>1, StepImplements, InvariantHolds, PTL
        DEF Spec, ImplementsFileTransfer, FT!FTSpec
=============================================================================
