------------------------ MODULE DistanceVector_proofs ------------------------
(***************************************************************************)
(* Proofs that routing tables never form a loop and that routes only       *)
(* improve, for every network of routers and hosts.                        *)
(***************************************************************************)
EXTENDS DistanceVector, SequenceTheorems, ProofRules, TLAPS

-----------------------------------------------------------------------------
(***************************************************************************)
(* Facts about the data.                                                   *)
(***************************************************************************)

LEMMA LinkFacts ==
  ASSUME NEW n \in Nodes
  PROVE  /\ \A m \in m_links(n) : /\ m \in Nodes /\ m # n
                                  /\ n \in m_links(m)
                                  /\ LinkCost[n][m] > 0
         /\ \A m \in Nodes : LinkCost[n][m] \in Nat
BY LinksAssumption DEF m_links

LEMMA CounterFacts ==
  ASSUME NEW c \in 0 .. CounterSize - 1
  PROVE  /\ (c + 1) % CounterSize \in 0 .. CounterSize - 1
         /\ (c + CounterSize - 1) % CounterSize \in 0 .. CounterSize - 1
<1>1. CounterSize \in Nat \ {0}
  BY CounterAssumption
<1>2. ASSUME NEW k \in Nat PROVE k % CounterSize \in 0 .. CounterSize - 1
  BY <1>1, SMT
<1>3. c + 1 \in Nat /\ c + CounterSize - 1 \in Nat
  BY <1>1
<1> QED BY <1>2, <1>3

\* The messages of a broadcast go to neighbours and carry what it is given.
LEMMA BroadcastFacts ==
  ASSUME NEW r \in Routers, NEW d \in Nodes, NEW c \in Nat,
         NEW o \in broadCastNewLink(r, d, c)
  PROVE  o \in Outgoing /\ o.to \in m_links(r) /\ o.msg.dest = d /\ o.msg.cost = c
BY DEF broadCastNewLink, Outgoing, RoutingMessage, m_links

-----------------------------------------------------------------------------
LEMMA InitDV == Init => DVInv
<1> SUFFICES ASSUME Init PROVE DVInv
  OBVIOUS
<1>1. TypeOK
  <2>1. m_routingTable \in [Nodes -> [Nodes -> Entry]]
    BY LinksAssumption DEF Init, Entry, Unknown
  <2>2. m_nodeQueue \in [Nodes -> [Routers -> Seq(RoutingMessage)]]
    BY EmptySeq DEF Init
  <2>3. m_algConvergeCounter \in 0 .. CounterSize - 1
    BY CounterAssumption DEF Init
  <2>4. toSend \in [Routers -> SUBSET Outgoing]
    BY DEF Init
  <2>5. /\ m_isRunning \in [Nodes -> BOOLEAN] /\ toCount \in [Routers -> BOOLEAN]
        /\ inHandler \in [Nodes -> BOOLEAN] /\ converged \in BOOLEAN
    BY DEF Init
  <2> QED BY <2>1, <2>2, <2>3, <2>4, <2>5 DEF TypeOK
<1>2. NextHopIsCloser
  BY DEF Init, NextHopIsCloser, Unknown, m_links
<1>3. AnnouncementsHold
  <2>1. \A n \in Nodes, s \in Routers : Len(m_nodeQueue[n][s]) = 0
    BY EmptySeq DEF Init
  <2> QED BY <2>1 DEF Init, AnnouncementsHold
<1> QED BY <1>1, <1>2, <1>3 DEF DVInv

LEMMA StartDV ==
  ASSUME DVInv, NEW n \in Nodes, startNode(n)
  PROVE  DVInv'
<1>1. /\ UNCHANGED <<m_routingTable, m_nodeQueue, toCount, inHandler,
                     m_algConvergeCounter, converged>>
      /\ m_isRunning' \in [Nodes -> BOOLEAN]
  BY DEF startNode, DVInv, TypeOK
<1>2. ASSUME NEW r \in Routers, NEW o \in toSend'[r]
      PROVE  /\ o \in Outgoing /\ o.to \in m_links(r)
             /\ m_routingTable[r][o.msg.dest].known
             /\ m_routingTable[r][o.msg.dest].cost <= o.msg.cost
  <2>1. CASE o \in toSend[r]
    BY <2>1 DEF DVInv, TypeOK, AnnouncementsHold
  <2>2. CASE ~(o \in toSend[r])
    <3>1. PICK d \in Nodes : /\ r = n /\ m_routingTable[n][d].known
                             /\ o \in broadCastNewLink(n, d, m_routingTable[n][d].cost)
      BY <1>2, <2>2 DEF startNode, DVInv, TypeOK
    <3>2. m_routingTable[n][d].cost \in Nat
      BY DEF DVInv, TypeOK, Entry
    <3>3. /\ o \in Outgoing /\ o.to \in m_links(r) /\ o.msg.dest = d
          /\ o.msg.cost = m_routingTable[n][d].cost
      BY <3>1, <3>2, BroadcastFacts
    <3> QED BY <3>1, <3>2, <3>3
  <2> QED BY <2>1, <2>2
<1>3. toSend' \in [Routers -> SUBSET Outgoing]
  <2>1. DOMAIN toSend' = Routers /\ toSend' = [r \in Routers |-> toSend'[r]]
    BY DEF startNode, DVInv, TypeOK
  <2> QED BY <1>2, <2>1
<1>4. TypeOK'
  BY <1>1, <1>3 DEF DVInv, TypeOK
<1>5. NextHopIsCloser'
  BY <1>1 DEF DVInv, NextHopIsCloser
<1>6. AnnouncementsHold'
  BY <1>1, <1>2 DEF DVInv, AnnouncementsHold
<1> QED BY <1>4, <1>5, <1>6 DEF DVInv

LEMMA TakeDV ==
  ASSUME DVInv, NEW r \in Routers, takeMessage(r)
  PROVE  DVInv'
<1>1. PICK o \in toSend[r] :
        /\ toSend' = [toSend EXCEPT ![r] = @ \ {o}]
        /\ m_nodeQueue' = [m_nodeQueue EXCEPT ![o.to][r] = Append(@, o.msg)]
  BY DEF takeMessage, nextToSend
<1>2. /\ o \in Outgoing /\ o.to \in Nodes /\ o.msg \in RoutingMessage
      /\ r \in Nodes /\ r \in m_links(o.to)
      /\ m_routingTable[r][o.msg.dest].known
      /\ m_routingTable[r][o.msg.dest].cost <= o.msg.cost
  <2>1. o \in Outgoing /\ r \in Nodes /\ o.to \in m_links(r)
    BY DEF DVInv, TypeOK, AnnouncementsHold, Nodes
  <2> QED BY <2>1, LinkFacts DEF DVInv, AnnouncementsHold, Outgoing
<1>3. /\ UNCHANGED <<m_routingTable, m_isRunning, inHandler,
                     m_algConvergeCounter, converged>>
      /\ toCount' \in [Routers -> BOOLEAN]
  BY DEF takeMessage, DVInv, TypeOK
<1> DEFINE q == m_nodeQueue[o.to][r]
<1>4. /\ q \in Seq(RoutingMessage)
      /\ Append(q, o.msg) \in Seq(RoutingMessage)
      /\ Len(Append(q, o.msg)) = Len(q) + 1
      /\ \A i \in 1 .. Len(q) : Append(q, o.msg)[i] = q[i]
      /\ Append(q, o.msg)[Len(q) + 1] = o.msg
      /\ Len(q) \in Nat
  <2>1. q \in Seq(RoutingMessage)
    BY <1>2 DEF DVInv, TypeOK
  <2> HIDE DEF q
  <2> QED BY <1>2, <2>1, AppendProperties, LenProperties
<1>5. \A n \in Nodes, s \in Routers :
        m_nodeQueue'[n][s] = IF n = o.to /\ s = r THEN Append(q, o.msg)
                             ELSE m_nodeQueue[n][s]
  BY <1>1, <1>2 DEF DVInv, TypeOK
<1>6. TypeOK'
  <2>1. toSend' \in [Routers -> SUBSET Outgoing]
    BY <1>1 DEF DVInv, TypeOK
  <2>2. m_nodeQueue' \in [Nodes -> [Routers -> Seq(RoutingMessage)]]
    BY <1>1, <1>2, <1>4 DEF DVInv, TypeOK
  <2> QED BY <1>3, <2>1, <2>2 DEF DVInv, TypeOK
<1>7. NextHopIsCloser'
  BY <1>3 DEF DVInv, NextHopIsCloser
<1> HIDE DEF q
<1>8. AnnouncementsHold'
  <2>1. ASSUME NEW n \in Nodes, NEW s \in Routers,
               NEW i \in 1 .. Len(m_nodeQueue'[n][s])
        PROVE  /\ s \in m_links(n)
               /\ m_routingTable[s][m_nodeQueue'[n][s][i].dest].known
               /\ m_routingTable[s][m_nodeQueue'[n][s][i].dest].cost
                    <= m_nodeQueue'[n][s][i].cost
    <3>1. CASE n = o.to /\ s = r
      <4>1. m_nodeQueue'[n][s] = Append(q, o.msg)
        BY <1>5, <3>1
      <4>2. CASE i = Len(q) + 1
        BY <1>2, <1>4, <3>1, <4>1, <4>2
      <4>3. CASE i # Len(q) + 1
        <5>1. i \in 1 .. Len(q) /\ m_nodeQueue'[n][s][i] = q[i]
          BY <1>4, <4>1, <4>3
        <5> QED BY <3>1, <5>1 DEF DVInv, AnnouncementsHold, q
      <4> QED BY <4>2, <4>3
    <3>2. CASE ~(n = o.to /\ s = r)
      <4>1. m_nodeQueue'[n][s] = m_nodeQueue[n][s]
        BY <1>5, <3>2
      <4> QED BY <4>1 DEF DVInv, AnnouncementsHold
    <3> QED BY <3>1, <3>2
  <2>2. \A s \in Routers : toSend'[s] \subseteq toSend[s]
    BY <1>1 DEF DVInv, TypeOK
  <2> QED BY <1>3, <2>1, <2>2 DEF DVInv, AnnouncementsHold
<1> QED BY <1>6, <1>7, <1>8 DEF DVInv

\* A queue without its oldest message.
LEMMA TailFacts ==
  ASSUME NEW S, NEW q \in Seq(S), q # <<>>
  PROVE  /\ Tail(q) \in Seq(S) /\ Head(q) = q[1] /\ q[1] \in S
         /\ 1 \in 1 .. Len(q)
         /\ \A i \in 1 .. Len(Tail(q)) : i + 1 \in 1 .. Len(q) /\ Tail(q)[i] = q[i + 1]
BY HeadTailProperties, EmptySeq, LenProperties, ElementOfSeq

\* Any change of the tables that makes no route worse keeps what has been
\* announced true.
LEMMA HandleDV ==
  ASSUME DVInv, NEW n \in Nodes, NEW s \in Routers, handleNewMessage(n, s)
  PROVE  DVInv'
<1> DEFINE q == m_nodeQueue[n][s]
           m == q[1]
           c == m.cost + LinkCost[n][s]
<1>1. q \in Seq(RoutingMessage) /\ q # <<>> /\ s \in Nodes
  BY DEF handleNewMessage, DVInv, TypeOK, Nodes
<1>2. /\ Tail(q) \in Seq(RoutingMessage) /\ Head(q) = m /\ m \in RoutingMessage
      /\ 1 \in 1 .. Len(q)
      /\ \A i \in 1 .. Len(Tail(q)) : i + 1 \in 1 .. Len(q) /\ Tail(q)[i] = q[i + 1]
  BY <1>1, TailFacts
<1>3. /\ s \in m_links(n) /\ s # n /\ LinkCost[n][s] \in Nat
      /\ m_routingTable[s][m.dest].known
      /\ m_routingTable[s][m.dest].cost <= m.cost
      /\ m_routingTable[s][m.dest].cost \in Nat
      /\ m.dest \in Nodes /\ m.cost \in Nat /\ c \in Nat
  <2>1. m.dest \in Nodes /\ m.cost \in Nat
    BY <1>2 DEF RoutingMessage
  <2>2. /\ s \in m_links(n) /\ m_routingTable[s][m.dest].known
        /\ m_routingTable[s][m.dest].cost <= m.cost
    BY <1>2 DEF DVInv, AnnouncementsHold
  <2>3. m_routingTable[s][m.dest].cost \in Nat
    BY <1>1, <2>1 DEF DVInv, TypeOK, Entry
  <2>4. s # n /\ LinkCost[n][s] \in Nat
    BY <1>1, <2>2, LinkFacts
  <2> QED BY <2>1, <2>2, <2>3, <2>4
<1>4. /\ m_nodeQueue' = [m_nodeQueue EXCEPT ![n][s] = Tail(@)]
      /\ inHandler' \in [Nodes -> BOOLEAN]
      /\ UNCHANGED <<m_isRunning, toCount, m_algConvergeCounter, converged>>
  BY DEF handleNewMessage, DVInv, TypeOK
<1>5. \A x \in Nodes, t \in Routers :
        m_nodeQueue'[x][t] = IF x = n /\ t = s THEN Tail(q) ELSE m_nodeQueue[x][t]
  BY <1>4 DEF DVInv, TypeOK
<1>6. m_nodeQueue' \in [Nodes -> [Routers -> Seq(RoutingMessage)]]
  BY <1>2, <1>4 DEF DVInv, TypeOK
<1>7. ASSUME NEW x \in Nodes, NEW t \in Routers,
             NEW i \in 1 .. Len(m_nodeQueue'[x][t])
      PROVE  \E j \in 1 .. Len(m_nodeQueue[x][t]) :
               m_nodeQueue'[x][t][i] = m_nodeQueue[x][t][j]
  <2>1. CASE x = n /\ t = s
    <3>1. m_nodeQueue'[x][t] = Tail(q)
      BY <1>5, <2>1
    <3>2. i + 1 \in 1 .. Len(q) /\ Tail(q)[i] = q[i + 1]
      BY <1>2, <3>1
    <3> QED BY <2>1, <3>1, <3>2
  <2>2. CASE ~(x = n /\ t = s)
    <3>1. m_nodeQueue'[x][t] = m_nodeQueue[x][t]
      BY <1>5, <2>2
    <3> QED BY <3>1
  <2> QED BY <2>1, <2>2
<1>8. CASE UNCHANGED <<m_routingTable, toSend>>
  <2>1. TypeOK'
    BY <1>4, <1>6, <1>8 DEF DVInv, TypeOK
  <2>2. NextHopIsCloser'
    BY <1>8 DEF DVInv, NextHopIsCloser
  <2>3. AnnouncementsHold'
    <3>1. ASSUME NEW x \in Nodes, NEW t \in Routers,
                 NEW i \in 1 .. Len(m_nodeQueue'[x][t])
          PROVE  /\ t \in m_links(x)
                 /\ m_routingTable'[t][m_nodeQueue'[x][t][i].dest].known
                 /\ m_routingTable'[t][m_nodeQueue'[x][t][i].dest].cost
                      <= m_nodeQueue'[x][t][i].cost
      <4>1. PICK j \in 1 .. Len(m_nodeQueue[x][t]) :
              m_nodeQueue'[x][t][i] = m_nodeQueue[x][t][j]
        BY <1>7
      <4>2. LET mj == m_nodeQueue[x][t][j] IN
            /\ t \in m_links(x) /\ m_routingTable[t][mj.dest].known
            /\ m_routingTable[t][mj.dest].cost <= mj.cost
        BY DEF DVInv, AnnouncementsHold
      <4> QED BY <1>8, <4>1, <4>2
    <3>2. \A r \in Routers : \A o \in toSend[r] :
            /\ o.to \in m_links(r)
            /\ m_routingTable[r][o.msg.dest].known
            /\ m_routingTable[r][o.msg.dest].cost <= o.msg.cost
      BY DEF DVInv, AnnouncementsHold
    <3> QED BY <1>8, <3>1, <3>2 DEF AnnouncementsHold
  <2> QED BY <2>1, <2>2, <2>3 DEF DVInv
<1>9. CASE updateRoutingTable(n, m.dest, c, s)
  <2> DEFINE d == m.dest
             e == [known |-> TRUE, cost |-> c, nextHop |-> s]
  <2> HIDE DEF c, m
  <2>1. /\ m_routingTable' = [m_routingTable EXCEPT ![n][d] = e]
        /\ isBetter(n, d, c)
        /\ toSend' = IF n \in Routers
                     THEN [toSend EXCEPT ![n] = broadCastNewLink(n, d, c)]
                     ELSE toSend
    BY <1>9 DEF updateRoutingTable
  <2>2. e \in Entry /\ e.known /\ e.cost = c /\ e.nextHop = s
    BY <1>1, <1>3 DEF Entry
  <2>3. \A x, y \in Nodes :
          m_routingTable'[x][y] = IF x = n /\ y = d THEN e ELSE m_routingTable[x][y]
    BY <1>3, <2>1 DEF DVInv, TypeOK
  <2>4. m_routingTable' \in [Nodes -> [Nodes -> Entry]]
    BY <1>3, <2>1, <2>2 DEF DVInv, TypeOK
  <2>5. \A x, y \in Nodes : m_routingTable[x][y].known =>
          /\ m_routingTable'[x][y].known
          /\ m_routingTable[x][y].cost \in Nat /\ m_routingTable'[x][y].cost \in Nat
          /\ m_routingTable'[x][y].cost <= m_routingTable[x][y].cost
    <3>1. \A x, y \in Nodes : m_routingTable[x][y].cost \in Nat
      BY DEF DVInv, TypeOK, Entry
    <3> HIDE DEF e
    <3> QED BY <1>3, <2>1, <2>2, <2>3, <3>1 DEF isBetter
  <2> HIDE DEF e, d
  <2>6. ASSUME NEW r \in Routers, NEW o \in toSend'[r]
        PROVE  /\ o \in Outgoing /\ o.to \in m_links(r)
               /\ m_routingTable'[r][o.msg.dest].known
               /\ m_routingTable'[r][o.msg.dest].cost <= o.msg.cost
    <3>1. CASE o \in toSend[r]
      <4>1. /\ o \in Outgoing /\ o.to \in m_links(r)
            /\ m_routingTable[r][o.msg.dest].known
            /\ m_routingTable[r][o.msg.dest].cost <= o.msg.cost
        BY <3>1 DEF DVInv, TypeOK, AnnouncementsHold
      <4>2. r \in Nodes /\ o.msg.dest \in Nodes /\ o.msg.cost \in Nat
        BY <4>1 DEF Outgoing, RoutingMessage, Nodes
      <4> QED BY <2>5, <4>1, <4>2
    <3>2. CASE ~(o \in toSend[r])
      <4>1. r = n /\ o \in broadCastNewLink(n, d, c)
        BY <2>1, <2>6, <3>2 DEF DVInv, TypeOK
      <4>2. o \in Outgoing /\ o.to \in m_links(r) /\ o.msg.dest = d /\ o.msg.cost = c
        BY <1>3, <4>1, BroadcastFacts DEF d
      <4>3. m_routingTable'[r][d] = e
        BY <1>3, <2>3, <4>1 DEF d
      <4> QED BY <1>3, <2>2, <4>2, <4>3
    <3> QED BY <3>1, <3>2
  <2>7. TypeOK'
    <3>1. toSend' \in [Routers -> SUBSET Outgoing]
      <4>1. toSend' = [r \in Routers |-> toSend'[r]]
        BY <2>1 DEF DVInv, TypeOK
      <4> QED BY <2>6, <4>1
    <3> QED BY <1>4, <1>6, <2>4, <3>1 DEF DVInv, TypeOK
  <2>8. AnnouncementsHold'
    <3>1. ASSUME NEW x \in Nodes, NEW t \in Routers,
                 NEW i \in 1 .. Len(m_nodeQueue'[x][t])
          PROVE  /\ t \in m_links(x)
                 /\ m_routingTable'[t][m_nodeQueue'[x][t][i].dest].known
                 /\ m_routingTable'[t][m_nodeQueue'[x][t][i].dest].cost
                      <= m_nodeQueue'[x][t][i].cost
      <4>1. PICK j \in 1 .. Len(m_nodeQueue[x][t]) :
              m_nodeQueue'[x][t][i] = m_nodeQueue[x][t][j]
        BY <1>7
      <4> DEFINE mj == m_nodeQueue[x][t][j]
      <4>2. /\ t \in m_links(x) /\ m_routingTable[t][mj.dest].known
            /\ m_routingTable[t][mj.dest].cost <= mj.cost
        BY DEF DVInv, AnnouncementsHold
      <4>3. m_nodeQueue[x][t] \in Seq(RoutingMessage)
        BY DEF DVInv, TypeOK
      <4>a. mj \in RoutingMessage
        BY <4>3, ElementOfSeq
      <4> HIDE DEF mj
      <4>4. t \in Nodes /\ mj.dest \in Nodes /\ mj.cost \in Nat
        BY <4>a DEF RoutingMessage, Nodes
      <4>5. m_nodeQueue'[x][t][i] = mj
        BY <4>1 DEF mj
      <4> QED BY <2>5, <4>2, <4>4, <4>5
    <3> QED BY <2>6, <3>1 DEF AnnouncementsHold
  <2>9. NextHopIsCloser'
    <3> SUFFICES ASSUME NEW x \in Nodes, NEW y \in Nodes, m_routingTable'[x][y].known
                 PROVE  LET f == m_routingTable'[x][y] IN
                        /\ f.nextHop \in m_links(x)
                        /\ \/ /\ f.nextHop = y
                              /\ f.cost = LinkCost[x][y]
                           \/ /\ f.nextHop \in Routers
                              /\ m_routingTable'[f.nextHop][y].known
                              /\ m_routingTable'[f.nextHop][y].cost
                                   + LinkCost[x][f.nextHop] <= f.cost
      BY DEF NextHopIsCloser
    <3>1. CASE x = n /\ y = d
      <4>1. m_routingTable'[x][y] = e /\ m_routingTable'[s][y] = m_routingTable[s][y]
        BY <1>1, <1>3, <2>3, <3>1
      <4>2. m_routingTable[s][y].cost + LinkCost[n][s] <= c
        BY <1>3, <3>1 DEF c, d
      <4> QED BY <1>3, <2>2, <3>1, <4>1, <4>2 DEF d
    <3>2. CASE ~(x = n /\ y = d)
      <4> DEFINE f == m_routingTable[x][y]
                 h == f.nextHop
      <4>1. m_routingTable'[x][y] = f /\ f.known /\ f \in Entry
        BY <2>3, <3>2 DEF DVInv, TypeOK
      <4>2. /\ h \in m_links(x)
            /\ \/ h = y /\ f.cost = LinkCost[x][y]
               \/ /\ h \in Routers /\ m_routingTable[h][y].known
                  /\ m_routingTable[h][y].cost + LinkCost[x][h] <= f.cost
        BY <4>1 DEF DVInv, NextHopIsCloser
      <4>3. CASE h = y /\ f.cost = LinkCost[x][y]
        BY <4>1, <4>2, <4>3
      <4>4. CASE /\ h \in Routers /\ m_routingTable[h][y].known
                 /\ m_routingTable[h][y].cost + LinkCost[x][h] <= f.cost
        <5>1. h \in Nodes /\ LinkCost[x][h] \in Nat /\ f.cost \in Nat
          BY <4>1, <4>2, LinkFacts DEF Entry
        <5>2. /\ m_routingTable'[h][y].known
              /\ m_routingTable[h][y].cost \in Nat /\ m_routingTable'[h][y].cost \in Nat
              /\ m_routingTable'[h][y].cost <= m_routingTable[h][y].cost
          BY <2>5, <4>4, <5>1
        <5>3. m_routingTable'[h][y].cost + LinkCost[x][h] <= f.cost
          BY <4>4, <5>1, <5>2
        <5> QED BY <4>1, <4>2, <4>4, <5>2, <5>3
      <4> QED BY <4>2, <4>3, <4>4
    <3> QED BY <3>1, <3>2
  <2> QED BY <2>7, <2>8, <2>9 DEF DVInv
<1> QED
  <2>1. \/ updateRoutingTable(n, m.dest, c, s)
        \/ UNCHANGED <<m_routingTable, toSend>>
    BY <1>2 DEF handleNewMessage
  <2> QED BY <1>8, <1>9, <2>1

\* The steps that touch neither tables nor messages.
LEMMA CountDV ==
  ASSUME DVInv,
         \/ \E r \in Routers : incConvergeCounter(r)
         \/ \E n \in Nodes : decConvergeCounter(n)
         \/ waitForConverge
         \/ UNCHANGED vars
  PROVE  DVInv'
<1>1. UNCHANGED <<m_routingTable, m_isRunning, m_nodeQueue, toSend>>
  BY DEF incConvergeCounter, decConvergeCounter, waitForConverge, vars
<1>2. /\ toCount' \in [Routers -> BOOLEAN]
      /\ inHandler' \in [Nodes -> BOOLEAN]
      /\ converged' \in BOOLEAN
      /\ m_algConvergeCounter' \in 0 .. CounterSize - 1
  BY CounterFacts
  DEF DVInv, TypeOK, incConvergeCounter, decConvergeCounter, waitForConverge, vars
<1>3. TypeOK'
  BY <1>1, <1>2 DEF DVInv, TypeOK
<1>4. NextHopIsCloser' /\ AnnouncementsHold'
  BY <1>1 DEF DVInv, NextHopIsCloser, AnnouncementsHold
<1> QED BY <1>3, <1>4 DEF DVInv

LEMMA NextDV == DVInv /\ [Next]_vars => DVInv'
<1> SUFFICES ASSUME DVInv, [Next]_vars PROVE DVInv'
  OBVIOUS
<1>1. ASSUME NEW n \in Nodes, startNode(n) PROVE DVInv'
  BY <1>1, StartDV
<1>2. ASSUME NEW n \in Nodes, NEW s \in Routers, handleNewMessage(n, s) PROVE DVInv'
  BY <1>2, HandleDV
<1>3. ASSUME NEW r \in Routers, takeMessage(r) PROVE DVInv'
  BY <1>3, TakeDV
<1>4. CASE \/ \E r \in Routers : incConvergeCounter(r)
           \/ \E n \in Nodes : decConvergeCounter(n)
           \/ waitForConverge
           \/ UNCHANGED vars
  BY <1>4, CountDV
<1> QED BY <1>1, <1>2, <1>3, <1>4 DEF Next, Step, Broadcast

\* What a step may do to the tables.
Improves ==
  \A n, d \in Nodes : m_routingTable[n][d].known =>
    /\ m_routingTable'[n][d].known
    /\ m_routingTable'[n][d].cost <= m_routingTable[n][d].cost

LEMMA NextImproves == DVInv /\ [Next]_vars => Improves
<1> SUFFICES ASSUME DVInv, [Next]_vars, NEW x \in Nodes, NEW y \in Nodes,
                    m_routingTable[x][y].known
             PROVE  /\ m_routingTable'[x][y].known
                    /\ m_routingTable'[x][y].cost <= m_routingTable[x][y].cost
  BY DEF Improves
<1>1. m_routingTable[x][y].cost \in Nat
  BY DEF DVInv, TypeOK, Entry
<1>2. CASE m_routingTable' = m_routingTable
  BY <1>1, <1>2
<1>3. ASSUME NEW n \in Nodes, NEW d, NEW c \in Nat, NEW s,
             updateRoutingTable(n, d, c, s)
      PROVE  /\ m_routingTable'[x][y].known
             /\ m_routingTable'[x][y].cost <= m_routingTable[x][y].cost
  <2>1. m_routingTable' = [m_routingTable EXCEPT ![n][d] =
                             [known |-> TRUE, cost |-> c, nextHop |-> s]]
    BY <1>3 DEF updateRoutingTable
  <2>2. CASE x = n /\ y = d
    <3>1. m_routingTable'[x][y] = [known |-> TRUE, cost |-> c, nextHop |-> s]
      BY <2>1, <2>2 DEF DVInv, TypeOK
    <3>2. m_routingTable[x][y].cost > c
      BY <1>3, <2>2 DEF updateRoutingTable, isBetter
    <3>3. c <= m_routingTable[x][y].cost
      BY <3>2, <1>1
    <3> QED BY <3>1, <3>3
  <2>3. CASE ~(x = n /\ y = d)
    <3>1. m_routingTable'[x][y] = m_routingTable[x][y]
      BY <2>1, <2>3 DEF DVInv, TypeOK
    <3> QED BY <1>1, <3>1
  <2> QED BY <2>2, <2>3
<1>4. ASSUME NEW n \in Nodes, NEW s \in Routers, handleNewMessage(n, s)
      PROVE  /\ m_routingTable'[x][y].known
             /\ m_routingTable'[x][y].cost <= m_routingTable[x][y].cost
  <2> DEFINE m == Head(m_nodeQueue[n][s])
             c == m.cost + LinkCost[n][s]
  <2>1. m_nodeQueue[n][s] \in Seq(RoutingMessage) /\ m_nodeQueue[n][s] # <<>>
    BY <1>4 DEF handleNewMessage, DVInv, TypeOK
  <2>2. m \in RoutingMessage
    BY <2>1, TailFacts
  <2>3. LinkCost[n][s] \in Nat
    BY LinksAssumption DEF Nodes
  <2>4. c \in Nat
    BY <2>2, <2>3 DEF RoutingMessage
  <2>5. updateRoutingTable(n, m.dest, c, s) \/ m_routingTable' = m_routingTable
    BY <1>4 DEF handleNewMessage
  <2> HIDE DEF m, c
  <2> QED BY <1>2, <1>3, <2>4, <2>5
<1> QED BY <1>2, <1>4
        DEF Next, Step, Broadcast, startNode, takeMessage,
            incConvergeCounter, decConvergeCounter, waitForConverge, vars

-----------------------------------------------------------------------------
(***************************************************************************)
(* The theorems.                                                           *)
(***************************************************************************)

\* The inductive invariant of the distance vector algorithm.
THEOREM DVInvariant == Spec => []DVInv
BY InitDV, NextDV, PTL DEF Spec

\* In every network the routing tables are loop free at every moment: along
\* next hops the cost falls strictly until the destination is reached, and
\* only routers are passed (updateRoutingTable, routeAndForwardPacket).
THEOREM LoopFree == Spec => []NextHopIsCloser
<1>1. DVInv => NextHopIsCloser
  BY DEF DVInv
<1> QED BY <1>1, DVInvariant, PTL

\* The values of tables, queues and counter: the counter wraps within its type.
THEOREM RoutingTypes == Spec => []TypeOK
<1>1. DVInv => TypeOK
  BY DEF DVInv
<1> QED BY <1>1, DVInvariant, PTL

-----------------------------------------------------------------------------
(***************************************************************************)
(* At rest the tables hold the shortest ways.  First, news spread.         *)
(***************************************************************************)

LEMMA CostTypes ==
  ASSUME TypeOK, NEW n \in Nodes, NEW d \in Nodes
  PROVE  m_routingTable[n][d].cost \in Nat
BY DEF TypeOK, Entry

\* A link stays known when the tables improve.
LEMMA LinksStayKnown ==
  ASSUME TypeOK, TypeOK', LinksKnown, Improves
  PROVE  LinksKnown'
<1> SUFFICES ASSUME NEW n \in Nodes, NEW m \in m_links(n)
             PROVE  m_routingTable'[n][m].known /\ m_routingTable'[n][m].cost <= LinkCost[n][m]
  BY DEF LinksKnown
<1>1. m \in Nodes /\ LinkCost[n][m] \in Nat
  BY LinkFacts
<1>2. m_routingTable[n][m].cost \in Nat /\ m_routingTable'[n][m].cost \in Nat
  BY <1>1, CostTypes DEF TypeOK, Entry
<1>3. m_routingTable[n][m].known /\ m_routingTable[n][m].cost <= LinkCost[n][m]
  BY DEF LinksKnown
<1>4. m_routingTable'[n][m].known /\ m_routingTable'[n][m].cost <= m_routingTable[n][m].cost
  BY <1>1, <1>3 DEF Improves
<1> QED BY <1>1, <1>2, <1>3, <1>4

LEMMA InitRest == Init => LinksKnown /\ NewsSpreads
<1> SUFFICES ASSUME Init PROVE LinksKnown /\ NewsSpreads
  OBVIOUS
<1>1. LinksKnown
  BY LinkFacts DEF Init, LinksKnown, m_links
<1>2. NewsSpreads
  BY DEF Init, NewsSpreads, Nodes
<1> QED BY <1>1, <1>2

LEMMA StartRest ==
  ASSUME RestInv, NEW n \in Nodes, startNode(n)
  PROVE  NewsSpreads'
<1> SUFFICES ASSUME NEW r \in Routers, NEW m \in m_links(r), NEW d \in Nodes,
                    m_isRunning'[r], m_routingTable'[r][d].known
             PROVE  HearsOf(m, r, d)'
  BY DEF NewsSpreads
<1>1. m_routingTable' = m_routingTable /\ m_nodeQueue' = m_nodeQueue
  BY DEF startNode
<1>2. CASE r = n
  <2>1. toSend'[r] = UNION {broadCastNewLink(n, e, m_routingTable[n][e].cost) :
                              e \in {f \in Nodes : m_routingTable[n][f].known}}
    BY <1>2 DEF startNode, RestInv, DVInv, TypeOK
  <2>2. [to |-> m, msg |-> [dest |-> d, cost |-> m_routingTable[r][d].cost]]
          \in broadCastNewLink(n, d, m_routingTable[n][d].cost)
    BY <1>2 DEF broadCastNewLink
  <2>3. [to |-> m, msg |-> [dest |-> d, cost |-> m_routingTable[r][d].cost]] \in toSend'[r]
    BY <1>1, <1>2, <2>1, <2>2
  <2> QED BY <1>1, <2>3 DEF HearsOf
<1>3. CASE r # n
  <2>1. m_isRunning[r] /\ toSend'[r] = toSend[r]
    BY <1>3 DEF startNode, RestInv, DVInv, TypeOK, Nodes
  <2>2. HearsOf(m, r, d)
    BY <1>1, <2>1 DEF RestInv, NewsSpreads
  <2> QED BY <1>1, <2>1, <2>2 DEF HearsOf
<1> QED BY <1>2, <1>3

LEMMA TakeRest ==
  ASSUME RestInv, NEW s \in Routers, takeMessage(s)
  PROVE  NewsSpreads'
<1> SUFFICES ASSUME NEW r \in Routers, NEW m \in m_links(r), NEW d \in Nodes,
                    m_isRunning'[r], m_routingTable'[r][d].known
             PROVE  HearsOf(m, r, d)'
  BY DEF NewsSpreads
<1>1. PICK o \in toSend[s] :
        /\ toSend' = [toSend EXCEPT ![s] = @ \ {o}]
        /\ m_nodeQueue' = [m_nodeQueue EXCEPT ![o.to][s] = Append(@, o.msg)]
  BY DEF takeMessage, nextToSend
<1>2. m_routingTable' = m_routingTable /\ m_isRunning' = m_isRunning
  BY DEF takeMessage
<1>3. HearsOf(m, r, d)
  BY <1>2 DEF RestInv, NewsSpreads
<1> DEFINE q == m_nodeQueue[m][r]
           news == [dest |-> d, cost |-> m_routingTable[r][d].cost]
<1>4. q \in Seq(RoutingMessage) /\ m \in Nodes /\ o.msg \in RoutingMessage /\ Len(q) \in Nat
  BY LinkFacts, LenProperties DEF RestInv, DVInv, TypeOK, Outgoing, Nodes
<1>5. m_nodeQueue'[m][r] = IF m = o.to /\ r = s THEN Append(q, o.msg) ELSE q
  BY <1>1, <1>4 DEF RestInv, DVInv, TypeOK
<1>6. /\ Len(Append(q, o.msg)) = Len(q) + 1
      /\ \A i \in 1 .. Len(q) : Append(q, o.msg)[i] = q[i]
      /\ Append(q, o.msg)[Len(q) + 1] = o.msg
  <2> HIDE DEF q
  <2> QED BY <1>4, AppendProperties
<1>7. CASE \E i \in 1 .. Len(q) : q[i] = news
  <2>1. \E i \in 1 .. Len(m_nodeQueue'[m][r]) : m_nodeQueue'[m][r][i] = news
    <3> HIDE DEF q, news
    <3> QED BY <1>4, <1>5, <1>6, <1>7
  <2> QED BY <1>2, <2>1 DEF HearsOf
<1>8. CASE [to |-> m, msg |-> news] \in toSend[r]
  <2>1. CASE r = s /\ o = [to |-> m, msg |-> news]
    <3>1. m_nodeQueue'[m][r] = Append(q, news)
      BY <1>5, <2>1
    <3>2. \E i \in 1 .. Len(m_nodeQueue'[m][r]) : m_nodeQueue'[m][r][i] = news
      <4>1. o.msg = news
        BY <2>1
      <4> HIDE DEF q, news
      <4> QED BY <1>4, <1>6, <3>1, <4>1
    <3> QED BY <1>2, <3>2 DEF HearsOf
  <2>2. CASE ~(r = s /\ o = [to |-> m, msg |-> news])
    <3>1. [to |-> m, msg |-> news] \in toSend'[r]
      BY <1>1, <1>8, <2>2 DEF RestInv, DVInv, TypeOK
    <3> QED BY <1>2, <3>1 DEF HearsOf
  <2> QED BY <2>1, <2>2
<1>9. CASE m_routingTable[m][d].known
             /\ m_routingTable[m][d].cost <= news.cost + LinkCost[m][r]
  BY <1>2, <1>9 DEF HearsOf
<1> QED BY <1>3, <1>7, <1>8, <1>9 DEF HearsOf

LEMMA HandleRest ==
  ASSUME RestInv, DVInv', NEW n \in Nodes, NEW s \in Routers, handleNewMessage(n, s), Improves
  PROVE  NewsSpreads'
<1> SUFFICES ASSUME NEW r \in Routers, NEW m \in m_links(r), NEW d \in Nodes,
                    m_isRunning'[r], m_routingTable'[r][d].known
             PROVE  HearsOf(m, r, d)'
  BY DEF NewsSpreads
<1> DEFINE q == m_nodeQueue[n][s]
           msg == Head(q)
           c == msg.cost + LinkCost[n][s]
           news == [dest |-> d, cost |-> m_routingTable[r][d].cost]
<1>1. q \in Seq(RoutingMessage) /\ q # <<>> /\ s \in Nodes /\ r \in Nodes /\ m \in Nodes
  BY LinkFacts DEF handleNewMessage, RestInv, DVInv, TypeOK, Nodes
<1>2. /\ msg = q[1] /\ msg \in RoutingMessage /\ Len(q) \in Nat
      /\ Len(Tail(q)) = Len(q) - 1
      /\ \A i \in 1 .. Len(Tail(q)) : Tail(q)[i] = q[i + 1]
  <2> HIDE DEF q
  <2> QED BY <1>1, TailFacts, HeadTailProperties, LenProperties
<1>3. /\ m_isRunning' = m_isRunning
      /\ m_nodeQueue'[m][r] = IF m = n /\ r = s THEN Tail(q) ELSE m_nodeQueue[m][r]
      /\ n \in Routers => toSend[n] = {}
  BY <1>1, ZenonT(60) DEF handleNewMessage, isWaiting, RestInv, DVInv, TypeOK
<1>4. /\ msg.dest \in Nodes /\ msg.cost \in Nat /\ LinkCost[n][s] \in Nat /\ c \in Nat
      /\ \A x, y \in Nodes : /\ m_routingTable[x][y].cost \in Nat
                             /\ m_routingTable'[x][y].cost \in Nat
      /\ LinkCost[m][r] \in Nat
  <2>1. msg.dest \in Nodes /\ msg.cost \in Nat
    BY <1>2 DEF RoutingMessage
  <2>2. LinkCost[n][s] \in Nat /\ LinkCost[m][r] \in Nat
    BY <1>1, LinkFacts
  <2>3. \A x, y \in Nodes : m_routingTable[x][y] \in Entry /\ m_routingTable'[x][y] \in Entry
    BY DEF RestInv, DVInv, TypeOK
  <2>4. \A x, y \in Nodes : /\ m_routingTable[x][y].cost \in Nat
                             /\ m_routingTable'[x][y].cost \in Nat
    BY <2>3 DEF Entry
  <2>5. c \in Nat
    BY <2>1, <2>2
  <2> QED BY <2>1, <2>2, <2>4, <2>5
<1>upd. \/ updateRoutingTable(n, msg.dest, c, s)
        \/ ~isBetter(n, msg.dest, c) /\ UNCHANGED <<m_routingTable, toSend>>
  BY DEF handleNewMessage
<1>5. CASE updateRoutingTable(n, msg.dest, c, s) /\ r = n /\ d = msg.dest
  <2>1. m_routingTable'[r][d] = [known |-> TRUE, cost |-> c, nextHop |-> s]
    BY <1>5 DEF updateRoutingTable, RestInv, DVInv, TypeOK
  <2>2. toSend'[r] = broadCastNewLink(r, d, c)
    BY <1>5 DEF updateRoutingTable, RestInv, DVInv, TypeOK
  <2>3. [to |-> m, msg |-> [dest |-> d, cost |-> c]] \in toSend'[r]
    BY <2>2 DEF broadCastNewLink
  <2> QED BY <2>1, <2>3 DEF HearsOf
<1>6. CASE ~(updateRoutingTable(n, msg.dest, c, s) /\ r = n /\ d = msg.dest)
  <2>1. m_routingTable'[r][d] = m_routingTable[r][d]
    <3>1. CASE updateRoutingTable(n, msg.dest, c, s)
      <4>1. m_routingTable' = [m_routingTable EXCEPT ![n][msg.dest] =
                                 [known |-> TRUE, cost |-> c, nextHop |-> s]]
        BY <3>1 DEF updateRoutingTable
      <4> HIDE DEF msg, c
      <4> QED BY <1>1, <1>4, <1>6, <3>1, <4>1 DEF RestInv, DVInv, TypeOK
    <3> QED BY <1>upd, <3>1
  <2>2. r # n => toSend'[r] = toSend[r]
    BY DEF handleNewMessage, updateRoutingTable, RestInv, DVInv, TypeOK
  <2>3. HearsOf(m, r, d)
    BY <1>3, <2>1 DEF RestInv, NewsSpreads
  <2>4. CASE m_routingTable[m][d].known
               /\ m_routingTable[m][d].cost <= news.cost + LinkCost[m][r]
    <3>1. m_routingTable'[m][d].known /\ m_routingTable'[m][d].cost <= m_routingTable[m][d].cost
      BY <1>1, <2>4 DEF Improves
    <3>2. m_routingTable'[m][d].cost <= m_routingTable'[r][d].cost + LinkCost[m][r]
      BY <1>1, <1>4, <2>1, <2>4, <3>1
    <3> QED BY <3>1, <3>2 DEF HearsOf
  <2>5. CASE [to |-> m, msg |-> news] \in toSend[r]
    <3>1. [to |-> m, msg |-> news] \in toSend'[r]
      BY <1>3, <2>2, <2>5
    <3> QED BY <2>1, <3>1 DEF HearsOf
  <2>6. ASSUME NEW i \in 1 .. Len(m_nodeQueue[m][r]), m_nodeQueue[m][r][i] = news
        PROVE  HearsOf(m, r, d)'
    <3>1. CASE ~(m = n /\ r = s)
      <4>1. m_nodeQueue'[m][r] = m_nodeQueue[m][r]
        BY <1>3, <3>1
      <4> QED BY <2>1, <2>6, <4>1 DEF HearsOf
    <3>2. CASE m = n /\ r = s /\ i # 1
      <4>1. i - 1 \in 1 .. Len(Tail(q)) /\ Tail(q)[i - 1] = news
        <5>1. i \in 1 .. Len(q) /\ q[i] = news
          BY <2>6, <3>2
        <5> HIDE DEF q, news
        <5> QED BY <1>2, <3>2, <5>1
      <4>2. \E j \in 1 .. Len(m_nodeQueue'[m][r]) : m_nodeQueue'[m][r][j] = news
        BY <1>3, <3>2, <4>1
      <4> QED BY <2>1, <4>2 DEF HearsOf
    <3>3. CASE m = n /\ r = s /\ i = 1
      <4>1. msg.dest = d /\ c = m_routingTable[r][d].cost + LinkCost[m][r]
        BY <1>2, <2>6, <3>3
      <4>2. CASE updateRoutingTable(n, msg.dest, c, s)
        <5>1. m_routingTable'[m][d] = [known |-> TRUE, cost |-> c, nextHop |-> s]
          BY <3>3, <4>1, <4>2 DEF updateRoutingTable, RestInv, DVInv, TypeOK
        <5> QED BY <1>4, <2>1, <4>1, <5>1 DEF HearsOf
      <4>3. CASE ~isBetter(n, msg.dest, c) /\ m_routingTable' = m_routingTable
        <5>1. m_routingTable[m][d].known /\ ~(m_routingTable[m][d].cost > c)
          BY <3>3, <4>1, <4>3 DEF isBetter
        <5>2. m_routingTable[m][d].cost <= c
          BY <1>1, <1>4, <5>1
        <5> QED BY <2>1, <4>1, <4>3, <5>1, <5>2 DEF HearsOf
      <4> QED BY <1>upd, <4>2, <4>3
    <3> QED BY <3>1, <3>2, <3>3
  <2> QED BY <2>3, <2>4, <2>5, <2>6 DEF HearsOf
<1> QED BY <1>5, <1>6

LEMMA CountRest ==
  ASSUME RestInv,
         \/ \E r \in Routers : incConvergeCounter(r)
         \/ \E n \in Nodes : decConvergeCounter(n)
         \/ waitForConverge
         \/ UNCHANGED vars
  PROVE  NewsSpreads'
<1>1. UNCHANGED <<m_routingTable, m_isRunning, m_nodeQueue, toSend>>
  BY DEF incConvergeCounter, decConvergeCounter, waitForConverge, vars
<1> QED BY <1>1 DEF RestInv, NewsSpreads, HearsOf

LEMMA NextRest == RestInv /\ [Next]_vars => RestInv'
<1> SUFFICES ASSUME RestInv, [Next]_vars PROVE RestInv'
  OBVIOUS
<1>1. DVInv' /\ Improves
  BY NextDV, NextImproves DEF RestInv
<1>2. LinksKnown'
  BY <1>1, LinksStayKnown DEF RestInv, DVInv
<1>3. ASSUME NEW n \in Nodes, startNode(n) PROVE NewsSpreads'
  BY <1>3, StartRest
<1>4. ASSUME NEW n \in Nodes, NEW s \in Routers, handleNewMessage(n, s) PROVE NewsSpreads'
  BY <1>1, <1>4, HandleRest
<1>5. ASSUME NEW r \in Routers, takeMessage(r) PROVE NewsSpreads'
  BY <1>5, TakeRest
<1>6. ASSUME \/ \E r \in Routers : incConvergeCounter(r)
             \/ \E n \in Nodes : decConvergeCounter(n)
             \/ waitForConverge
             \/ UNCHANGED vars
      PROVE  NewsSpreads'
  BY <1>6, CountRest
<1>7. NewsSpreads'
  BY <1>3, <1>4, <1>5, <1>6 DEF Next, Step, Broadcast
<1> QED BY <1>1, <1>2, <1>7 DEF RestInv

-----------------------------------------------------------------------------
(***************************************************************************)
(* At rest.                                                                *)
(***************************************************************************)

\* At rest a node can do at least as well as over any neighbour.
LEMMA RestEdges ==
  ASSUME RestInv, AtRest, NEW n \in Nodes, NEW j \in m_links(n) \cap Routers, NEW d \in Nodes,
         m_routingTable[j][d].known
  PROVE  /\ m_routingTable[n][d].known
         /\ m_routingTable[n][d].cost <= LinkCost[n][j] + m_routingTable[j][d].cost
<1>1. j \in Nodes /\ n \in m_links(j) /\ LinkCost[n][j] \in Nat
  BY LinkFacts
<1>2. m_isRunning[j] /\ toSend[j] = {} /\ m_nodeQueue[n][j] = <<>>
  BY <1>1 DEF AtRest, isWaiting
<1>3. HearsOf(n, j, d)
  BY <1>1, <1>2 DEF RestInv, NewsSpreads
<1>4. Len(m_nodeQueue[n][j]) = 0
  BY <1>2
<1>5. ~ \E i \in 1 .. Len(m_nodeQueue[n][j]) : TRUE
  BY <1>4
<1>6. /\ m_routingTable[n][d].known
      /\ m_routingTable[n][d].cost <= m_routingTable[j][d].cost + LinkCost[n][j]
  BY <1>2, <1>3, <1>5 DEF HearsOf
<1>7. m_routingTable[j][d].cost \in Nat
  BY <1>1, CostTypes DEF RestInv, DVInv
<1> QED BY <1>1, <1>6, <1>7

\* The ways with at most k + 1 links.
WaysWithin(k) == WaysOver(Links, Nodes, Routers)[k]

LEMMA LinksNetwork ==
  /\ Network(Links, Nodes, Routers)
  /\ \A n, m \in Nodes : \A c : c \in Links[n][m] <=> m \in m_links(n) /\ c = LinkCost[n][m]
<1>1. \A n, m \in Nodes : \A c : c \in Links[n][m] <=> m \in m_links(n) /\ c = LinkCost[n][m]
  BY DEF Links
<1>2. Links \in [Nodes -> [Nodes -> SUBSET Nat]]
  BY <1>1, LinkFacts DEF Links
<1> QED BY <1>1, <1>2, NodesAssumption DEF Network, Nodes

\* No way, however long, is shorter than what the table has.
LEMMA NoShorterWay ==
  ASSUME RestInv, AtRest
  PROVE  \A k \in Nat, n, d \in Nodes : \A c \in WaysWithin(k)[n][d] :
           m_routingTable[n][d].known /\ m_routingTable[n][d].cost <= c
<1> DEFINE Good(k) == \A n, d \in Nodes : \A c \in WaysWithin(k)[n][d] :
                        m_routingTable[n][d].known /\ m_routingTable[n][d].cost <= c
           T == {k \in Nat : Good(k)}
<1>1. 0 \in T
  <2>1. WaysWithin(0) = Links
    BY LinksNetwork, WaysDef DEF WaysWithin
  <2>2. ASSUME NEW n \in Nodes, NEW d \in Nodes, NEW c \in Links[n][d]
        PROVE  m_routingTable[n][d].known /\ m_routingTable[n][d].cost <= c
    <3>1. d \in m_links(n) /\ c = LinkCost[n][d]
      BY LinksNetwork
    <3> QED BY <3>1 DEF RestInv, LinksKnown
  <2> QED BY <2>1, <2>2
<1>2. ASSUME NEW k \in T PROVE k + 1 \in T
  <2> SUFFICES ASSUME NEW n \in Nodes, NEW d \in Nodes, NEW c \in WaysWithin(k + 1)[n][d]
               PROVE  m_routingTable[n][d].known /\ m_routingTable[n][d].cost <= c
    OBVIOUS
  <2>1. CASE c \in WaysWithin(k)[n][d]
    BY <2>1
  <2>2. ASSUME NEW j \in Routers, NEW l \in Links[n][j], NEW e \in WaysWithin(k)[j][d], c = l + e
        PROVE  m_routingTable[n][d].known /\ m_routingTable[n][d].cost <= c
    <3>1. j \in Nodes /\ j \in m_links(n) /\ l = LinkCost[n][j] /\ l \in Nat
      <4>1. j \in Nodes
        BY DEF Nodes
      <4>2. j \in m_links(n) /\ l = LinkCost[n][j]
        BY <4>1, LinksNetwork
      <4> QED BY <4>1, <4>2, LinkFacts
    <3>2. e \in Nat
      BY <3>1, LinksNetwork, WaysDef DEF WaysWithin
    <3>3. m_routingTable[j][d].known /\ m_routingTable[j][d].cost <= e
      BY <3>1
    <3>4. /\ m_routingTable[n][d].known
          /\ m_routingTable[n][d].cost <= LinkCost[n][j] + m_routingTable[j][d].cost
      BY <3>1, <3>3, RestEdges
    <3>5. m_routingTable[j][d].cost \in Nat /\ m_routingTable[n][d].cost \in Nat
      BY <3>1, CostTypes DEF RestInv, DVInv
    <3> QED BY <2>2, <3>1, <3>2, <3>3, <3>4, <3>5
  <2>3. \/ c \in WaysWithin(k)[n][d]
        \/ \E j \in Routers : \E l \in Links[n][j] : \E e \in WaysWithin(k)[j][d] : c = l + e
    BY LinksNetwork, WaysStep DEF WaysWithin
  <2> QED BY <2>1, <2>2, <2>3
<1>3. T = Nat
  <2> HIDE DEF T
  <2> QED BY <1>1, <1>2, InductionOverNat, T \in SUBSET Nat DEF T
<1> QED BY <1>3

\* What the table has is the cost of a way: the one over the next hops, each
\* of which is closer.
LEMMA WayExists ==
  ASSUME RestInv, AtRest, NEW d \in Nodes
  PROVE  \A n \in Nodes : m_routingTable[n][d].known =>
           \E k \in Nat : m_routingTable[n][d].cost \in WaysWithin(k)[n][d]
<1> DEFINE cost(n) == m_routingTable[n][d].cost
           IsWay(n) == \E k \in Nat : cost(n) \in WaysWithin(k)[n][d]
           Bad == {n \in Nodes : m_routingTable[n][d].known /\ ~IsWay(n)}
           Costs == {cost(n) : n \in Bad}
<1>1. \A n \in Nodes : cost(n) \in Nat
  BY CostTypes DEF RestInv, DVInv
<1>2. ASSUME Bad # {} PROVE FALSE
  <2>1. Costs \in SUBSET Nat /\ Costs # {}
    BY <1>1, <1>2
  <2>2. PICK n \in Bad : \A m \in Bad : cost(n) <= cost(m)
    <3>1. PICK x \in Costs : \A y \in Costs : x <= y
      <4> HIDE DEF Costs
      <4> QED BY <2>1, LeastNatural
    <3> QED BY <3>1
  <2>3. n \in Nodes /\ m_routingTable[n][d].known /\ ~IsWay(n)
    OBVIOUS
  <2> DEFINE h == m_routingTable[n][d].nextHop
  <2>4. /\ h \in m_links(n)
        /\ \/ h = d /\ cost(n) = LinkCost[n][d]
           \/ /\ h \in Routers /\ m_routingTable[h][d].known
              /\ cost(h) + LinkCost[n][h] <= cost(n)
    BY <2>3 DEF RestInv, DVInv, NextHopIsCloser
  <2>5. /\ h \in Nodes /\ LinkCost[n][h] \in Nat /\ LinkCost[n][h] > 0
        /\ LinkCost[n][h] \in Links[n][h]
    <3>1. h \in Nodes /\ LinkCost[n][h] \in Nat /\ LinkCost[n][h] > 0
      BY <2>3, <2>4, LinkFacts
    <3> HIDE DEF h
    <3> QED BY <2>3, <2>4, <3>1, LinksNetwork
  <2>6. CASE h = d /\ cost(n) = LinkCost[n][d]
    <3>1. cost(n) \in WaysWithin(0)[n][d]
      BY <2>5, <2>6, LinksNetwork, WaysDef DEF WaysWithin
    <3> QED BY <2>3, <3>1
  <2>7. CASE h \in Routers /\ m_routingTable[h][d].known /\ cost(h) + LinkCost[n][h] <= cost(n)
    <3>1. cost(n) = LinkCost[n][h] + cost(h) /\ cost(h) < cost(n)
      <4>1. cost(n) <= LinkCost[n][h] + cost(h)
        BY <2>3, <2>4, <2>7, RestEdges
      <4>2. cost(n) \in Nat /\ cost(h) \in Nat
        BY <1>1, <2>3, <2>5
      <4> HIDE DEF h, cost
      <4> QED BY <2>5, <2>7, <4>1, <4>2
    <3>2. h \notin Bad
      <4>1. cost(n) \in Nat /\ cost(h) \in Nat
        BY <1>1, <2>3, <2>5
      <4>2. \A m \in Bad : cost(n) <= cost(m)
        BY <2>2
      <4> HIDE DEF h, cost, Bad
      <4>3. ~(cost(n) <= cost(h))
        BY <3>1, <4>1
      <4> QED BY <4>2, <4>3, Zenon
    <3>3. PICK k \in Nat : cost(h) \in WaysWithin(k)[h][d]
      BY <2>5, <2>7, <3>2
    <3>4. cost(n) \in WaysWithin(k + 1)[n][d]
      <4> HIDE DEF h, cost
      <4> QED BY <2>3, <2>5, <2>7, <3>1, <3>3, LinksNetwork, WaysStep DEF WaysWithin
    <3> QED BY <2>3, <3>4, k + 1 \in Nat
  <2> QED BY <2>4, <2>6, <2>7
<1> QED BY <1>2

\* At rest every table holds the cost of a shortest way, in every network and
\* whatever the order of the messages was (Router and Host: handleNewMessage,
\* updateRoutingTable, broadCastNewLink).
THEOREM ShortestAtRest == Spec => []RestIsShortest
<1>1. Init => RestInv
  BY InitDV, InitRest DEF RestInv
<1>2. RestInv => RestIsShortest
  <2> SUFFICES ASSUME RestInv, AtRest, NEW n \in Nodes, NEW d \in Nodes
               PROVE  IF m_routingTable[n][d].known
                      THEN /\ m_routingTable[n][d].cost \in Ways[n][d]
                           /\ \A c \in Ways[n][d] : m_routingTable[n][d].cost <= c
                      ELSE Ways[n][d] = {}
    BY DEF RestIsShortest
  <2> DEFINE last == Cardinality(Nodes) - 1
  <2>1. last \in Nat
    <3>1. Cardinality(Nodes) \in Nat /\ Cardinality(Nodes) # 0
      BY NodesAssumption, FS_CardinalityType, FS_EmptySet
    <3> QED BY <3>1
  <2>2. Ways = WaysWithin(last)
    BY DEF Ways, AllWays, WaysWithin
  <2>3. \A c \in Ways[n][d] : m_routingTable[n][d].known /\ m_routingTable[n][d].cost <= c
    BY <2>1, <2>2, NoShorterWay
  <2>4. ASSUME m_routingTable[n][d].known PROVE m_routingTable[n][d].cost \in Ways[n][d]
    <3>1. PICK k \in Nat : m_routingTable[n][d].cost \in WaysWithin(k)[n][d]
      BY <2>4, WayExists
    <3>2. PICK b \in Ways[n][d] : b <= m_routingTable[n][d].cost
      BY <3>1, LinksNetwork, NoCircleNeeded DEF Ways, WaysWithin
    <3>3. b \in Nat
      BY <2>1, <2>2, LinksNetwork, WaysDef DEF WaysWithin
    <3>4. m_routingTable[n][d].cost <= b /\ m_routingTable[n][d].cost \in Nat
      BY <2>3, CostTypes DEF RestInv, DVInv
    <3> QED BY <3>2, <3>3, <3>4
  <2> QED BY <2>3, <2>4
<1> QED BY <1>1, <1>2, NextRest, PTL DEF Spec

-----------------------------------------------------------------------------
(***************************************************************************)
(* The counter of NetworkController counts the messages under way.         *)
(***************************************************************************)
queued == Cardinality(Queued)
handlers == Cardinality(Handlers)
uncounted == Cardinality(Uncounted)

LEMMA FiniteNodes ==
  /\ IsFiniteSet(Nodes) /\ IsFiniteSet(Routers)
  /\ IsFiniteSet(Nodes \X Routers)
<1>1. IsFiniteSet(Nodes) /\ Routers \subseteq Nodes
  BY NodesAssumption DEF Nodes
<1>2. IsFiniteSet(Routers)
  BY <1>1, FS_Subset
<1> QED BY <1>1, <1>2, FS_Product

\* One message more or less in the queue from s to n.
LEMMA QueuedChange ==
  ASSUME TypeOK, TypeOK', NEW n \in Nodes, NEW s \in Routers,
         \A m \in Nodes, r \in Routers :
           m # n \/ r # s => m_nodeQueue'[m][r] = m_nodeQueue[m][r]
  PROVE  /\ queued \in Nat /\ queued' \in Nat
         /\ queued' = queued - Len(m_nodeQueue[n][s]) + Len(m_nodeQueue'[n][s])
<1> DEFINE S == Nodes \X Routers
           f == [ns \in S |-> Len(m_nodeQueue[ns[1]][ns[2]])]
           g == [ns \in S |-> Len(m_nodeQueue'[ns[1]][ns[2]])]
           x == <<n, s>>
<1>1. f \in [S -> Nat] /\ g \in [S -> Nat]
  <2>1. ASSUME NEW ns \in S
        PROVE  Len(m_nodeQueue[ns[1]][ns[2]]) \in Nat /\ Len(m_nodeQueue'[ns[1]][ns[2]]) \in Nat
    <3>1. /\ m_nodeQueue[ns[1]][ns[2]] \in Seq(RoutingMessage)
          /\ m_nodeQueue'[ns[1]][ns[2]] \in Seq(RoutingMessage)
      BY DEF TypeOK
    <3> QED BY <3>1, LenProperties
  <2> QED BY <2>1
<1>2. Queued = Tokens(f, S) /\ Queued' = Tokens(g, S)
  BY DEF Queued, Tokens
<1>3. x \in S /\ f[x] = Len(m_nodeQueue[n][s]) /\ g[x] = Len(m_nodeQueue'[n][s])
  OBVIOUS
<1>4. \A y \in S \ {x} : g[y] = f[y]
  <2> SUFFICES ASSUME NEW y \in S, y # x PROVE g[y] = f[y]
    OBVIOUS
  <2>1. y = <<y[1], y[2]>> /\ y[1] \in Nodes /\ y[2] \in Routers
    OBVIOUS
  <2>2. m_nodeQueue'[y[1]][y[2]] = m_nodeQueue[y[1]][y[2]]
    BY <2>1
  <2> QED BY <2>2
<1> HIDE DEF f, g, S, x
<1>5. IsFiniteSet(S)
  BY FiniteNodes DEF S
<1>6. Cardinality(Tokens(g, S)) = Cardinality(Tokens(f, S)) - f[x] + g[x]
  <2>1. \A a, b \in [S -> Nat] :
          (\A y \in S \ {x} : b[y] = a[y]) =>
            Cardinality(Tokens(b, S)) = Cardinality(Tokens(a, S)) - a[x] + b[x]
    BY <1>3, <1>5, TokensChange
  <2> QED BY <1>1, <1>4, <2>1, Zenon
<1>7. Cardinality(Tokens(f, S)) \in Nat /\ Cardinality(Tokens(g, S)) \in Nat
  BY <1>1, <1>5, TokensFinite
<1> QED BY <1>2, <1>3, <1>6, <1>7 DEF queued

LEMMA HandlersChange ==
  ASSUME NEW n \in Nodes, inHandler \in [Nodes -> BOOLEAN], NEW b \in BOOLEAN,
         inHandler' = [inHandler EXCEPT ![n] = b], inHandler[n] = ~b
  PROVE  /\ handlers \in Nat /\ handlers' \in Nat
         /\ handlers' = IF b THEN handlers + 1 ELSE handlers - 1
<1> DEFINE Others == Handlers \ {n}
<1>1. IsFiniteSet(Others) /\ n \notin Others
  BY FiniteNodes, FS_Subset DEF Handlers
<1>2. Cardinality(Others \cup {n}) = Cardinality(Others) + 1 /\ Cardinality(Others) \in Nat
  BY <1>1, FS_AddElement, FS_CardinalityType
<1>3. /\ Handlers = IF b THEN Others ELSE Others \cup {n}
      /\ Handlers' = IF b THEN Others \cup {n} ELSE Others
  BY DEF Handlers
<1> HIDE DEF Others
<1> QED BY <1>2, <1>3 DEF handlers

LEMMA UncountedChange ==
  ASSUME NEW r \in Routers, toCount \in [Routers -> BOOLEAN], NEW b \in BOOLEAN,
         toCount' = [toCount EXCEPT ![r] = b], toCount[r] = ~b
  PROVE  /\ uncounted \in Nat /\ uncounted' \in Nat
         /\ uncounted' = IF b THEN uncounted + 1 ELSE uncounted - 1
<1> DEFINE Others == Uncounted \ {r}
<1>1. IsFiniteSet(Others) /\ r \notin Others
  BY FiniteNodes, FS_Subset DEF Uncounted
<1>2. Cardinality(Others \cup {r}) = Cardinality(Others) + 1 /\ Cardinality(Others) \in Nat
  BY <1>1, FS_AddElement, FS_CardinalityType
<1>3. /\ Uncounted = IF b THEN Others ELSE Others \cup {r}
      /\ Uncounted' = IF b THEN Others \cup {r} ELSE Others
  BY DEF Uncounted
<1> HIDE DEF Others
<1> QED BY <1>2, <1>3 DEF uncounted

LEMMA CountTypes ==
  ASSUME TypeOK
  PROVE  queued \in Nat /\ handlers \in Nat /\ uncounted \in Nat
<1> DEFINE S == Nodes \X Routers
           f == [ns \in S |-> Len(m_nodeQueue[ns[1]][ns[2]])]
<1>1. f \in [S -> Nat]
  <2>1. ASSUME NEW ns \in S PROVE Len(m_nodeQueue[ns[1]][ns[2]]) \in Nat
    <3>1. m_nodeQueue[ns[1]][ns[2]] \in Seq(RoutingMessage)
      BY DEF TypeOK
    <3> QED BY <3>1, LenProperties
  <2> QED BY <2>1
<1>2. Queued = Tokens(f, S)
  BY DEF Queued, Tokens
<1>3. queued \in Nat
  <2>1. IsFiniteSet(S)
    BY FiniteNodes
  <2> HIDE DEF f, S
  <2> QED BY <1>1, <1>2, <2>1, TokensFinite DEF queued
<1>4. IsFiniteSet(Handlers) /\ IsFiniteSet(Uncounted)
  BY FiniteNodes, FS_Subset DEF Handlers, Uncounted
<1> QED BY <1>3, <1>4, FS_CardinalityType DEF handlers, uncounted

\* Where both sides change by as much the counter goes on counting.
LEMMA StillCounts ==
  ASSUME TypeOK, CounterCounts, NEW i \in Int, NEW j \in Int,
         queued' \in Nat /\ handlers' \in Nat /\ uncounted' \in Nat,
         m_algConvergeCounter' = (m_algConvergeCounter + i) % CounterSize,
         uncounted' = uncounted + j,
         queued' + handlers' = queued + handlers + i + j
  PROVE  CounterCounts'
<1> DEFINE N == CounterSize
           c == m_algConvergeCounter
<1>1. N \in Nat \ {0} /\ c \in Int /\ queued \in Nat /\ handlers \in Nat /\ uncounted \in Nat
  BY CounterAssumption, CountTypes DEF TypeOK
<1>2. (c + uncounted) % N = (queued + handlers) % N
  BY DEF CounterCounts, queued, handlers, uncounted
<1>3. c + uncounted \in Int /\ queued + handlers \in Int /\ i + j \in Int /\ c + i \in Int
      /\ uncounted + j \in Int
  BY <1>1
<1>4. ((c + uncounted) + (i + j)) % N = ((queued + handlers) + (i + j)) % N
  <2> DEFINE a == c + uncounted
             b == queued + handlers
             d == i + j
  <2>1. a \in Int /\ b \in Int /\ d \in Int /\ a % N = b % N
    BY <1>2, <1>3
  <2> HIDE DEF a, b, d, N, c
  <2>2. (a + d) % N = (b + d) % N
    BY <1>1, <2>1, ModAdd, ZenonT(60)
  <2> QED BY <2>2 DEF a, b, d
<1>5. (((c + i) % N) + (uncounted + j)) % N = ((c + i) + (uncounted + j)) % N
  BY <1>1, <1>3, ModWrap
<1>6. (c + i) + (uncounted + j) = (c + uncounted) + (i + j)
      /\ (queued + handlers) + (i + j) = queued' + handlers'
  <2> HIDE DEF c, N
  <2>1. (c + i) + (uncounted + j) = (c + uncounted) + (i + j)
    BY <1>1
  <2>2. (queued + handlers) + (i + j) = queued + handlers + i + j
    BY <1>1
  <2> QED BY <2>1, <2>2
<1>7. (((c + i) % N) + uncounted') % N = (queued' + handlers') % N
  BY <1>4, <1>5, <1>6
<1> QED BY <1>7 DEF CounterCounts, queued, handlers, uncounted

LEMMA NothingCounted ==
  ASSUME TypeOK
  PROVE  m_algConvergeCounter = (m_algConvergeCounter + 0) % CounterSize
<1>1. m_algConvergeCounter \in 0 .. CounterSize - 1 /\ CounterSize \in Nat \ {0}
  BY CounterAssumption DEF TypeOK
<1>2. m_algConvergeCounter + 0 = m_algConvergeCounter
  BY <1>1
<1> QED BY <1>1, <1>2, ModSmall

LEMMA TakeCounts ==
  ASSUME TypeOK, TypeOK', CounterCounts, NEW r \in Routers, takeMessage(r)
  PROVE  CounterCounts'
<1>1. PICK o \in toSend[r] : m_nodeQueue' = [m_nodeQueue EXCEPT ![o.to][r] = Append(@, o.msg)]
  BY DEF takeMessage, nextToSend
<1>2. o.to \in Nodes /\ o.msg \in RoutingMessage
  BY DEF TypeOK, Outgoing
<1> DEFINE q == m_nodeQueue[o.to][r]
<1>3. q \in Seq(RoutingMessage) /\ m_nodeQueue'[o.to][r] = Append(q, o.msg)
  BY <1>1, <1>2 DEF TypeOK
<1>4. Len(q) \in Nat /\ Len(m_nodeQueue'[o.to][r]) = Len(q) + 1
  <2> HIDE DEF q
  <2> QED BY <1>2, <1>3, AppendProperties, LenProperties
<1>5. queued \in Nat /\ queued' \in Nat /\ queued' = queued + 1
  <2>1. \A m \in Nodes, s \in Routers :
          m # o.to \/ s # r => m_nodeQueue'[m][s] = m_nodeQueue[m][s]
    BY <1>1, <1>2 DEF TypeOK
  <2>2. /\ queued \in Nat /\ queued' \in Nat
        /\ queued' = queued - Len(q) + Len(m_nodeQueue'[o.to][r])
    BY <1>2, <2>1, QueuedChange
  <2> HIDE DEF q
  <2> QED BY <1>4, <2>2
<1>6. handlers' = handlers /\ m_algConvergeCounter' = m_algConvergeCounter
  BY DEF takeMessage, handlers, Handlers
<1>7. uncounted' = uncounted + 1 /\ uncounted' \in Nat
  <2>1. /\ toCount \in [Routers -> BOOLEAN] /\ toCount' = [toCount EXCEPT ![r] = TRUE]
        /\ toCount[r] = ~TRUE
    BY DEF takeMessage, TypeOK
  <2> QED BY <2>1, UncountedChange
<1>8. m_algConvergeCounter' = (m_algConvergeCounter + 0) % CounterSize
  BY <1>6, NothingCounted
<1> QED BY <1>5, <1>6, <1>7, <1>8, CountTypes, StillCounts

LEMMA HandleCounts ==
  ASSUME TypeOK, TypeOK', CounterCounts, NEW n \in Nodes, NEW s \in Routers,
         handleNewMessage(n, s)
  PROVE  CounterCounts'
<1> DEFINE q == m_nodeQueue[n][s]
<1>1. /\ q \in Seq(RoutingMessage) /\ q # <<>> /\ m_nodeQueue'[n][s] = Tail(q)
      /\ \A m \in Nodes, r \in Routers :
           m # n \/ r # s => m_nodeQueue'[m][r] = m_nodeQueue[m][r]
  BY DEF handleNewMessage, TypeOK
<1>2. Len(q) \in Nat /\ Len(m_nodeQueue'[n][s]) = Len(q) - 1
  <2> HIDE DEF q
  <2> QED BY <1>1, HeadTailProperties, LenProperties
<1>3. queued \in Nat /\ queued' \in Nat /\ queued' = queued - 1
  <2>1. /\ queued \in Nat /\ queued' \in Nat
        /\ queued' = queued - Len(q) + Len(m_nodeQueue'[n][s])
    BY <1>1, QueuedChange
  <2> HIDE DEF q
  <2> QED BY <1>2, <2>1
<1>4. handlers \in Nat /\ handlers' \in Nat /\ handlers' = handlers + 1
  <2>1. /\ inHandler \in [Nodes -> BOOLEAN] /\ inHandler' = [inHandler EXCEPT ![n] = TRUE]
        /\ inHandler[n] = ~TRUE
    BY DEF handleNewMessage, isWaiting, TypeOK
  <2> QED BY <2>1, HandlersChange
<1>5. uncounted' = uncounted /\ m_algConvergeCounter' = m_algConvergeCounter
  BY DEF handleNewMessage, uncounted, Uncounted
<1>6. m_algConvergeCounter' = (m_algConvergeCounter + 0) % CounterSize
  BY <1>5, NothingCounted
<1>7. uncounted' = uncounted + 0 /\ uncounted' \in Nat
        /\ queued' + handlers' = queued + handlers + 0 + 0
  BY <1>3, <1>4, <1>5, CountTypes
<1> QED BY <1>3, <1>4, <1>6, <1>7, StillCounts

LEMMA IncCounts ==
  ASSUME TypeOK, TypeOK', CounterCounts, NEW r \in Routers, incConvergeCounter(r)
  PROVE  CounterCounts'
<1>1. queued' = queued /\ handlers' = handlers
  BY DEF incConvergeCounter, queued, Queued, handlers, Handlers
<1>2. uncounted \in Nat /\ uncounted' \in Nat /\ uncounted' = uncounted - 1
  <2>1. /\ toCount \in [Routers -> BOOLEAN] /\ toCount' = [toCount EXCEPT ![r] = FALSE]
        /\ toCount[r] = ~FALSE
    BY DEF incConvergeCounter, TypeOK
  <2> QED BY <2>1, UncountedChange
<1>3. m_algConvergeCounter' = (m_algConvergeCounter + 1) % CounterSize
  BY DEF incConvergeCounter
<1>4. /\ queued' \in Nat /\ handlers' \in Nat /\ uncounted' = uncounted + (-1)
      /\ queued' + handlers' = queued + handlers + 1 + (-1)
  BY <1>1, <1>2, CountTypes
<1> QED BY <1>2, <1>3, <1>4, StillCounts

LEMMA DecCounts ==
  ASSUME TypeOK, TypeOK', CounterCounts, NEW n \in Nodes, decConvergeCounter(n)
  PROVE  CounterCounts'
<1>1. queued' = queued /\ uncounted' = uncounted
  BY DEF decConvergeCounter, queued, Queued, uncounted, Uncounted
<1>2. handlers \in Nat /\ handlers' \in Nat /\ handlers' = handlers - 1
  <2>1. /\ inHandler \in [Nodes -> BOOLEAN] /\ inHandler' = [inHandler EXCEPT ![n] = FALSE]
        /\ inHandler[n] = ~FALSE
    BY DEF decConvergeCounter, TypeOK
  <2> QED BY <2>1, HandlersChange
<1>3. m_algConvergeCounter' = (m_algConvergeCounter + (-1)) % CounterSize
  <2> DEFINE N == CounterSize
             c == m_algConvergeCounter
  <2>1. N \in Nat \ {0} /\ c \in Int
    BY CounterAssumption DEF TypeOK
  <2>2. (c + N - 1) - (c + (-1)) = N * 1 /\ c + N - 1 \in Int /\ c + (-1) \in Int
    BY <2>1
  <2>3. (c + N - 1) % N = (c + (-1)) % N
    <3> DEFINE a == c + N - 1
               b == c + (-1)
    <3> HIDE DEF N, c, a, b
    <3>1. \E k \in Int : a - b = N * k
      BY <2>2, 1 \in Int, Zenon DEF a, b
    <3>2. a \in Int /\ b \in Int
      BY <2>2 DEF a, b
    <3>3. a % N = b % N
      BY <2>1, <3>1, <3>2, Congruent
    <3> QED BY <3>3 DEF a, b
  <2> QED BY <2>3 DEF decConvergeCounter
<1>4. /\ queued' \in Nat /\ uncounted' \in Nat /\ uncounted' = uncounted + 0
      /\ queued' + handlers' = queued + handlers + (-1) + 0
  BY <1>1, <1>2, CountTypes
<1> QED BY <1>2, <1>3, <1>4, StillCounts

\* The counter of NetworkController, at every moment and although it wraps
\* around, is what it stands for: the messages in queues and handlers, less
\* those that takeMessage has handed over and incConvergeCounter has still to
\* count.
THEOREM CounterIsExact == Spec => []CounterCounts
<1>1. Init => CounterCounts
  <2> SUFFICES ASSUME Init PROVE CounterCounts
    OBVIOUS
  <2>1. Uncounted = {} /\ Handlers = {}
    BY DEF Init, Uncounted, Handlers
  <2>2. Queued = {}
    <3>1. ASSUME NEW ns \in Nodes \X Routers PROVE 1 .. Len(m_nodeQueue[ns[1]][ns[2]]) = {}
      <4>1. m_nodeQueue[ns[1]][ns[2]] = <<>>
        BY DEF Init
      <4>2. Len(m_nodeQueue[ns[1]][ns[2]]) = 0
        BY <4>1
      <4> QED BY <4>2
    <3> QED BY <3>1 DEF Queued
  <2>3. Cardinality({}) = 0 /\ m_algConvergeCounter = 0
    BY FS_EmptySet DEF Init
  <2> QED BY <2>1, <2>2, <2>3 DEF CounterCounts
<1>2. DVInv /\ DVInv' /\ CounterCounts /\ [Next]_vars => CounterCounts'
  <2> SUFFICES ASSUME DVInv, DVInv', CounterCounts, [Next]_vars PROVE CounterCounts'
    OBVIOUS
  <2> USE DEF DVInv
  <2>1. CASE (\E n \in Nodes : startNode(n)) \/ waitForConverge \/ UNCHANGED vars
    <3>1. UNCHANGED <<m_nodeQueue, toCount, inHandler, m_algConvergeCounter>>
      BY <2>1 DEF startNode, waitForConverge, vars
    <3> QED BY <3>1 DEF CounterCounts, Queued, Handlers, Uncounted
  <2>2. ASSUME NEW n \in Nodes, NEW s \in Routers, handleNewMessage(n, s) PROVE CounterCounts'
    BY <2>2, HandleCounts
  <2>3. ASSUME NEW n \in Nodes, decConvergeCounter(n) PROVE CounterCounts'
    BY <2>3, DecCounts
  <2>4. ASSUME NEW r \in Routers, takeMessage(r) PROVE CounterCounts'
    BY <2>4, TakeCounts
  <2>5. ASSUME NEW r \in Routers, incConvergeCounter(r) PROVE CounterCounts'
    BY <2>5, IncCounts
  <2> QED BY <2>1, <2>2, <2>3, <2>4, <2>5 DEF Next, Step, Broadcast
<1> QED BY <1>1, <1>2, DVInvariant, PTL DEF Spec
=============================================================================
