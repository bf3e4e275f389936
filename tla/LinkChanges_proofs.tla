-------------------------- MODULE LinkChanges_proofs --------------------------
(***************************************************************************)
(* Where packets go in every network, however its links change and however *)
(* the main thread and the nodes' own threads interleave: the proof of     *)
(* PacketsArrive from the inductive invariant LinkInv.  And no table       *)
(* promises more than there ever was, unless a message overtook its link:  *)
(* the proof of OnlyHalfLinksFlatter from FlatterInv.                      *)
(***************************************************************************)
EXTENDS LinkChanges, SequenceTheorems, ProofRules, TLAPS

Tables == [Nodes -> [Nodes -> Entry]]
Queues == [Nodes -> [Senders -> Seq(RoutingMessage)]]
Messages(q) == {q[i] : i \in 1..Len(q)}

\* What no step undoes: a known entry stays known, and gets no dearer unless it
\* is marked.
Grows ==
  /\ m_routingTable \in Tables /\ m_routingTable' \in Tables
  /\ raced \subseteq raced'
  /\ \A x, d \in Nodes : m_routingTable[x][d].known =>
       /\ m_routingTable'[x][d].known
       /\ <<x, d>> \in raced' \/ m_routingTable'[x][d].cost <= m_routingTable[x][d].cost

-----------------------------------------------------------------------------
\* The fields of an entry, of a call and of a message.
LEMMA EntryFacts ==
  ASSUME NEW table \in Tables, NEW x \in Nodes, NEW d \in Nodes
  PROVE  table[x][d].cost \in Nat /\ table[x][d].nextHop \in Nodes /\ table[x][d].known \in BOOLEAN
BY DEF Tables, Entry

LEMMA CallFacts ==
  ASSUME NEW c \in Call
  PROVE  /\ c.thread \in Threads /\ c.node \in Nodes /\ c.dest \in Nodes
         /\ c.cost \in Nat /\ c.nextHop \in Nodes
BY DEF Call

LEMMA MessageFacts ==
  ASSUME NEW m \in RoutingMessage
  PROVE  m.sender \in Routers /\ m.sender \in Nodes /\ m.dest \in Nodes /\ m.cost \in Nat
BY DEF RoutingMessage, Nodes

\* A queue without its oldest message.
LEMMA TailFacts ==
  ASSUME NEW S, NEW q \in Seq(S), q # <<>>
  PROVE  /\ Tail(q) \in Seq(S) /\ Head(q) = q[1] /\ q[1] \in S
         /\ 1 \in 1..Len(q)
         /\ \A i \in 1..Len(Tail(q)) : i + 1 \in 1..Len(q) /\ Tail(q)[i] = q[i + 1]
BY HeadTailProperties, EmptySeq, LenProperties, ElementOfSeq

\* What a router can do, and where a route leads, as long as tables only grow.
LEMMA HoldsStays ==
  ASSUME Grows, NEW r \in Nodes, NEW d \in Nodes, NEW cost \in Nat, Holds(r, d, cost)
  PROVE  Holds(r, d, cost)'
<1>1. m_routingTable[r][d].cost \in Nat /\ m_routingTable'[r][d].cost \in Nat
  BY EntryFacts DEF Grows
<1> QED
  BY <1>1 DEF Grows, Holds

LEMMA LeadsStays ==
  ASSUME Grows, NEW n \in Nodes, NEW d \in Nodes, NEW cost \in Nat, NEW nextHop \in Nodes,
         Leads(n, d, cost, nextHop)
  PROVE  Leads(n, d, cost, nextHop)'
<1>1. m_routingTable[nextHop][d].cost \in Nat /\ m_routingTable'[nextHop][d].cost \in Nat
  BY EntryFacts DEF Grows
<1> QED
  BY <1>1 DEF Grows, Leads

\* Where neither tables nor marks change.
LEMMA TablesStay ==
  ASSUME TypeOK, UNCHANGED <<m_routingTable, raced>>
  PROVE  /\ Grows
         /\ m_routingTable' \in Tables /\ raced' \in SUBSET (Nodes \X Nodes)
<1>1. m_routingTable \in Tables /\ m_routingTable' \in Tables
  BY DEF TypeOK, Tables
<1>2. \A x, d \in Nodes : m_routingTable[x][d].cost \in Nat
  BY <1>1, EntryFacts
<1> QED
  BY <1>1, <1>2 DEF Grows, TypeOK

LEMMA CirclesStay ==
  ASSUME CirclesRaced, UNCHANGED <<m_routingTable, raced>>
  PROVE  CirclesRaced'
BY DEF CirclesRaced

\* A call that goes on, or returns, is all that changes among the calls.
LEMMA MoveOn ==
  ASSUME LinkInv, NEW c \in calls, NEW at \in {"check", "write", "broadcast"},
         goOn(c, at) \/ return(c)
  PROVE  /\ calls' \in SUBSET Call
         /\ \A e \in calls' : \E b \in calls :
              /\ e.thread = b.thread /\ e.node = b.node /\ e.dest = b.dest
              /\ e.cost = b.cost /\ e.nextHop = b.nextHop
              /\ e = b \/ (b = c /\ e.at = at)
         /\ \A b, e \in calls' : b.thread = e.thread => b = e
<1> DEFINE new == [c EXCEPT !.at = at]
<1>1. c \in Call
  BY DEF LinkInv, TypeOK
<1>2. /\ new \in Call /\ new.at = at
      /\ new.thread = c.thread /\ new.node = c.node /\ new.dest = c.dest
      /\ new.cost = c.cost /\ new.nextHop = c.nextHop
  BY <1>1 DEF Call
<1> HIDE DEF new
<1>3. calls' \subseteq (calls \ {c}) \cup {new}
  BY DEF goOn, return, new
<1>4. calls' \in SUBSET Call
  BY <1>2, <1>3 DEF LinkInv, TypeOK
<1>5. ASSUME NEW e \in calls'
      PROVE  \E b \in calls :
               /\ e.thread = b.thread /\ e.node = b.node /\ e.dest = b.dest
               /\ e.cost = b.cost /\ e.nextHop = b.nextHop
               /\ e = b \/ (b = c /\ e.at = at)
  BY <1>2, <1>3
<1>6. \A b, e \in calls' : b.thread = e.thread => b = e
  BY <1>2, <1>3 DEF LinkInv, WritersInv
<1> QED
  BY <1>4, <1>5, <1>6

\* The calls still lead where they did.
LEMMA CallsLead ==
  ASSUME LinkInv, Grows,
         \A e \in calls' : \E b \in calls :
           e.node = b.node /\ e.dest = b.dest /\ e.cost = b.cost /\ e.nextHop = b.nextHop
  PROVE  \A e \in calls' : Leads(e.node, e.dest, e.cost, e.nextHop)'
<1> SUFFICES ASSUME NEW e \in calls' PROVE Leads(e.node, e.dest, e.cost, e.nextHop)'
  OBVIOUS
<1>1. PICK b \in calls :
        e.node = b.node /\ e.dest = b.dest /\ e.cost = b.cost /\ e.nextHop = b.nextHop
  OBVIOUS
<1>2. b \in Call /\ Leads(b.node, b.dest, b.cost, b.nextHop)
  BY DEF LinkInv, TypeOK, Descends
<1>3. Leads(b.node, b.dest, b.cost, b.nextHop)'
  BY <1>2, CallFacts, LeadsStays
<1> QED
  BY <1>1, <1>3

\* So do the entries that stay.
LEMMA EntriesLead ==
  ASSUME LinkInv, Grows, NEW n \in Nodes, NEW d \in Nodes,
         m_routingTable'[n][d] = m_routingTable[n][d], m_routingTable'[n][d].known
  PROVE  Leads(n, d, m_routingTable[n][d].cost, m_routingTable[n][d].nextHop)'
<1>1. Leads(n, d, m_routingTable[n][d].cost, m_routingTable[n][d].nextHop)
  BY DEF LinkInv, Descends
<1>2. m_routingTable[n][d].cost \in Nat /\ m_routingTable[n][d].nextHop \in Nodes
  BY EntryFacts DEF Grows
<1>3. PICK cost \in Nat, nextHop \in Nodes :
        cost = m_routingTable[n][d].cost /\ nextHop = m_routingTable[n][d].nextHop
  BY <1>2
<1>4. Leads(n, d, cost, nextHop)
  BY <1>1, <1>3
<1>5. Leads(n, d, cost, nextHop)'
  BY <1>4, LeadsStays
<1> QED
  BY <1>3, <1>5

-----------------------------------------------------------------------------
\* The heart of the argument: a write that is no race closes no circle without
\* one.  If it did, the nodes of the circle whose cost is no higher than the
\* new one, without the node itself, would have been such a circle before.
LEMMA WriteClosesNone ==
  ASSUME LinkInv, NEW c \in calls, writeEntry(c)
  PROVE  CirclesRaced'
<1> DEFINE n == c.node
           table == m_routingTable
<1>1. SUFFICES ASSUME NEW d \in Nodes, NEW S \in SUBSET (Nodes \ {d}), S # {},
                      \A x \in S : /\ m_routingTable'[x][d].known
                                   /\ m_routingTable'[x][d].nextHop \in S,
                      \A x \in S : <<x, d>> \notin raced'
               PROVE  FALSE
  BY DEF CirclesRaced
<1>2. /\ c \in Call /\ n \in Nodes /\ c.dest \in Nodes /\ c.cost \in Nat
      /\ c.nextHop \in Nodes /\ table \in Tables
  BY CallFacts DEF LinkInv, TypeOK, Tables
<1>3. /\ m_routingTable'[n][c.dest] = [known |-> TRUE, cost |-> c.cost, nextHop |-> c.nextHop]
      /\ \A x \in Nodes : ~(x = n /\ d = c.dest) => m_routingTable'[x][d] = table[x][d]
      /\ raced \subseteq raced'
      /\ isBetter(n, c.dest, c.cost) \/ <<n, c.dest>> \in raced'
  BY <1>2 DEF writeEntry, Tables
<1>4. ASSUME NEW T \in SUBSET (Nodes \ {d}), T \subseteq S, T # {},
             \A x \in T : table[x][d].known /\ table[x][d].nextHop \in T
      PROVE  FALSE
  <2>1. \E x \in T : <<x, d>> \in raced
    BY <1>4 DEF LinkInv, CirclesRaced
  <2> QED
    BY <2>1, <1>1, <1>3, <1>4
<1>5. CASE d # c.dest \/ n \notin S
  <2>1. \A x \in S : m_routingTable'[x][d] = table[x][d]
    BY <1>3, <1>5
  <2>2. \A x \in S : table[x][d].known /\ table[x][d].nextHop \in S
    BY <1>1, <2>1
  <2> QED
    BY <1>1, <1>4, <2>2
<1>6. CASE d = c.dest /\ n \in S
  <2> DEFINE e(x) == table[x][d]
             Low == {x \in S \ {n} : e(x).cost <= c.cost}
  <2>1. \A x \in S \ {n} : e(x).known /\ e(x).nextHop \in S
    BY <1>1, <1>3, <1>6
  <2>2. c.nextHop \in S /\ c.nextHop # d
    BY <1>1, <1>3, <1>6
  <2>3. isBetter(n, d, c.cost) /\ \A x \in S : <<x, d>> \notin raced
    BY <1>1, <1>3, <1>6
  <2>4. c.nextHop \in Low
    <3>1. Leads(n, d, c.cost, c.nextHop)
      BY <1>6 DEF LinkInv, Descends
    <3> QED
      BY <2>2, <2>3, <3>1 DEF Leads
  <2>5. \A x \in Nodes : e(x).cost \in Nat
    BY <1>2, EntryFacts
  <2>6. ~e(n).known \/ e(n).cost > c.cost
    BY <2>3 DEF isBetter
  <2>7. ASSUME NEW x \in Low PROVE e(x).known /\ e(x).nextHop \in Low
    <3> DEFINE y == e(x).nextHop
    <3>1. /\ x \in Nodes /\ e(x).cost <= c.cost
          /\ e(x).known /\ y \in S /\ y \in Nodes /\ y # d
      BY <2>1
    <3>2. e(y).known /\ e(y).cost <= e(x).cost
      <4>1. Leads(x, d, e(x).cost, y)
        BY <3>1 DEF LinkInv, Descends
      <4> HIDE DEF e, y
      <4> QED
        BY <3>1, <4>1, <2>3 DEF Leads, e
    <3> HIDE DEF e, y
    <3>3. e(y).cost <= c.cost
      BY <1>2, <2>5, <3>1, <3>2
    <3>4. y # n
      <4>1. SUFFICES ASSUME y = n PROVE FALSE
        OBVIOUS
      <4>2. e(n).known /\ e(n).cost <= c.cost /\ e(n).cost \in Nat
        BY <4>1, <3>1, <3>2, <3>3, <2>5
      <4> QED
        BY <1>2, <4>2, <2>6
    <3>5. y \in Low
      BY <3>1, <3>3, <3>4
    <3> QED
      BY <3>1, <3>5 DEF y
  <2>8. Low \in SUBSET (Nodes \ {d}) /\ Low \subseteq S /\ Low # {}
    BY <2>4
  <2> HIDE DEF Low
  <2>9. \A x \in Low : table[x][d].known /\ table[x][d].nextHop \in Low
    BY <2>7 DEF e
  <2> QED
    BY <1>4, <2>8, <2>9
<1> QED
  BY <1>5, <1>6

\* A write lets the tables grow, and nothing else.
LEMMA WriteGrows ==
  ASSUME LinkInv, NEW c \in calls, writeEntry(c)
  PROVE  /\ Grows
         /\ raced' \in SUBSET (Nodes \X Nodes)
         /\ m_routingTable'[c.node][c.dest]
              = [known |-> TRUE, cost |-> c.cost, nextHop |-> c.nextHop]
         /\ \A x, d \in Nodes : ~(x = c.node /\ d = c.dest) =>
              m_routingTable'[x][d] = m_routingTable[x][d]
<1>1. /\ c \in Call /\ c.node \in Nodes /\ c.dest \in Nodes /\ c.cost \in Nat
      /\ c.nextHop \in Nodes /\ m_routingTable \in Tables /\ raced \in SUBSET (Nodes \X Nodes)
  BY CallFacts DEF LinkInv, TypeOK, Tables
<1> DEFINE new == [known |-> TRUE, cost |-> c.cost, nextHop |-> c.nextHop]
<1>2. new \in Entry
  BY <1>1 DEF Entry
<1>3. m_routingTable' = [m_routingTable EXCEPT ![c.node][c.dest] = new]
  BY DEF writeEntry
<1> HIDE DEF new
<1>4. /\ m_routingTable' \in Tables
      /\ m_routingTable'[c.node][c.dest] = new
      /\ \A x, d \in Nodes : ~(x = c.node /\ d = c.dest) =>
           m_routingTable'[x][d] = m_routingTable[x][d]
  BY <1>1, <1>2, <1>3 DEF Tables
<1>5. /\ raced \subseteq raced' /\ raced' \in SUBSET (Nodes \X Nodes)
      /\ isBetter(c.node, c.dest, c.cost) \/ <<c.node, c.dest>> \in raced'
  BY <1>1 DEF writeEntry
<1>6. ASSUME NEW x \in Nodes, NEW d \in Nodes, m_routingTable[x][d].known
      PROVE  /\ m_routingTable'[x][d].known
             /\ <<x, d>> \in raced' \/ m_routingTable'[x][d].cost <= m_routingTable[x][d].cost
  <2>1. m_routingTable[x][d].cost \in Nat
    BY <1>1, EntryFacts
  <2>2. CASE x = c.node /\ d = c.dest
    BY <1>1, <1>4, <1>5, <1>6, <2>1, <2>2 DEF isBetter, new
  <2>3. CASE ~(x = c.node /\ d = c.dest)
    BY <1>4, <1>6, <2>1, <2>3
  <2> QED
    BY <2>2, <2>3
<1> QED
  BY <1>1, <1>4, <1>5, <1>6 DEF Grows, new

\* Messages still announce what their senders can do.
LEMMA MessagesHold ==
  ASSUME LinkInv, Grows, UNCHANGED m_nodeQueue
  PROVE  \A n \in Nodes, t \in Senders : \A i \in 1..Len(m_nodeQueue'[n][t]) :
           /\ m_nodeQueue'[n][t][i].sender # n
           /\ Holds(m_nodeQueue[n][t][i].sender, m_nodeQueue[n][t][i].dest,
                    m_nodeQueue[n][t][i].cost)'
<1> SUFFICES ASSUME NEW n \in Nodes, NEW t \in Senders, NEW i \in 1..Len(m_nodeQueue[n][t])
             PROVE  /\ m_nodeQueue[n][t][i].sender # n
                    /\ Holds(m_nodeQueue[n][t][i].sender, m_nodeQueue[n][t][i].dest,
                             m_nodeQueue[n][t][i].cost)'
  OBVIOUS
<1>1. m_nodeQueue[n][t][i] \in RoutingMessage
  BY ElementOfSeq DEF LinkInv, TypeOK
<1>2. PICK m \in RoutingMessage : m = m_nodeQueue[n][t][i]
  BY <1>1
<1>3. m.sender # n /\ Holds(m.sender, m.dest, m.cost)
  BY <1>2 DEF LinkInv, AnnouncementsHold
<1>4. Holds(m.sender, m.dest, m.cost)'
  BY <1>3, MessageFacts, HoldsStays
<1> QED
  BY <1>2, <1>3, <1>4

LEMMA WritePreserves ==
  ASSUME LinkInv, NEW c \in calls, writeEntry(c)
  PROVE  LinkInv'
<1>1. /\ c.at = "write"
      /\ IF c.node \in Routers THEN goOn(c, "broadcast") ELSE return(c)
      /\ UNCHANGED <<m_links, neighbours, m_nodeQueue, secondEnd, changes, lowest, halfLink>>
      /\ c \in Call /\ c.node \in Nodes /\ c.dest \in Nodes /\ c.cost \in Nat /\ c.nextHop \in Nodes
  BY CallFacts DEF writeEntry, LinkInv, TypeOK
<1>2. /\ Grows
      /\ raced' \in SUBSET (Nodes \X Nodes)
      /\ m_routingTable'[c.node][c.dest]
           = [known |-> TRUE, cost |-> c.cost, nextHop |-> c.nextHop]
      /\ \A x, d \in Nodes : ~(x = c.node /\ d = c.dest) =>
           m_routingTable'[x][d] = m_routingTable[x][d]
  BY WriteGrows
<1>3. /\ calls' \in SUBSET Call
      /\ \A e \in calls' : \E b \in calls :
           /\ e.thread = b.thread /\ e.node = b.node /\ e.dest = b.dest
           /\ e.cost = b.cost /\ e.nextHop = b.nextHop
           /\ e = b \/ (b = c /\ e.at = "broadcast" /\ c.node \in Routers)
      /\ \A b, e \in calls' : b.thread = e.thread => b = e
  <2>1. CASE c.node \in Routers
    BY <1>1, <2>1, MoveOn
  <2>2. CASE c.node \notin Routers
    <3>1. return(c)
      BY <1>1, <2>2
    <3>2. calls' \subseteq calls
      BY <3>1 DEF return
    <3> QED
      BY <3>2 DEF LinkInv, TypeOK, WritersInv
  <2> QED
    BY <2>1, <2>2
<1>4. TypeOK'
  BY <1>1, <1>2, <1>3 DEF LinkInv, TypeOK, Grows, Tables
<1>5. WritersInv'
  <2>1. \A e \in calls' : e.thread \in {e.node, Main}
    BY <1>3 DEF LinkInv, WritersInv
  <2>2. \A e \in calls' : e.thread = Main => e.dest \in neighbours'[e.node]
    BY <1>1, <1>3 DEF LinkInv, WritersInv
  <2>3. ASSUME NEW e \in calls', e.at = "write"
        PROVE  isBetter(e.node, e.dest, e.cost)' \/ e.dest \in neighbours'[e.node]
    <3>1. e \in calls
      BY <1>3, <2>3
    <3>2. isBetter(e.node, e.dest, e.cost) \/ e.dest \in neighbours[e.node]
      BY <2>3, <3>1 DEF LinkInv, WritersInv
    <3>3. CASE e.node = c.node /\ e.dest = c.dest
      <4>1. e # c
        <5>1. ASSUME e = c PROVE FALSE
          <6>1. e \in calls' /\ e.at # "broadcast"
            BY <2>3
          <6>2. c \notin calls'
            BY <1>1, <6>1, <5>1 DEF goOn, return, Call
          <6> QED
            BY <5>1, <6>1, <6>2
        <5> QED
          BY <5>1
      <4>2. e.thread # c.thread
        BY <3>1, <4>1 DEF LinkInv, WritersInv
      <4>3. e.thread = Main \/ c.thread = Main
        BY <3>1, <3>3, <4>2 DEF LinkInv, WritersInv
      <4> QED
        BY <1>1, <3>1, <3>3, <4>3 DEF LinkInv, WritersInv
    <3>4. CASE ~(e.node = c.node /\ e.dest = c.dest)
      <4>1. e.node \in Nodes /\ e.dest \in Nodes
        BY <3>1, CallFacts DEF LinkInv, TypeOK
      <4>2. m_routingTable'[e.node][e.dest] = m_routingTable[e.node][e.dest]
        BY <1>2, <3>4, <4>1
      <4> QED
        BY <1>1, <3>2, <4>2 DEF isBetter
    <3> QED
      BY <3>3, <3>4
  <2>4. ASSUME NEW e \in raced' PROVE e[2] \in neighbours'[e[1]]
    <3>1. CASE e \in raced
      BY <1>1, <3>1 DEF LinkInv, WritersInv
    <3>2. CASE e \notin raced
      <4>1. e = <<c.node, c.dest>> /\ ~isBetter(c.node, c.dest, c.cost)
        BY <3>2 DEF writeEntry
      <4>2. c.dest \in neighbours[c.node]
        BY <1>1, <4>1 DEF LinkInv, WritersInv
      <4> QED
        BY <1>1, <4>1, <4>2
    <3> QED
      BY <3>1, <3>2
  <2> QED
    BY <1>3, <2>1, <2>2, <2>3, <2>4 DEF WritersInv
<1>6. Leads(c.node, c.dest, c.cost, c.nextHop)'
  <2>1. Leads(c.node, c.dest, c.cost, c.nextHop)
    BY DEF LinkInv, Descends
  <2> QED
    BY <1>1, <1>2, <2>1, LeadsStays
<1>7. Descends'
  <2>1. ASSUME NEW n \in Nodes, NEW d \in Nodes, m_routingTable'[n][d].known
        PROVE  Leads(n, d, m_routingTable[n][d].cost, m_routingTable[n][d].nextHop)'
    <3>1. CASE n = c.node /\ d = c.dest
      BY <1>2, <1>6, <3>1
    <3>2. CASE ~(n = c.node /\ d = c.dest)
      BY <1>2, <2>1, <3>2, EntriesLead
    <3> QED
      BY <3>1, <3>2
  <2>2. \A e \in calls' : Leads(e.node, e.dest, e.cost, e.nextHop)'
    BY <1>2, <1>3, CallsLead
  <2> QED
    BY <2>1, <2>2 DEF Descends
<1>8. AnnouncementsHold'
  <2>1. ASSUME NEW e \in calls', e.at = "broadcast"
        PROVE  e.node \in Routers /\ Holds(e.node, e.dest, e.cost)'
    <3>1. PICK b \in calls :
            /\ e.node = b.node /\ e.dest = b.dest /\ e.cost = b.cost
            /\ e = b \/ (b = c /\ c.node \in Routers)
      BY <1>3
    <3>2. CASE e = b
      <4>1. e.node \in Routers /\ Holds(e.node, e.dest, e.cost)
        BY <2>1, <3>2 DEF LinkInv, AnnouncementsHold
      <4>2. e \in Call
        BY <1>3
      <4> QED
        BY <1>2, <4>1, <4>2, CallFacts, HoldsStays
    <3>3. CASE b = c /\ c.node \in Routers
      <4>1. Holds(c.node, c.dest, c.cost)'
        BY <1>1, <1>2 DEF Holds
      <4> QED
        BY <3>1, <3>3, <4>1
    <3> QED
      BY <3>1, <3>2, <3>3
  <2>2. /\ \A e \in secondEnd' : e[1] # e[2]
        /\ \A n \in Nodes : n \notin neighbours'[n]
    BY <1>1 DEF LinkInv, AnnouncementsHold
  <2>3. UNCHANGED m_nodeQueue
    BY <1>1
  <2> QED
    BY <1>2, <2>1, <2>2, <2>3, MessagesHold DEF AnnouncementsHold
<1> QED
  BY <1>4, <1>5, <1>7, <1>8, WriteClosesNone DEF LinkInv

\* The steps of a call that leave the tables alone: what there is to show.
LEMMA CallPreserves ==
  ASSUME LinkInv, NEW c \in calls, NEW at \in {"check", "write"},
         goOn(c, at) \/ return(c),
         UNCHANGED <<neighbours, m_routingTable, secondEnd, changes, halfLink, raced>>,
         m_links' \in [Nodes -> [Nodes -> SUBSET Nat]],
         m_nodeQueue' \in [Nodes -> [Senders -> Seq(RoutingMessage)]],
         \A n \in Nodes, t \in Senders : \A i \in 1..Len(m_nodeQueue'[n][t]) :
           /\ m_nodeQueue'[n][t][i].sender # n
           /\ Holds(m_nodeQueue[n][t][i].sender, m_nodeQueue[n][t][i].dest,
                    m_nodeQueue[n][t][i].cost)',
         goOn(c, at) /\ at = "write" => isBetter(c.node, c.dest, c.cost)
  PROVE  LinkInv'
<1>1. Grows
  BY TablesStay DEF LinkInv
<1>2. /\ calls' \in SUBSET Call
      /\ \A e \in calls' : \E b \in calls :
           /\ e.thread = b.thread /\ e.node = b.node /\ e.dest = b.dest
           /\ e.cost = b.cost /\ e.nextHop = b.nextHop
           /\ e = b \/ (b = c /\ e.at = at)
      /\ \A b, e \in calls' : b.thread = e.thread => b = e
  <2>1. at \in {"check", "write", "broadcast"}
    OBVIOUS
  <2> QED
    BY <2>1, MoveOn
<1>3. TypeOK'
  BY <1>2 DEF LinkInv, TypeOK
<1>4. WritersInv'
  <2>1. /\ \A e \in calls' : e.thread \in {e.node, Main}
        /\ \A e \in calls' : e.thread = Main => e.dest \in neighbours'[e.node]
        /\ \A e \in raced' : e[2] \in neighbours'[e[1]]
    <3>1. \A e \in calls' : e.thread \in {e.node, Main}
      BY <1>2 DEF LinkInv, WritersInv
    <3>2. \A e \in calls' : e.thread = Main => e.dest \in neighbours'[e.node]
      BY <1>2 DEF LinkInv, WritersInv
    <3>3. \A e \in raced' : e[2] \in neighbours'[e[1]]
      BY DEF LinkInv, WritersInv
    <3> QED
      BY <3>1, <3>2, <3>3
  <2>2. ASSUME NEW e \in calls', e.at = "write"
        PROVE  isBetter(e.node, e.dest, e.cost)' \/ e.dest \in neighbours'[e.node]
    <3>1. PICK b \in calls :
            /\ e.node = b.node /\ e.dest = b.dest /\ e.cost = b.cost
            /\ e = b \/ (b = c /\ e.at = at)
      BY <1>2
    <3>2. isBetter(b.node, b.dest, b.cost) \/ b.dest \in neighbours[b.node]
      <4>1. CASE e = b
        BY <2>2, <4>1 DEF LinkInv, WritersInv
      <4>2. CASE e # b
        <5>1. b = c /\ at = "write"
          BY <2>2, <3>1, <4>2
        <5>2. goOn(c, at) \/ e \in calls
          BY DEF return
        <5>3. CASE goOn(c, at)
          BY <5>1, <5>3
        <5>4. CASE e \in calls
          BY <2>2, <3>1, <5>4 DEF LinkInv, WritersInv
        <5> QED
          BY <5>2, <5>3, <5>4
      <4> QED
        BY <4>1, <4>2
    <3> QED
      BY <3>1, <3>2 DEF isBetter
  <2> QED
    BY <1>2, <2>1, <2>2 DEF WritersInv
<1>5. Descends'
  <2>1. ASSUME NEW n \in Nodes, NEW d \in Nodes, m_routingTable'[n][d].known
        PROVE  Leads(n, d, m_routingTable[n][d].cost, m_routingTable[n][d].nextHop)'
    BY <1>1, <2>1, EntriesLead
  <2>2. \A e \in calls' : Leads(e.node, e.dest, e.cost, e.nextHop)'
    BY <1>1, <1>2, CallsLead
  <2> QED
    BY <2>1, <2>2 DEF Descends
<1>6. AnnouncementsHold'
  <2>1. ASSUME NEW e \in calls', e.at = "broadcast"
        PROVE  e.node \in Routers /\ Holds(e.node, e.dest, e.cost)'
    <3>1. e \in calls
      BY <1>2, <2>1
    <3> QED
      BY <2>1, <3>1 DEF LinkInv, AnnouncementsHold, Holds
  <2>2. /\ \A e \in secondEnd' : e[1] # e[2]
        /\ \A n \in Nodes : n \notin neighbours'[n]
    BY DEF LinkInv, AnnouncementsHold
  <2> QED
    BY <2>1, <2>2 DEF AnnouncementsHold
<1> QED
  BY <1>3, <1>4, <1>5, <1>6, CirclesStay DEF LinkInv

LEMMA PlacePreserves ==
  ASSUME LinkInv, NEW c \in calls, placeLink(c)
  PROVE  LinkInv'
<1>1. /\ goOn(c, "check")
      /\ UNCHANGED <<neighbours, m_routingTable, m_nodeQueue, secondEnd, changes, halfLink, raced>>
  BY DEF placeLink
<1>2. c \in Call /\ c.cost \in Nat
  BY CallFacts DEF LinkInv, TypeOK
<1>3. m_links' \in [Nodes -> [Nodes -> SUBSET Nat]]
  BY <1>2 DEF placeLink, LinkInv, TypeOK
<1>4. m_nodeQueue' \in [Nodes -> [Senders -> Seq(RoutingMessage)]]
  BY <1>1 DEF LinkInv, TypeOK
<1>5. Grows
  BY <1>1, TablesStay DEF LinkInv
<1> QED
  BY <1>1, <1>3, <1>4, <1>5, "check" # "write", MessagesHold, CallPreserves

LEMMA CheckPreserves ==
  ASSUME LinkInv, NEW c \in calls, checkEntry(c)
  PROVE  LinkInv'
<1>1. UNCHANGED <<m_links, neighbours, m_routingTable, m_nodeQueue, secondEnd, changes,
                  halfLink, raced>>
  BY DEF checkEntry
<1>2. /\ m_links' \in [Nodes -> [Nodes -> SUBSET Nat]]
      /\ m_nodeQueue' \in [Nodes -> [Senders -> Seq(RoutingMessage)]]
  BY <1>1 DEF LinkInv, TypeOK
<1>3. Grows
  BY <1>1, TablesStay DEF LinkInv
<1>4. CASE isBetter(c.node, c.dest, c.cost) /\ goOn(c, "write")
  BY <1>1, <1>2, <1>3, <1>4, MessagesHold, CallPreserves
<1>5. CASE return(c)
  BY <1>1, <1>2, <1>3, <1>5, "check" # "write", MessagesHold, CallPreserves
<1> QED
  BY <1>4, <1>5 DEF checkEntry

\* What a broadcast announces is what the table it was made from holds.
LEMMA BroadcastHolds ==
  ASSUME LinkInv, NEW c \in calls, broadCastNewLink(c)
  PROVE  /\ m_nodeQueue' \in Queues
         /\ \A n \in Nodes, u \in Senders : \A i \in 1..Len(m_nodeQueue'[n][u]) :
              \/ /\ m_nodeQueue'[n][u][i].sender = c.node /\ n # c.node
                 /\ m_nodeQueue'[n][u][i].dest = c.dest /\ m_nodeQueue'[n][u][i].cost = c.cost
              \/ /\ i \in 1..Len(m_nodeQueue[n][u])
                 /\ m_nodeQueue'[n][u][i] = m_nodeQueue[n][u][i]
<1> DEFINE msg == [sender |-> c.node, dest |-> c.dest, cost |-> c.cost]
           t == c.thread
           more(n) == [m_nodeQueue[n] EXCEPT ![t] = Append(@, msg)]
<1>1. /\ c \in Call /\ c.node \in Routers /\ c.dest \in Nodes /\ c.cost \in Nat
      /\ c.at = "broadcast" /\ t \in Senders
  <2>1. c \in Call /\ c.node \in Routers /\ c.at = "broadcast"
    BY DEF broadCastNewLink, LinkInv, TypeOK, AnnouncementsHold
  <2>2. t \in Senders
    BY <2>1 DEF Senders, LinkInv, WritersInv
  <2> QED
    BY <2>1, <2>2, CallFacts
<1>2. msg \in RoutingMessage
  BY <1>1 DEF RoutingMessage
<1> HIDE DEF msg, t
<1>3. m_nodeQueue' = [n \in Nodes |-> IF n \in neighbours[c.node] THEN more(n) ELSE m_nodeQueue[n]]
  BY DEF broadCastNewLink, msg, t
<1>4. ASSUME NEW n \in Nodes
      PROVE  /\ m_nodeQueue[n] \in [Senders -> Seq(RoutingMessage)]
             /\ more(n) \in [Senders -> Seq(RoutingMessage)]
             /\ more(n)[t] = Append(m_nodeQueue[n][t], msg)
             /\ \A u \in Senders \ {t} : more(n)[u] = m_nodeQueue[n][u]
  <2>1. m_nodeQueue[n] \in [Senders -> Seq(RoutingMessage)]
    BY DEF LinkInv, TypeOK
  <2> QED
    BY <1>1, <1>2, <2>1
<1>5. m_nodeQueue' \in Queues
  <2> HIDE DEF more
  <2> QED
    BY <1>3, <1>4 DEF Queues
<1>6. ASSUME NEW n \in Nodes, NEW u \in Senders, NEW i \in 1..Len(m_nodeQueue'[n][u])
      PROVE  \/ n # c.node /\ m_nodeQueue'[n][u][i] = msg
             \/ /\ i \in 1..Len(m_nodeQueue[n][u])
                /\ m_nodeQueue'[n][u][i] = m_nodeQueue[n][u][i]
  <2>1. CASE n \in neighbours[c.node] /\ u = t
    <3>1. m_nodeQueue'[n][u] = Append(m_nodeQueue[n][u], msg)
      BY <1>3, <1>4, <2>1
    <3>2. m_nodeQueue[n][u] \in Seq(RoutingMessage)
      BY <1>4
    <3>3. n # c.node
      BY <2>1 DEF LinkInv, AnnouncementsHold
    <3> QED
      BY <1>2, <3>1, <3>2, <3>3
  <2>2. CASE ~(n \in neighbours[c.node] /\ u = t)
    <3>1. m_nodeQueue'[n][u] = m_nodeQueue[n][u]
      BY <1>3, <1>4, <2>2
    <3> QED
      BY <3>1
  <2> QED
    BY <2>1, <2>2
<1>7. msg.sender = c.node /\ msg.dest = c.dest /\ msg.cost = c.cost
  BY DEF msg
<1> QED
  BY <1>5, <1>6, <1>7

LEMMA BroadcastPreserves ==
  ASSUME LinkInv, NEW c \in calls, broadCastNewLink(c)
  PROVE  LinkInv'
<1>1. /\ return(c) /\ c.at = "broadcast"
      /\ UNCHANGED <<m_links, neighbours, m_routingTable, secondEnd, changes, halfLink, raced>>
  BY DEF broadCastNewLink
<1>2. m_links' \in [Nodes -> [Nodes -> SUBSET Nat]]
  BY <1>1 DEF LinkInv, TypeOK
<1>3. Holds(c.node, c.dest, c.cost)
  BY <1>1 DEF LinkInv, AnnouncementsHold
<1>4. /\ m_nodeQueue' \in [Nodes -> [Senders -> Seq(RoutingMessage)]]
      /\ \A n \in Nodes, t \in Senders : \A i \in 1..Len(m_nodeQueue'[n][t]) :
           /\ m_nodeQueue'[n][t][i].sender # n
           /\ Holds(m_nodeQueue[n][t][i].sender, m_nodeQueue[n][t][i].dest,
                    m_nodeQueue[n][t][i].cost)'
  <2>1. ASSUME NEW n \in Nodes, NEW t \in Senders, NEW i \in 1..Len(m_nodeQueue'[n][t])
        PROVE  /\ m_nodeQueue'[n][t][i].sender # n
               /\ Holds(m_nodeQueue'[n][t][i].sender, m_nodeQueue'[n][t][i].dest,
                        m_nodeQueue'[n][t][i].cost)
    BY <1>3, BroadcastHolds DEF LinkInv, AnnouncementsHold
  <2>2. m_nodeQueue' \in Queues
    BY BroadcastHolds
  <2> QED
    BY <1>1, <2>1, <2>2 DEF Queues, Holds
<1> QED
  BY <1>1, <1>2, <1>4, "check" # "write", CallPreserves

\* A thread that is free enters updateRoutingTable: what there is to show.
LEMMA EnterPreserves ==
  ASSUME LinkInv, NEW new \in Call, calls' = calls \cup {new}, isFree(new.thread),
         new.at \in {"link", "check"},
         new.thread \in {new.node, Main},
         new.thread = Main => new.dest \in neighbours'[new.node],
         Leads(new.node, new.dest, new.cost, new.nextHop),
         UNCHANGED <<m_links, m_routingTable, raced>>,
         neighbours' \in [Nodes -> SUBSET Nodes],
         \A n \in Nodes : neighbours[n] \subseteq neighbours'[n] /\ n \notin neighbours'[n],
         m_nodeQueue' \in [Nodes -> [Senders -> Seq(RoutingMessage)]],
         \A n \in Nodes, t \in Senders :
           Messages(m_nodeQueue'[n][t]) \subseteq Messages(m_nodeQueue[n][t]),
         secondEnd' \in SUBSET (Nodes \X Nodes \X Costs),
         \A e \in secondEnd' : e[1] # e[2],
         changes' \in 0..MaxChanges,
         halfLink' \in BOOLEAN
  PROVE  LinkInv'
<1>1. Grows
  BY TablesStay DEF LinkInv
<1>2. TypeOK'
  BY DEF LinkInv, TypeOK
<1>3. WritersInv'
  <2>1. \A b, e \in calls' : b.thread = e.thread => b = e
    BY DEF LinkInv, WritersInv, isFree
  <2>2. \A e \in calls' : e.thread \in {e.node, Main}
    BY DEF LinkInv, WritersInv
  <2>3. \A e \in calls : e.node \in Nodes
    BY CallFacts DEF LinkInv, TypeOK
  <2>4. \A e \in calls' : e.thread = Main => e.dest \in neighbours'[e.node]
    BY <2>3 DEF LinkInv, WritersInv
  <2>5. ASSUME NEW e \in calls', e.at = "write"
        PROVE  isBetter(e.node, e.dest, e.cost)' \/ e.dest \in neighbours'[e.node]
    <3>1. e \in calls
      BY <2>5
    <3>2. isBetter(e.node, e.dest, e.cost) \/ e.dest \in neighbours[e.node]
      BY <2>5, <3>1 DEF LinkInv, WritersInv
    <3> QED
      BY <2>3, <3>1, <3>2 DEF isBetter
  <2>6. \A e \in raced' : e[2] \in neighbours'[e[1]]
    <3>1. \A e \in raced : e[1] \in Nodes
      BY DEF LinkInv, TypeOK
    <3> QED
      BY <3>1 DEF LinkInv, WritersInv
  <2> QED
    BY <2>1, <2>2, <2>4, <2>5, <2>6 DEF WritersInv
<1>4. Descends'
  <2>1. ASSUME NEW n \in Nodes, NEW d \in Nodes, m_routingTable'[n][d].known
        PROVE  Leads(n, d, m_routingTable[n][d].cost, m_routingTable[n][d].nextHop)'
    BY <1>1, <2>1, EntriesLead
  <2>2. ASSUME NEW e \in calls' PROVE Leads(e.node, e.dest, e.cost, e.nextHop)'
    <3>1. Leads(e.node, e.dest, e.cost, e.nextHop) /\ e \in Call
      BY DEF LinkInv, TypeOK, Descends
    <3> QED
      BY <1>1, <3>1, CallFacts, LeadsStays
  <2> QED
    BY <2>1, <2>2 DEF Descends
<1>5. AnnouncementsHold'
  <2>1. ASSUME NEW e \in calls', e.at = "broadcast"
        PROVE  e.node \in Routers /\ Holds(e.node, e.dest, e.cost)'
    <3>1. e \in calls
      BY <2>1
    <3> QED
      BY <2>1, <3>1 DEF LinkInv, AnnouncementsHold, Holds
  <2>2. ASSUME NEW n \in Nodes, NEW t \in Senders, NEW i \in 1..Len(m_nodeQueue'[n][t])
        PROVE  /\ m_nodeQueue'[n][t][i].sender # n
               /\ Holds(m_nodeQueue[n][t][i].sender, m_nodeQueue[n][t][i].dest,
                        m_nodeQueue[n][t][i].cost)'
    <3>1. PICK j \in 1..Len(m_nodeQueue[n][t]) : m_nodeQueue'[n][t][i] = m_nodeQueue[n][t][j]
      <4>1. m_nodeQueue'[n][t][i] \in Messages(m_nodeQueue'[n][t])
        BY DEF Messages
      <4>2. m_nodeQueue'[n][t][i] \in Messages(m_nodeQueue[n][t])
        BY <4>1
      <4> QED
        BY <4>2 DEF Messages
    <3>2. /\ m_nodeQueue[n][t][j].sender # n
          /\ Holds(m_nodeQueue[n][t][j].sender, m_nodeQueue[n][t][j].dest,
                   m_nodeQueue[n][t][j].cost)
      BY DEF LinkInv, AnnouncementsHold
    <3> QED
      BY <3>1, <3>2 DEF Holds
  <2> QED
    BY <2>1, <2>2 DEF AnnouncementsHold
<1> QED
  BY <1>2, <1>3, <1>4, <1>5, CirclesStay DEF LinkInv

\* One end of a link, by either step of addLink.
LEMMA EndPreserves ==
  ASSUME LinkInv, NEW n \in Nodes, NEW m \in Nodes, n # m, NEW cost \in Costs,
         addToLink(n, m, cost),
         secondEnd' \in SUBSET (Nodes \X Nodes \X Costs),
         \A e \in secondEnd' : e[1] # e[2],
         changes' \in 0..MaxChanges
  PROVE  LinkInv'
<1> DEFINE new == [thread |-> Main, at |-> "link", node |-> n, dest |-> m,
                   cost |-> cost, nextHop |-> m]
<1>1. /\ new \in Call /\ new.thread = Main /\ new.node = n /\ new.dest = m
      /\ new.cost = cost /\ new.nextHop = m /\ new.at = "link"
  BY CostsAssumption DEF Call, Threads
<1>2. /\ calls' = calls \cup {new} /\ isFree(Main)
      /\ UNCHANGED <<m_links, m_routingTable, m_nodeQueue, halfLink, raced>>
  BY DEF addToLink
<1> HIDE DEF new
<1>3. /\ neighbours' \in [Nodes -> SUBSET Nodes]
      /\ m \in neighbours'[n]
      /\ \A k \in Nodes : neighbours[k] \subseteq neighbours'[k] /\ k \notin neighbours'[k]
  BY DEF addToLink, LinkInv, TypeOK, AnnouncementsHold
<1>4. Leads(n, m, cost, m)
  BY DEF Leads
<1>5. /\ m_nodeQueue' \in [Nodes -> [Senders -> Seq(RoutingMessage)]]
      /\ halfLink' \in BOOLEAN
  BY <1>2 DEF LinkInv, TypeOK
<1> QED
  BY <1>1, <1>2, <1>3, <1>4, <1>5, EnterPreserves

LEMMA AddLinkPreserves ==
  ASSUME LinkInv, NEW addr1 \in Nodes, NEW addr2 \in Nodes, NEW cost \in Costs,
         addLink(addr1, addr2, cost)
  PROVE  LinkInv'
<1>1. /\ addr1 # addr2 /\ addToLink(addr1, addr2, cost)
      /\ secondEnd' = {<<addr2, addr1, cost>>}
  BY DEF addLink
<1>2. changes' \in 0..MaxChanges
  BY ChangesAssumption DEF addLink, LinkInv, TypeOK
<1>3. /\ secondEnd' \in SUBSET (Nodes \X Nodes \X Costs)
      /\ \A e \in secondEnd' : e[1] # e[2]
  BY <1>1
<1> QED
  BY <1>1, <1>2, <1>3, EndPreserves

LEMMA OtherEndPreserves ==
  ASSUME LinkInv, otherEnd
  PROVE  LinkInv'
<1>1. PICK e \in secondEnd : addToLink(e[1], e[2], e[3])
  BY DEF otherEnd
<1>2. e[1] \in Nodes /\ e[2] \in Nodes /\ e[3] \in Costs /\ e[1] # e[2]
  BY DEF LinkInv, TypeOK, AnnouncementsHold
<1>3. /\ secondEnd' \in SUBSET (Nodes \X Nodes \X Costs)
      /\ \A x \in secondEnd' : x[1] # x[2]
      /\ changes' \in 0..MaxChanges
  BY DEF otherEnd, LinkInv, TypeOK
<1> QED
  BY <1>1, <1>2, <1>3, EndPreserves

LEMMA MinFacts ==
  ASSUME NEW S \in SUBSET Nat, S # {}
  PROVE  Min(S) \in S /\ \A y \in S : Min(S) <= y
<1>1. \E x \in S : \A y \in S : x <= y
  BY LeastNatural
<1> QED BY <1>1 DEF Min

\* The message that a thread takes, and the call that it makes of it.
LEMMA Taken ==
  ASSUME LinkInv, NEW n \in Nodes, NEW t \in Senders, handleNewMessage(n, t)
  PROVE  \E message \in RoutingMessage, new \in Call :
           /\ message = m_nodeQueue[n][t][1] /\ 1 \in 1..Len(m_nodeQueue[n][t])
           /\ betweenNodeCost(n, message.sender) \in Nat
           /\ new.thread = n /\ new.at = "check" /\ new.node = n /\ new.dest = message.dest
           /\ new.cost = message.cost + betweenNodeCost(n, message.sender)
           /\ new.nextHop = message.sender
           /\ calls' = calls \cup {new}
           /\ halfLink' \in BOOLEAN
           /\ ~halfLink' => ~halfLink /\ m_links[n][message.sender] # {}
<1> DEFINE message == Head(m_nodeQueue[n][t])
           cost == message.cost + betweenNodeCost(n, message.sender)
           new == [thread |-> n, at |-> "check", node |-> n, dest |-> message.dest,
                   cost |-> cost, nextHop |-> message.sender]
<1>1. m_nodeQueue[n][t] # <<>> /\ m_nodeQueue[n][t] \in Seq(RoutingMessage)
  BY DEF handleNewMessage, LinkInv, TypeOK
<1>2. message \in RoutingMessage /\ message = m_nodeQueue[n][t][1] /\ 1 \in 1..Len(m_nodeQueue[n][t])
  BY <1>1, TailFacts
<1>3. /\ calls' = calls \cup {new} /\ halfLink' \in BOOLEAN
      /\ ~halfLink' => ~halfLink /\ m_links[n][message.sender] # {}
  BY DEF handleNewMessage
<1> HIDE DEF message
<1>4. /\ message.sender \in Routers /\ message.sender \in Nodes
      /\ message.dest \in Nodes /\ message.cost \in Nat
  BY <1>2, MessageFacts
<1>5. betweenNodeCost(n, message.sender) \in Nat
  <2>1. m_links[n][message.sender] \in SUBSET Nat
    BY <1>4 DEF LinkInv, TypeOK
  <2> QED
    BY <2>1, MinFacts DEF betweenNodeCost
<1>6. cost \in Nat
  BY <1>4, <1>5
<1> HIDE DEF cost
<1>7. /\ new \in Call
      /\ new.thread = n /\ new.at = "check" /\ new.node = n /\ new.dest = message.dest
      /\ new.cost = cost /\ new.nextHop = message.sender
  BY <1>4, <1>6 DEF Call, Threads
<1> HIDE DEF new
<1> QED
  BY <1>2, <1>3, <1>5, <1>7 DEF cost

\* What is left in the queues was there before.
LEMMA RestOfQueues ==
  ASSUME LinkInv, NEW n \in Nodes, NEW t \in Senders, handleNewMessage(n, t)
  PROVE  /\ m_nodeQueue' \in [Nodes -> [Senders -> Seq(RoutingMessage)]]
         /\ \A k \in Nodes, u \in Senders :
              Messages(m_nodeQueue'[k][u]) \subseteq Messages(m_nodeQueue[k][u])
<1>1. /\ m_nodeQueue[n][t] # <<>> /\ m_nodeQueue[n][t] \in Seq(RoutingMessage)
      /\ m_nodeQueue' = [m_nodeQueue EXCEPT ![n][t] = Tail(@)]
      /\ m_nodeQueue \in [Nodes -> [Senders -> Seq(RoutingMessage)]]
  BY DEF handleNewMessage, LinkInv, TypeOK
<1>2. m_nodeQueue' \in [Nodes -> [Senders -> Seq(RoutingMessage)]]
  BY <1>1, TailFacts
<1>3. ASSUME NEW k \in Nodes, NEW u \in Senders
      PROVE  Messages(m_nodeQueue'[k][u]) \subseteq Messages(m_nodeQueue[k][u])
  <2>1. CASE k = n /\ u = t
    <3>1. m_nodeQueue'[k][u] = Tail(m_nodeQueue[n][t])
      BY <1>1, <2>1
    <3>2. \A i \in 1..Len(Tail(m_nodeQueue[n][t])) :
            /\ i + 1 \in 1..Len(m_nodeQueue[n][t])
            /\ Tail(m_nodeQueue[n][t])[i] = m_nodeQueue[n][t][i + 1]
      BY <1>1, TailFacts
    <3> QED
      BY <2>1, <3>1, <3>2 DEF Messages
  <2>2. CASE ~(k = n /\ u = t)
    BY <1>1, <2>2
  <2> QED
    BY <2>1, <2>2
<1> QED
  BY <1>2, <1>3

LEMMA HandlePreserves ==
  ASSUME LinkInv, NEW n \in Nodes, NEW t \in Senders, handleNewMessage(n, t)
  PROVE  LinkInv'
<1>1. PICK message \in RoutingMessage, new \in Call :
        /\ message = m_nodeQueue[n][t][1] /\ 1 \in 1..Len(m_nodeQueue[n][t])
        /\ betweenNodeCost(n, message.sender) \in Nat
        /\ new.thread = n /\ new.at = "check" /\ new.node = n /\ new.dest = message.dest
        /\ new.cost = message.cost + betweenNodeCost(n, message.sender)
        /\ new.nextHop = message.sender
        /\ calls' = calls \cup {new}
        /\ halfLink' \in BOOLEAN
        /\ ~halfLink' => ~halfLink /\ m_links[n][message.sender] # {}
  BY Taken
<1>2. /\ isFree(n)
      /\ UNCHANGED <<m_links, neighbours, m_routingTable, secondEnd, changes, lowest, raced>>
  BY DEF handleNewMessage
<1>3. message.sender # n /\ Holds(message.sender, message.dest, message.cost)
  BY <1>1 DEF LinkInv, AnnouncementsHold
<1>4. /\ message.sender \in Routers /\ message.sender \in Nodes
      /\ message.dest \in Nodes /\ message.cost \in Nat
  BY MessageFacts
<1>5. Leads(n, message.dest, new.cost, message.sender)
  <2>1. m_routingTable[message.sender][message.dest].cost \in Nat
    BY <1>4, EntryFacts DEF LinkInv, TypeOK, Tables
  <2>2. message.cost <= new.cost /\ new.cost \in Nat
    BY <1>1, <1>4
  <2>3. \/ <<message.sender, message.dest>> \in raced
        \/ m_routingTable[message.sender][message.dest].cost <= new.cost
    BY <1>3, <1>4, <2>1, <2>2 DEF Holds
  <2> QED
    BY <1>3, <1>4, <2>3 DEF Leads, Holds
<1>6. n # Main
  BY NodesAssumption
<1>7. /\ neighbours' \in [Nodes -> SUBSET Nodes]
      /\ \A k \in Nodes : neighbours[k] \subseteq neighbours'[k] /\ k \notin neighbours'[k]
      /\ secondEnd' \in SUBSET (Nodes \X Nodes \X Costs)
      /\ \A e \in secondEnd' : e[1] # e[2]
      /\ changes' \in 0..MaxChanges
      /\ halfLink' \in BOOLEAN
  BY <1>1, <1>2 DEF LinkInv, TypeOK, AnnouncementsHold
<1> QED
  BY <1>1, <1>2, <1>5, <1>6, <1>7, RestOfQueues, EnterPreserves

-----------------------------------------------------------------------------
\* In every network whose links change while it runs, with the main thread and a
\* node's own thread in updateRoutingTable at the same time: costs descend along
\* the next hops except into an entry that lost such a race, routers can do what
\* they announce with the same exception, only the entries of a node's own
\* neighbours can lose one, and every circle has lost one.
THEOREM LinkInvariant == Spec => []LinkInv
<1>1. Init => LinkInv
  <2>1. SUFFICES ASSUME Init PROVE LinkInv
    OBVIOUS
  <2>2. TypeOK
    <3>1. m_routingTable \in [Nodes -> [Nodes -> Entry]]
      BY <2>1 DEF Init, Entry, Unknown
    <3>2. m_nodeQueue \in [Nodes -> [Senders -> Seq(RoutingMessage)]]
      BY <2>1 DEF Init
    <3>3. m_links \in [Nodes -> [Nodes -> SUBSET Nat]] /\ neighbours \in [Nodes -> SUBSET Nodes]
      BY <2>1 DEF Init
    <3>4. /\ calls \in SUBSET Call /\ secondEnd \in SUBSET (Nodes \X Nodes \X Costs)
          /\ halfLink \in BOOLEAN /\ raced \in SUBSET (Nodes \X Nodes)
      BY <2>1, Zenon DEF Init
    <3>5. changes \in 0..MaxChanges
      BY <2>1, ChangesAssumption DEF Init
    <3> QED
      BY <3>1, <3>2, <3>3, <3>4, <3>5 DEF TypeOK
  <2>3. \A n, d \in Nodes : m_routingTable[n][d].known = FALSE
    BY <2>1 DEF Init, Unknown
  <2>4. Descends
    BY <2>1, <2>3 DEF Init, Descends
  <2>5. CirclesRaced
    BY <2>3 DEF CirclesRaced
  <2>6. AnnouncementsHold
    <3>1. \A n \in Nodes, t \in Senders : Len(m_nodeQueue[n][t]) = 0
      BY <2>1, EmptySeq DEF Init
    <3> QED
      BY <2>1, <3>1 DEF Init, AnnouncementsHold
  <2>7. WritersInv
    BY <2>1 DEF Init, WritersInv
  <2> QED
    BY <2>2, <2>4, <2>5, <2>6, <2>7 DEF LinkInv
<1>2. LinkInv /\ [Next]_vars => LinkInv'
  <2>1. SUFFICES ASSUME LinkInv, [Next]_vars PROVE LinkInv'
    OBVIOUS
  <2>2. CASE UNCHANGED vars
    <3>1. TypeOK' /\ WritersInv'
      BY <2>1, <2>2 DEF vars, LinkInv, TypeOK, WritersInv, isBetter
    <3>2. Descends' /\ CirclesRaced'
      BY <2>1, <2>2 DEF vars, LinkInv, Descends, Leads, CirclesRaced
    <3>3. AnnouncementsHold'
      BY <2>1, <2>2 DEF vars, LinkInv, AnnouncementsHold, Holds
    <3> QED
      BY <3>1, <3>2, <3>3 DEF LinkInv
  <2>3. ASSUME NEW addr1 \in Nodes, NEW addr2 \in Nodes, NEW cost \in Costs,
               addLink(addr1, addr2, cost)
        PROVE  LinkInv'
    BY <2>1, <2>3, AddLinkPreserves
  <2>4. CASE otherEnd
    BY <2>1, <2>4, OtherEndPreserves
  <2>5. ASSUME NEW n \in Nodes, NEW t \in Senders, handleNewMessage(n, t)
        PROVE  LinkInv'
    BY <2>1, <2>5, HandlePreserves
  <2>6. ASSUME NEW c \in calls,
               placeLink(c) \/ checkEntry(c) \/ writeEntry(c) \/ broadCastNewLink(c)
        PROVE  LinkInv'
    BY <2>1, <2>6, PlacePreserves, CheckPreserves, WritePreserves, BroadcastPreserves
  <2> QED
    BY <2>1, <2>2, <2>3, <2>4, <2>5, <2>6 DEF Next
<1> QED
  BY <1>1, <1>2, PTL DEF Spec

\* In every network, for every history of link changes: a packet always has a
\* next hop to follow, and if it goes round in a circle then past a node that is
\* linked to the destination itself and whose entry for it was overwritten by a
\* call of updateRoutingTable that had checked it too early.
THEOREM Arrival == Spec => []PacketsArrive
<1>1. ASSUME LinkInv PROVE PacketsArrive
  <2>1. \A n, d \in Nodes : m_routingTable[n][d].known =>
          \/ m_routingTable[n][d].nextHop = d
          \/ /\ m_routingTable[n][d].nextHop \in Routers
             /\ m_routingTable[m_routingTable[n][d].nextHop][d].known
    BY <1>1 DEF LinkInv, Descends, Leads
  <2>2. ASSUME NEW d \in Nodes, NEW S \in SUBSET (Nodes \ {d}), S # {},
               \A n \in S : m_routingTable[n][d].known /\ m_routingTable[n][d].nextHop \in S
        PROVE  \E n \in S : <<n, d>> \in raced /\ d \in neighbours[n]
    <3>1. PICK n \in S : <<n, d>> \in raced
      BY <1>1, <2>2 DEF LinkInv, CirclesRaced
    <3>2. d \in neighbours[n]
      BY <1>1, <3>1 DEF LinkInv, WritersInv
    <3> QED
      BY <3>1, <3>2
  <2> QED
    BY <2>1, <2>2 DEF PacketsArrive
<1> QED
  BY <1>1, LinkInvariant, PTL

-----------------------------------------------------------------------------
(***************************************************************************)
(* What the tables promise.                                                *)
(***************************************************************************)
Lowest == Network(lowest, Nodes, Routers)

\* Links only get cheaper at their lowest, and more of them.
Falls == \A n, m \in Nodes : \A c \in lowest[n][m] : \E b \in lowest'[n][m] : b <= c

LEMMA LowestNetwork ==
  /\ LowestKnown => Lowest
  /\ LowestKnown' => Lowest'
BY NodesAssumption DEF LowestKnown, Lowest, Network, Nodes

LEMMA LowestStays ==
  ASSUME LowestKnown, UNCHANGED lowest
  PROVE  Falls
<1>1. \A n, m \in Nodes : \A c \in lowest[n][m] : c \in Nat /\ c <= c
  BY DEF LowestKnown
<1> QED BY <1>1 DEF Falls

LEMMA LastIndex ==
  ASSUME NEW n \in Nodes
  PROVE  Cardinality(Nodes) - 1 \in Nat
<1>1. Cardinality(Nodes) \in Nat /\ Cardinality(Nodes) # 0
  BY NodesAssumption, FS_CardinalityType, FS_EmptySet
<1> QED BY <1>1

\* The costs of ways are numbers, before and after a step.
LEMMA WaysNat ==
  ASSUME NEW links, Network(links, Nodes, Routers), NEW n \in Nodes, NEW d \in Nodes
  PROVE  AllWays(links, Nodes, Routers)[n][d] \subseteq Nat
<1> DEFINE last == Cardinality(Nodes) - 1
           W == WaysOver(links, Nodes, Routers)
<1>1. last \in Nat
  BY LastIndex
<1>2. W \in [Nat -> [Nodes -> [Nodes -> SUBSET Nat]]]
  BY WaysDef
<1>3. AllWays(links, Nodes, Routers) = W[last]
  BY DEF AllWays
<1> HIDE DEF last, W
<1>4. W[last] \in [Nodes -> [Nodes -> SUBSET Nat]]
  BY <1>1, <1>2
<1> QED BY <1>3, <1>4

\* What is possible stays so, and is possible at any higher cost.
LEMMA PossibleStays ==
  ASSUME Lowest, Lowest', Falls, NEW n \in Nodes, NEW d \in Nodes, NEW cost \in Nat,
         Possible(n, d, cost)
  PROVE  Possible(n, d, cost)'
<1> DEFINE last == Cardinality(Nodes) - 1
<1>1. last \in Nat
  BY LastIndex
<1>2. PICK w \in AllWays(lowest, Nodes, Routers)[n][d] : w <= cost
  BY DEF Possible, Ways
<1>3. \A k \in Nat, i, j \in Nodes : \A e \in WaysOver(lowest, Nodes, Routers)[k][i][j] :
        \E b \in WaysOver(lowest', Nodes, Routers)[k][i][j] : b <= e
  BY WaysCheaper DEF Lowest, Falls
<1>4. PICK b \in AllWays(lowest', Nodes, Routers)[n][d] : b <= w
  <2> HIDE DEF last
  <2>1. /\ AllWays(lowest, Nodes, Routers) = WaysOver(lowest, Nodes, Routers)[last]
        /\ AllWays(lowest', Nodes, Routers) = WaysOver(lowest', Nodes, Routers)[last]
    BY DEF AllWays, last
  <2> QED BY <1>1, <1>2, <1>3, <2>1
<1>5. w \in Nat /\ b \in Nat
  <2>1. w \in Nat
    BY <1>2, WaysNat DEF Lowest
  <2>2. b \in Nat
    <3>1. Network(lowest', Nodes, Routers)
      BY DEF Lowest
    <3> QED BY <1>4, <3>1, WaysNat
  <2> QED BY <2>1, <2>2
<1>6. b <= cost
  BY <1>2, <1>4, <1>5
<1> QED BY <1>4, <1>6 DEF Possible, Ways

LEMMA PossibleDearer ==
  ASSUME Lowest, NEW n \in Nodes, NEW d \in Nodes, NEW low \in Nat, NEW cost \in Nat,
         Possible(n, d, low), low <= cost
  PROVE  Possible(n, d, cost)
<1>1. PICK w \in AllWays(lowest, Nodes, Routers)[n][d] : w <= low
  BY DEF Possible, Ways
<1>2. w \in Nat
  BY <1>1, WaysNat DEF Lowest
<1>3. w <= cost
  BY <1>1, <1>2
<1> QED BY <1>1, <1>3 DEF Possible, Ways

\* A link is a way, and a link to a router with a way makes a way.
LEMMA LinkPossible ==
  ASSUME Lowest, NEW n \in Nodes, NEW m \in Nodes, NEW l \in lowest[n][m], NEW cost \in Nat,
         l <= cost
  PROVE  Possible(n, m, cost)
<1>1. l \in WaysOver(lowest, Nodes, Routers)[0][n][m] /\ l \in Nat
  BY WaysDef DEF Lowest, Network
<1>2. PICK b \in AllWays(lowest, Nodes, Routers)[n][m] : b <= l
  BY <1>1, NoCircleNeeded DEF Lowest
<1>3. b \in Nat
  BY <1>2, WaysNat DEF Lowest
<1>4. b <= cost
  BY <1>1, <1>2, <1>3
<1> QED BY <1>2, <1>4 DEF Possible, Ways

LEMMA StepPossible ==
  ASSUME Lowest, NEW n \in Nodes, NEW s \in Routers, NEW d \in Nodes, NEW l \in lowest[n][s],
         NEW cost \in Nat, Possible(s, d, cost)
  PROVE  Possible(n, d, l + cost)
<1> DEFINE last == Cardinality(Nodes) - 1
<1>1. last \in Nat /\ s \in Nodes
  BY LastIndex DEF Nodes
<1>2. PICK w \in AllWays(lowest, Nodes, Routers)[s][d] : w <= cost
  BY DEF Possible, Ways
<1>3. w \in Nat /\ l \in Nat
  BY <1>1, <1>2, WaysNat DEF Lowest, Network
<1>4. w \in WaysOver(lowest, Nodes, Routers)[last][s][d]
  BY <1>2 DEF AllWays
<1>5. l + w \in WaysOver(lowest, Nodes, Routers)[last + 1][n][d]
  <2> HIDE DEF last
  <2> QED BY <1>1, <1>4, WaysStep DEF Lowest
<1>6. last + 1 \in Nat
  BY <1>1
<1>7. PICK b \in AllWays(lowest, Nodes, Routers)[n][d] : b <= l + w
  <2> HIDE DEF last
  <2> QED BY <1>5, <1>6, NoCircleNeeded DEF Lowest
<1>8. b \in Nat
  BY <1>7, WaysNat DEF Lowest
<1>9. b <= l + cost
  BY <1>2, <1>3, <1>7, <1>8
<1> QED BY <1>7, <1>9 DEF Possible, Ways

-----------------------------------------------------------------------------
\* What was promised before: by an entry, a call or a message.
Promised(n, d, cost) ==
  \/ m_routingTable[n][d].known /\ cost = m_routingTable[n][d].cost
  \/ \E c \in calls : n = c.node /\ d = c.dest /\ cost = c.cost
  \/ \E k \in Nodes, t \in Senders : \E m \in Messages(m_nodeQueue[k][t]) :
       n = m.sender /\ d = m.dest /\ cost = m.cost

LEMMA PromisedPossible ==
  ASSUME FlatterInv, LowestKnown', Falls, ~halfLink,
         NEW n \in Nodes, NEW d \in Nodes, NEW cost \in Nat, Promised(n, d, cost)
  PROVE  Possible(n, d, cost)'
<1>1. Possible(n, d, cost)
  BY DEF Promised, Messages, FlatterInv, PromisesInv, OnlyHalfLinksFlatter
<1>2. Lowest /\ Lowest'
  BY LowestNetwork DEF FlatterInv
<1> QED BY <1>1, <1>2, PossibleStays

\* A step after which nothing is promised that was not before, and that calls
\* nothing up that is not possible.
LEMMA StepFlat ==
  ASSUME FlatterInv, LinkInv', LowestKnown', Falls, ~halfLink' => ~halfLink,
         \A x, d \in Nodes : m_routingTable'[x][d].known =>
           Promised(x, d, m_routingTable'[x][d].cost),
         \A e \in calls' : Promised(e.node, e.dest, e.cost)
                             \/ (~halfLink' => Possible(e.node, e.dest, e.cost)'),
         \A k \in Nodes, t \in Senders : \A i \in 1..Len(m_nodeQueue'[k][t]) :
           Promised(m_nodeQueue'[k][t][i].sender, m_nodeQueue'[k][t][i].dest,
                    m_nodeQueue'[k][t][i].cost)
  PROVE  FlatterInv'
<1>1. ASSUME ~halfLink', NEW x \in Nodes, NEW d \in Nodes, m_routingTable'[x][d].known
      PROVE  Possible(x, d, m_routingTable[x][d].cost)'
  <2>1. PICK cost \in Nat : cost = m_routingTable'[x][d].cost
    BY EntryFacts DEF LinkInv, TypeOK, Tables
  <2>2. Promised(x, d, cost)
    BY <1>1, <2>1
  <2>3. Possible(x, d, cost)'
    BY <1>1, <2>2, PromisedPossible
  <2> QED BY <2>1, <2>3
<1>2. ASSUME ~halfLink', NEW e \in calls'
      PROVE  Possible(e.node, e.dest, e.cost)'
  <2>1. e.node \in Nodes /\ e.dest \in Nodes /\ e.cost \in Nat
    BY CallFacts DEF LinkInv, TypeOK
  <2>2. CASE Promised(e.node, e.dest, e.cost)
    BY <1>2, <2>1, <2>2, PromisedPossible
  <2>3. CASE Possible(e.node, e.dest, e.cost)'
    BY <2>3
  <2> QED BY <1>2, <2>2, <2>3
<1>3. ASSUME ~halfLink', NEW k \in Nodes, NEW t \in Senders, NEW i \in 1..Len(m_nodeQueue'[k][t])
      PROVE  Possible(m_nodeQueue[k][t][i].sender, m_nodeQueue[k][t][i].dest,
                      m_nodeQueue[k][t][i].cost)'
  <2>1. m_nodeQueue'[k][t][i] \in RoutingMessage
    BY ElementOfSeq DEF LinkInv, TypeOK
  <2>2. PICK m \in RoutingMessage : m = m_nodeQueue'[k][t][i]
    BY <2>1
  <2>3. Promised(m.sender, m.dest, m.cost)
    BY <2>2
  <2>4. Possible(m.sender, m.dest, m.cost)'
    BY <1>3, <2>3, MessageFacts, PromisedPossible
  <2> QED BY <2>2, <2>4
<1>4. OnlyHalfLinksFlatter'
  BY <1>1 DEF OnlyHalfLinksFlatter
<1>5. PromisesInv'
  BY <1>2, <1>3 DEF PromisesInv
<1> QED BY <1>4, <1>5 DEF FlatterInv

\* The tables and queues that a step leaves alone.
LEMMA SameTable ==
  ASSUME UNCHANGED m_routingTable
  PROVE  \A x, d \in Nodes : m_routingTable'[x][d].known =>
           Promised(x, d, m_routingTable'[x][d].cost)
BY DEF Promised

LEMMA FewerMessages ==
  ASSUME \A k \in Nodes, u \in Senders :
           Messages(m_nodeQueue'[k][u]) \subseteq Messages(m_nodeQueue[k][u])
  PROVE  \A k \in Nodes, t \in Senders : \A i \in 1..Len(m_nodeQueue'[k][t]) :
           Promised(m_nodeQueue'[k][t][i].sender, m_nodeQueue'[k][t][i].dest,
                    m_nodeQueue'[k][t][i].cost)
<1> SUFFICES ASSUME NEW k \in Nodes, NEW t \in Senders, NEW i \in 1..Len(m_nodeQueue'[k][t])
             PROVE  Promised(m_nodeQueue'[k][t][i].sender, m_nodeQueue'[k][t][i].dest,
                             m_nodeQueue'[k][t][i].cost)
  OBVIOUS
<1>1. m_nodeQueue'[k][t][i] \in Messages(m_nodeQueue'[k][t])
  BY DEF Messages
<1>2. m_nodeQueue'[k][t][i] \in Messages(m_nodeQueue[k][t])
  BY <1>1
<1> QED BY <1>2 DEF Promised

\* A call that goes on or returns promises what it did.
LEMMA SameCalls ==
  ASSUME LinkInv, NEW c \in calls, NEW at \in {"check", "write", "broadcast"},
         goOn(c, at) \/ return(c)
  PROVE  /\ \A e \in calls' : Promised(e.node, e.dest, e.cost)
         /\ \A e \in calls' : e.at = "link" => e \in calls
<1>1. \A e \in calls' : \E b \in calls :
        /\ e.node = b.node /\ e.dest = b.dest /\ e.cost = b.cost
        /\ e = b \/ (b = c /\ e.at = at)
  BY MoveOn
<1> QED BY <1>1 DEF Promised

LEMMA PlaceFlat ==
  ASSUME FlatterInv, LinkInv', NEW c \in calls, placeLink(c)
  PROVE  FlatterInv'
<1>1. /\ c.at = "link" /\ goOn(c, "check") /\ LinkInv /\ LowestKnown /\ TypeOK
      /\ UNCHANGED <<m_routingTable, m_nodeQueue, secondEnd, lowest, halfLink>>
      /\ m_links' = [m_links EXCEPT ![c.node][c.dest] = {c.cost}]
  BY DEF placeLink, FlatterInv, LinkInv
<1>2. /\ \A e \in calls' : Promised(e.node, e.dest, e.cost)
      /\ \A e \in calls' : e.at = "link" => e \in calls
  BY <1>1, SameCalls
<1>3. ASSUME NEW n \in Nodes, NEW m \in Nodes, NEW w \in m_links'[n][m]
      PROVE  \E l \in lowest[n][m] : l <= w
  <2>1. CASE n = c.node /\ m = c.dest
    <3>1. w = c.cost
      BY <1>1, <2>1 DEF TypeOK
    <3> QED BY <1>1, <2>1, <3>1 DEF LowestKnown
  <2>2. CASE ~(n = c.node /\ m = c.dest)
    <3>1. w \in m_links[n][m]
      BY <1>1, <2>2 DEF TypeOK
    <3> QED BY <1>1, <3>1 DEF LowestKnown
  <2> QED BY <2>1, <2>2
<1>4. LowestKnown'
  BY <1>1, <1>2, <1>3 DEF LowestKnown
<1> QED BY <1>1, <1>2, <1>4, LowestStays, SameTable, FewerMessages, StepFlat

\* A step of a call that changes no link.
LEMMA LowestOfCalls ==
  ASSUME LowestKnown, UNCHANGED <<m_links, secondEnd, lowest>>,
         \A e \in calls' : e.at = "link" => e \in calls
  PROVE  LowestKnown' /\ Falls
BY LowestStays DEF LowestKnown

LEMMA CheckFlat ==
  ASSUME FlatterInv, LinkInv', NEW c \in calls, checkEntry(c)
  PROVE  FlatterInv'
<1>1. /\ goOn(c, "write") \/ return(c)
      /\ LinkInv /\ LowestKnown
      /\ UNCHANGED <<m_links, m_routingTable, m_nodeQueue, secondEnd, lowest, halfLink>>
  BY DEF checkEntry, FlatterInv
<1>2. /\ \A e \in calls' : Promised(e.node, e.dest, e.cost)
      /\ \A e \in calls' : e.at = "link" => e \in calls
  BY <1>1, SameCalls
<1> QED BY <1>1, <1>2, LowestOfCalls, SameTable, FewerMessages, StepFlat

LEMMA WriteFlat ==
  ASSUME FlatterInv, LinkInv', NEW c \in calls, writeEntry(c)
  PROVE  FlatterInv'
<1>1. /\ goOn(c, "broadcast") \/ return(c)
      /\ LinkInv /\ LowestKnown
      /\ UNCHANGED <<m_links, m_nodeQueue, secondEnd, lowest, halfLink>>
  BY DEF writeEntry, FlatterInv
<1>2. /\ \A e \in calls' : Promised(e.node, e.dest, e.cost)
      /\ \A e \in calls' : e.at = "link" => e \in calls
  BY <1>1, SameCalls
<1>3. ASSUME NEW x \in Nodes, NEW d \in Nodes, m_routingTable'[x][d].known
      PROVE  Promised(x, d, m_routingTable'[x][d].cost)
  <2>1. /\ m_routingTable'[c.node][c.dest]
             = [known |-> TRUE, cost |-> c.cost, nextHop |-> c.nextHop]
        /\ ~(x = c.node /\ d = c.dest) => m_routingTable'[x][d] = m_routingTable[x][d]
    BY <1>1, WriteGrows
  <2> QED BY <1>3, <2>1 DEF Promised
<1> QED BY <1>1, <1>2, <1>3, LowestOfCalls, FewerMessages, StepFlat

LEMMA BroadcastFlat ==
  ASSUME FlatterInv, LinkInv', NEW c \in calls, broadCastNewLink(c)
  PROVE  FlatterInv'
<1>1. /\ return(c)
      /\ LinkInv /\ LowestKnown
      /\ UNCHANGED <<m_links, m_routingTable, secondEnd, lowest, halfLink>>
  BY DEF broadCastNewLink, FlatterInv
<1>2. /\ \A e \in calls' : Promised(e.node, e.dest, e.cost)
      /\ \A e \in calls' : e.at = "link" => e \in calls
  BY <1>1, SameCalls
<1>3. ASSUME NEW k \in Nodes, NEW t \in Senders, NEW i \in 1..Len(m_nodeQueue'[k][t])
      PROVE  Promised(m_nodeQueue'[k][t][i].sender, m_nodeQueue'[k][t][i].dest,
                      m_nodeQueue'[k][t][i].cost)
  <2>1. \/ /\ m_nodeQueue'[k][t][i].sender = c.node
           /\ m_nodeQueue'[k][t][i].dest = c.dest /\ m_nodeQueue'[k][t][i].cost = c.cost
        \/ /\ i \in 1..Len(m_nodeQueue[k][t])
           /\ m_nodeQueue'[k][t][i] = m_nodeQueue[k][t][i]
    BY <1>1, BroadcastHolds
  <2>2. CASE /\ i \in 1..Len(m_nodeQueue[k][t])
             /\ m_nodeQueue'[k][t][i] = m_nodeQueue[k][t][i]
    <3>1. m_nodeQueue'[k][t][i] \in Messages(m_nodeQueue[k][t])
      BY <2>2 DEF Messages
    <3> QED BY <3>1 DEF Promised
  <2> QED BY <2>1, <2>2 DEF Promised
<1> QED BY <1>1, <1>2, <1>3, LowestOfCalls, SameTable, StepFlat

-----------------------------------------------------------------------------
\* An end of a link: the lowest cost of the link is a way, and cheap enough.
LEMMA EndFlat ==
  ASSUME FlatterInv, LinkInv', Falls,
         NEW n \in Nodes, NEW m \in Nodes, NEW cost \in Costs, addToLink(n, m, cost),
         lowest' \in [Nodes -> [Nodes -> SUBSET Nat]],
         \E l \in lowest'[n][m] : l <= cost,
         \A e \in secondEnd' : \E l \in lowest'[e[1]][e[2]] : l <= e[3]
  PROVE  FlatterInv'
<1> DEFINE new == [thread |-> Main, at |-> "link", node |-> n, dest |-> m,
                   cost |-> cost, nextHop |-> m]
<1>1. /\ new.node = n /\ new.dest = m /\ new.cost = cost /\ cost \in Nat
      /\ calls' = calls \cup {new}
      /\ UNCHANGED <<m_links, m_routingTable, m_nodeQueue, halfLink>>
      /\ LowestKnown /\ TypeOK
  BY CostsAssumption DEF addToLink, FlatterInv, LinkInv
<1> HIDE DEF new
<1>2. LowestKnown'
  <2>1. ASSUME NEW i \in Nodes, NEW j \in Nodes, NEW w \in m_links'[i][j]
        PROVE  \E l \in lowest'[i][j] : l <= w
    <3>1. PICK l \in lowest[i][j] : l <= w
      BY <1>1 DEF LowestKnown
    <3>2. PICK b \in lowest'[i][j] : b <= l
      BY DEF Falls
    <3>3. w \in Nat /\ l \in Nat /\ b \in Nat
      BY <1>1 DEF TypeOK, LowestKnown
    <3>4. b <= w
      BY <3>1, <3>2, <3>3
    <3> QED BY <3>4
  <2>2. ASSUME NEW e \in calls', e.at = "link"
        PROVE  \E l \in lowest'[e.node][e.dest] : l <= e.cost
    <3>1. CASE e = new
      BY <1>1, <3>1
    <3>2. CASE e # new
      <4>1. e \in calls /\ e.node \in Nodes /\ e.dest \in Nodes /\ e.cost \in Nat
        BY <1>1, <3>2, CallFacts DEF TypeOK
      <4>2. PICK l \in lowest[e.node][e.dest] : l <= e.cost
        BY <1>1, <2>2, <4>1 DEF LowestKnown
      <4>3. PICK b \in lowest'[e.node][e.dest] : b <= l
        BY <4>1 DEF Falls
      <4>4. l \in Nat /\ b \in Nat
        BY <1>1, <4>1 DEF LowestKnown
      <4>5. b <= e.cost
        BY <4>1, <4>2, <4>3, <4>4
      <4> QED BY <4>5
    <3> QED BY <3>1, <3>2
  <2> QED BY <2>1, <2>2 DEF LowestKnown
<1>3. ASSUME NEW e \in calls'
      PROVE  Promised(e.node, e.dest, e.cost) \/ Possible(e.node, e.dest, e.cost)'
  <2>1. CASE e = new
    <3>1. PICK l \in lowest'[n][m] : l <= cost
      OBVIOUS
    <3>2. Lowest'
      BY <1>2, LowestNetwork
    <3>3. \E b \in AllWays(lowest', Nodes, Routers)[n][m] : b <= cost
      <4>1. Network(lowest', Nodes, Routers)
        BY <3>2 DEF Lowest
      <4>2. l \in WaysOver(lowest', Nodes, Routers)[0][n][m] /\ l \in Nat
        BY <4>1, WaysDef DEF Network
      <4>3. PICK b \in AllWays(lowest', Nodes, Routers)[n][m] : b <= l
        BY <4>1, <4>2, NoCircleNeeded
      <4>4. b \in Nat
        BY <4>1, <4>3, WaysNat
      <4>5. b <= cost
        BY <1>1, <3>1, <4>2, <4>3, <4>4
      <4> QED BY <4>5
    <3> QED BY <1>1, <2>1, <3>3 DEF Possible, Ways
  <2>2. CASE e # new
    <3>1. e \in calls
      BY <1>1, <2>2
    <3> QED BY <3>1 DEF Promised
  <2> QED BY <2>1, <2>2
<1> QED BY <1>1, <1>2, <1>3, SameTable, FewerMessages, StepFlat

LEMMA AddLinkFlat ==
  ASSUME FlatterInv, LinkInv', NEW addr1 \in Nodes, NEW addr2 \in Nodes, NEW cost \in Costs,
         addLink(addr1, addr2, cost)
  PROVE  FlatterInv'
<1> DEFINE S1 == lowest[addr1][addr2] \cup {cost}
           S2 == lowest[addr2][addr1] \cup {cost}
<1>1. /\ lowest \in [Nodes -> [Nodes -> SUBSET Nat]] /\ cost \in Nat /\ addr1 # addr2
      /\ addToLink(addr1, addr2, cost)
      /\ secondEnd' = {<<addr2, addr1, cost>>}
  BY CostsAssumption DEF FlatterInv, LowestKnown, addLink
<1>2. /\ Min(S1) \in Nat /\ \A y \in S1 : Min(S1) <= y
      /\ Min(S2) \in Nat /\ \A y \in S2 : Min(S2) <= y
  <2>1. S1 \in SUBSET Nat /\ S1 # {} /\ S2 \in SUBSET Nat /\ S2 # {}
    BY <1>1
  <2> HIDE DEF S1, S2
  <2> QED BY <2>1, MinFacts
<1>3. /\ lowest'[addr1][addr2] = {Min(S1)} /\ lowest'[addr2][addr1] = {Min(S2)}
      /\ \A n, m \in Nodes : ~(n = addr1 /\ m = addr2) /\ ~(n = addr2 /\ m = addr1) =>
           lowest'[n][m] = lowest[n][m]
  BY <1>1 DEF addLink
<1>4. lowest' \in [Nodes -> [Nodes -> SUBSET Nat]]
  BY <1>1, <1>2 DEF addLink
<1>5. Falls
  <2> HIDE DEF S1, S2
  <2>1. /\ \A y \in lowest[addr1][addr2] : Min(S1) <= y
        /\ \A y \in lowest[addr2][addr1] : Min(S2) <= y
    BY <1>2 DEF S1, S2
  <2> SUFFICES ASSUME NEW n \in Nodes, NEW m \in Nodes, NEW c \in lowest[n][m]
               PROVE  \E b \in lowest'[n][m] : b <= c
    BY DEF Falls
  <2>2. CASE (n = addr1 /\ m = addr2) \/ (n = addr2 /\ m = addr1)
    BY <1>3, <2>1, <2>2
  <2>3. CASE ~(n = addr1 /\ m = addr2) /\ ~(n = addr2 /\ m = addr1)
    <3>1. c \in lowest'[n][m] /\ c \in Nat
      BY <1>1, <1>3, <2>3
    <3> QED BY <3>1, c <= c
  <2> QED BY <2>2, <2>3
<1>6. Min(S1) <= cost /\ Min(S2) <= cost
  BY <1>2
<1> HIDE DEF S1, S2
<1>7. \E l \in lowest'[addr1][addr2] : l <= cost
  BY <1>3, <1>6
<1>8. \A e \in secondEnd' : \E l \in lowest'[e[1]][e[2]] : l <= e[3]
  BY <1>1, <1>3, <1>6
<1> QED BY <1>1, <1>4, <1>5, <1>7, <1>8, EndFlat

LEMMA OtherEndFlat ==
  ASSUME FlatterInv, LinkInv', otherEnd
  PROVE  FlatterInv'
<1>1. PICK e \in secondEnd : addToLink(e[1], e[2], e[3])
  BY DEF otherEnd
<1>2. /\ lowest' = lowest /\ secondEnd' = {} /\ LowestKnown
      /\ e[1] \in Nodes /\ e[2] \in Nodes /\ e[3] \in Costs
  BY DEF otherEnd, FlatterInv, LinkInv, TypeOK
<1>3. /\ \E l \in lowest'[e[1]][e[2]] : l <= e[3]
      /\ lowest' \in [Nodes -> [Nodes -> SUBSET Nat]]
      /\ \A x \in secondEnd' : \E l \in lowest'[x[1]][x[2]] : l <= x[3]
  BY <1>2 DEF LowestKnown
<1> QED BY <1>1, <1>2, <1>3, LowestStays, EndFlat

\* A message over a link that exists at this end: the link at its lowest and
\* the sender's way make a way.
LEMMA HandleFlat ==
  ASSUME FlatterInv, LinkInv', NEW n \in Nodes, NEW t \in Senders, handleNewMessage(n, t)
  PROVE  FlatterInv'
<1>1. LinkInv /\ LowestKnown /\ TypeOK
  BY DEF FlatterInv, LinkInv
<1>2. PICK message \in RoutingMessage, new \in Call :
        /\ message = m_nodeQueue[n][t][1] /\ 1 \in 1..Len(m_nodeQueue[n][t])
        /\ betweenNodeCost(n, message.sender) \in Nat
        /\ new.thread = n /\ new.at = "check" /\ new.node = n /\ new.dest = message.dest
        /\ new.cost = message.cost + betweenNodeCost(n, message.sender)
        /\ new.nextHop = message.sender
        /\ calls' = calls \cup {new}
        /\ halfLink' \in BOOLEAN
        /\ ~halfLink' => ~halfLink /\ m_links[n][message.sender] # {}
  BY <1>1, Taken
<1>3. UNCHANGED <<m_links, m_routingTable, secondEnd, lowest>>
  BY DEF handleNewMessage
<1>4. LowestKnown' /\ Lowest /\ Lowest' /\ Falls
  <2>1. \A e \in calls' : e.at = "link" => e \in calls
    BY <1>2
  <2> QED BY <1>1, <1>3, <2>1, LowestOfCalls, LowestNetwork
<1>5. /\ message.sender \in Routers /\ message.sender \in Nodes
      /\ message.dest \in Nodes /\ message.cost \in Nat
  BY MessageFacts
<1>6. ASSUME ~halfLink'
      PROVE  Possible(new.node, new.dest, new.cost)'
  <2> DEFINE s == message.sender
             b == betweenNodeCost(n, s)
  <2>1. ~halfLink /\ m_links[n][s] # {}
    BY <1>2, <1>6
  <2>2. Possible(s, message.dest, message.cost)
    BY <1>2, <2>1 DEF FlatterInv, PromisesInv
  <2>3. b \in m_links[n][s] /\ b \in Nat
    <3>1. m_links[n][s] \in SUBSET Nat /\ m_links[n][s] # {}
      BY <1>1, <1>5, <2>1 DEF TypeOK
    <3> HIDE DEF s
    <3> QED BY <3>1, MinFacts DEF betweenNodeCost
  <2> HIDE DEF b
  <2>4. PICK l \in lowest[n][s] : l <= b
    BY <1>1, <1>5, <2>3 DEF LowestKnown
  <2>5. l \in Nat
    BY <1>1, <1>5 DEF LowestKnown
  <2>6. Possible(n, message.dest, l + message.cost)
    BY <1>4, <1>5, <2>2, StepPossible
  <2>7. /\ new.cost = message.cost + b /\ new.cost \in Nat
        /\ l + message.cost \in Nat /\ l + message.cost <= new.cost
    BY <1>2, <1>5, <2>3, <2>4, <2>5 DEF b
  <2>8. PICK cost \in Nat : cost = new.cost
    BY <2>7
  <2>9. Possible(n, message.dest, cost)
    BY <1>4, <1>5, <2>6, <2>7, <2>8, PossibleDearer
  <2>10. Possible(n, message.dest, cost)'
    BY <1>4, <1>5, <2>9, PossibleStays
  <2> QED BY <1>2, <2>8, <2>10
<1>7. \A e \in calls' : Promised(e.node, e.dest, e.cost)
                          \/ (~halfLink' => Possible(e.node, e.dest, e.cost)')
  <2>1. \A e \in calls : Promised(e.node, e.dest, e.cost)
    BY DEF Promised
  <2> QED BY <1>2, <1>6, <2>1
<1>8. ~halfLink' => ~halfLink
  BY <1>2
<1> QED BY <1>1, <1>3, <1>4, <1>7, <1>8, RestOfQueues, SameTable, FewerMessages, StepFlat

\* In every network, for every history of link changes: a table promises no way
\* that is cheaper than the links ever allowed, unless a routing message came
\* over a link whose receiving end did not exist (operator[] of m_links in
\* handleNewMessage, the two steps of Network::addLink).  The race between the
\* two threads in updateRoutingTable can make no promise too good.
THEOREM NoneFlatter == Spec => []OnlyHalfLinksFlatter
<1>1. Init /\ LinkInv => FlatterInv
  <2> SUFFICES ASSUME Init, LinkInv PROVE FlatterInv
    OBVIOUS
  <2>1. LowestKnown
    BY DEF Init, LowestKnown
  <2>2. OnlyHalfLinksFlatter
    BY DEF Init, Unknown, OnlyHalfLinksFlatter
  <2>3. PromisesInv
    <3>1. \A n \in Nodes, t \in Senders : Len(m_nodeQueue[n][t]) = 0
      BY EmptySeq DEF Init
    <3> QED BY <3>1 DEF Init, PromisesInv
  <2> QED BY <2>1, <2>2, <2>3 DEF FlatterInv
<1>2. FlatterInv /\ LinkInv' /\ [Next]_vars => FlatterInv'
  <2> SUFFICES ASSUME FlatterInv, LinkInv', [Next]_vars PROVE FlatterInv'
    OBVIOUS
  <2>1. CASE UNCHANGED vars
    BY <2>1 DEF vars, FlatterInv, LowestKnown, PromisesInv, OnlyHalfLinksFlatter, Possible, Ways
  <2>2. ASSUME NEW addr1 \in Nodes, NEW addr2 \in Nodes, NEW cost \in Costs,
               addLink(addr1, addr2, cost)
        PROVE  FlatterInv'
    BY <2>2, AddLinkFlat
  <2>3. CASE otherEnd
    BY <2>3, OtherEndFlat
  <2>4. ASSUME NEW n \in Nodes, NEW t \in Senders, handleNewMessage(n, t) PROVE FlatterInv'
    BY <2>4, HandleFlat
  <2>5. ASSUME NEW c \in calls,
               placeLink(c) \/ checkEntry(c) \/ writeEntry(c) \/ broadCastNewLink(c)
        PROVE  FlatterInv'
    BY <2>5, PlaceFlat, CheckFlat, WriteFlat, BroadcastFlat
  <2> QED BY <2>1, <2>2, <2>3, <2>4, <2>5 DEF Next
<1>3. FlatterInv => OnlyHalfLinksFlatter
  BY DEF FlatterInv
<1> QED BY <1>1, <1>2, <1>3, LinkInvariant, PTL DEF Spec
=============================================================================
