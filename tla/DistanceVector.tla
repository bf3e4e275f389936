---------------------------- MODULE DistanceVector ----------------------------
(***************************************************************************)
(* The distance vector algorithm between the nodes of a network, from the  *)
(* moment Network::run has started their threads, and the counter of       *)
(* NetworkController by which Network::waitForConverge decides that it is  *)
(* over (Router.cpp, Host.cpp, AbstractNode.cpp, NetworkController.cpp).   *)
(*                                                                         *)
(* A node's thread is modelled at the grain at which the others can see    *)
(* it: each takeMessage of a broadcast, and each change of the counter     *)
(* under its lock, is a step of its own.                                   *)
(***************************************************************************)
EXTENDS Integers, Sequences, FiniteSets, ShortestWays

CONSTANTS
  Routers, Hosts,
  LinkCost,     \* LinkCost[n][m]: cost of the link between n and m, 0 if none
  CounterSize   \* number of values of m_algConvergeCounter (2^64)

Nodes == Routers \cup Hosts
m_links(n) == {m \in Nodes : LinkCost[n][m] > 0}

ASSUME NodesAssumption == Routers \cap Hosts = {} /\ IsFiniteSet(Nodes)
ASSUME LinksAssumption ==
  /\ LinkCost \in [Nodes -> [Nodes -> Nat]]
  /\ \A n, m \in Nodes : LinkCost[n][m] = LinkCost[m][n]
  /\ \A n \in Nodes : LinkCost[n][n] = 0
  /\ \A g, h \in Hosts : LinkCost[g][h] = 0
ASSUME CounterAssumption == CounterSize \in Nat \ {0}

VARIABLES
  m_routingTable,        \* m_routingTable[n][d]: the entry of n for d
  m_isRunning,           \* has the thread of n begun?
  m_nodeQueue,           \* m_nodeQueue[n][s]: from router s, oldest first
  toSend,                \* messages a broadcast of r has still to send
  toCount,               \* r has sent a message and not yet counted it
  inHandler,             \* n is in handleNewMessage
  m_algConvergeCounter,
  converged              \* waitForConverge has returned

vars == <<m_routingTable, m_isRunning, m_nodeQueue, toSend, toCount,
          inHandler, m_algConvergeCounter, converged>>

Entry == [known : BOOLEAN, cost : Nat, nextHop : Nodes]
RoutingMessage == [dest : Nodes, cost : Nat]
Outgoing == [to : Nodes, msg : RoutingMessage]

\* A destination that m_routingTable does not contain.
Unknown(n) == [known |-> FALSE, cost |-> 0, nextHop |-> n]

-----------------------------------------------------------------------------
\* The links have been added, the threads are created and none has begun.
Init ==
  /\ m_routingTable =
       [n \in Nodes |-> [d \in Nodes |->
          IF LinkCost[n][d] > 0
          THEN [known |-> TRUE, cost |-> LinkCost[n][d], nextHop |-> d]
          ELSE Unknown(n)]]
  /\ m_isRunning = [n \in Nodes |-> FALSE]
  /\ m_nodeQueue = [n \in Nodes |-> [s \in Routers |-> <<>>]]
  /\ toSend = [r \in Routers |-> {}]
  /\ toCount = [r \in Routers |-> FALSE]
  /\ inHandler = [n \in Nodes |-> FALSE]
  /\ m_algConvergeCounter = 0
  /\ converged = FALSE

\* The messages of broadCastNewLink for one destination.
broadCastNewLink(r, dest, updatedCost) ==
  {[to |-> n, msg |-> [dest |-> dest, cost |-> updatedCost]] : n \in m_links(r)}

\* The thread of a node begins; a router's first broadcasts its whole table.
startNode(n) ==
  /\ ~m_isRunning[n]
  /\ m_isRunning' = [m_isRunning EXCEPT ![n] = TRUE]
  /\ toSend' =
       IF n \in Routers
       THEN [toSend EXCEPT ![n] =
               UNION {broadCastNewLink(n, d, m_routingTable[n][d].cost) :
                        d \in {e \in Nodes : m_routingTable[n][e].known}}]
       ELSE toSend
  /\ UNCHANGED <<m_routingTable, m_nodeQueue, toCount, inHandler,
                 m_algConvergeCounter, converged>>

\* The thread of n waits for a message.
isWaiting(n) ==
  /\ m_isRunning[n]
  /\ ~inHandler[n]
  /\ n \in Routers => toSend[n] = {} /\ ~toCount[n]

\* The messages a broadcast may send next. One destination is finished
\* before the next is begun, the hosts come before the routers; the order of
\* the destinations, and of the neighbours of one kind, is that of the hash
\* maps, which the code does not choose.
nextToSend(r) ==
  {o \in toSend[r] :
     /\ \A p \in toSend[r] :
          \/ p.msg = o.msg
          \/ broadCastNewLink(r, p.msg.dest, p.msg.cost) \subseteq toSend[r]
     /\ \A p \in toSend[r] : p.msg = o.msg /\ p.to \in Hosts => o.to \in Hosts}

\* A broadcast hands the next message to a neighbour ...
takeMessage(r) ==
  /\ ~toCount[r]
  /\ \E o \in nextToSend(r) :
       /\ toSend' = [toSend EXCEPT ![r] = @ \ {o}]
       /\ m_nodeQueue' = [m_nodeQueue EXCEPT ![o.to][r] = Append(@, o.msg)]
  /\ toCount' = [toCount EXCEPT ![r] = TRUE]
  /\ UNCHANGED <<m_routingTable, m_isRunning, inHandler,
                 m_algConvergeCounter, converged>>

\* Mutant: a broadcast is counted once, not once for each neighbour.
incConvergeCounter_once(r) ==
  /\ toCount[r]
  /\ toCount' = [toCount EXCEPT ![r] = FALSE]
  /\ m_algConvergeCounter' =
       (m_algConvergeCounter + (IF toSend[r] = {} THEN 1 ELSE 0)) % CounterSize
  /\ UNCHANGED <<m_routingTable, m_isRunning, m_nodeQueue, toSend, inHandler,
                 converged>>

\* ... and counts it afterwards.
incConvergeCounter(r) ==
  /\ toCount[r]
  /\ toCount' = [toCount EXCEPT ![r] = FALSE]
  /\ m_algConvergeCounter' = (m_algConvergeCounter + 1) % CounterSize
  /\ UNCHANGED <<m_routingTable, m_isRunning, m_nodeQueue, toSend, inHandler,
                 converged>>

\* Mutant: a known route is never replaced.
isBetter_onlyUnknown(n, dest, cost) == ~m_routingTable[n][dest].known

isBetter(n, dest, cost) ==
  \/ ~m_routingTable[n][dest].known
  \/ m_routingTable[n][dest].cost > cost

\* A router broadcasts what it has learned, a host does not.
updateRoutingTable(n, dest, c, nextHop) ==
  /\ isBetter(n, dest, c)
  /\ m_routingTable' =
       [m_routingTable EXCEPT ![n][dest] =
          [known |-> TRUE, cost |-> c, nextHop |-> nextHop]]
  /\ toSend' = IF n \in Routers
               THEN [toSend EXCEPT ![n] = broadCastNewLink(n, dest, c)]
               ELSE toSend

\* Mutant: the link to the sender is not added to the cost.
handleNewMessage_noLink(n, s) ==
  /\ isWaiting(n)
  /\ m_nodeQueue[n][s] # <<>>
  /\ LET m == Head(m_nodeQueue[n][s])
     IN  \/ updateRoutingTable(n, m.dest, m.cost, s)
         \/ ~isBetter(n, m.dest, m.cost) /\ UNCHANGED <<m_routingTable, toSend>>
  /\ m_nodeQueue' = [m_nodeQueue EXCEPT ![n][s] = Tail(@)]
  /\ inHandler' = [inHandler EXCEPT ![n] = TRUE]
  /\ UNCHANGED <<m_isRunning, toCount, m_algConvergeCounter, converged>>

\* The thread of n takes a routing message from s out of its queue.
handleNewMessage(n, s) ==
  /\ isWaiting(n)
  /\ m_nodeQueue[n][s] # <<>>
  /\ LET m == Head(m_nodeQueue[n][s])
         c == m.cost + LinkCost[n][s]
     IN  \/ updateRoutingTable(n, m.dest, c, s)
         \/ ~isBetter(n, m.dest, c) /\ UNCHANGED <<m_routingTable, toSend>>
  /\ m_nodeQueue' = [m_nodeQueue EXCEPT ![n][s] = Tail(@)]
  /\ inHandler' = [inHandler EXCEPT ![n] = TRUE]
  /\ UNCHANGED <<m_isRunning, toCount, m_algConvergeCounter, converged>>

\* Mutant: the handler returns without counting down.
decConvergeCounter_missing(n) ==
  /\ inHandler[n]
  /\ n \in Routers => toSend[n] = {} /\ ~toCount[n]
  /\ inHandler' = [inHandler EXCEPT ![n] = FALSE]
  /\ UNCHANGED <<m_routingTable, m_isRunning, m_nodeQueue, toSend, toCount,
                 m_algConvergeCounter, converged>>

\* The end of handleNewMessage.
decConvergeCounter(n) ==
  /\ inHandler[n]
  /\ n \in Routers => toSend[n] = {} /\ ~toCount[n]
  /\ inHandler' = [inHandler EXCEPT ![n] = FALSE]
  /\ m_algConvergeCounter' =
       (m_algConvergeCounter + CounterSize - 1) % CounterSize
  /\ UNCHANGED <<m_routingTable, m_isRunning, m_nodeQueue, toSend, toCount,
                 converged>>

\* The main thread finds the counter at zero and goes on.
waitForConverge ==
  /\ ~converged
  /\ m_algConvergeCounter = 0
  /\ converged' = TRUE
  /\ UNCHANGED <<m_routingTable, m_isRunning, m_nodeQueue, toSend, toCount,
                 inHandler, m_algConvergeCounter>>

Step(n) ==
  \/ startNode(n)
  \/ \E s \in Routers : handleNewMessage(n, s)
  \/ decConvergeCounter(n)

Broadcast(r) == takeMessage(r) \/ incConvergeCounter(r)

Next ==
  \/ \E n \in Nodes : Step(n)
  \/ \E r \in Routers : Broadcast(r)
  \/ waitForConverge

Spec == Init /\ [][Next]_vars

(***************************************************************************)
(* Fairness: every thread that can go on does; the main thread polls the   *)
(* counter forever.                                                        *)
(***************************************************************************)
Fairness ==
  /\ \A n \in Nodes : WF_vars(Step(n))
  /\ \A r \in Routers : WF_vars(Broadcast(r))
  /\ WF_vars(waitForConverge)

FairSpec == Spec /\ Fairness

-----------------------------------------------------------------------------
(***************************************************************************)
(* Properties.                                                             *)
(***************************************************************************)

\* The values of the tables, queues and counters.
TypeOK ==
  /\ m_routingTable \in [Nodes -> [Nodes -> Entry]]
  /\ m_isRunning \in [Nodes -> BOOLEAN]
  /\ m_nodeQueue \in [Nodes -> [Routers -> Seq(RoutingMessage)]]
  /\ toSend \in [Routers -> SUBSET Outgoing]
  /\ toCount \in [Routers -> BOOLEAN]
  /\ inHandler \in [Nodes -> BOOLEAN]
  /\ m_algConvergeCounter \in 0 .. CounterSize - 1
  /\ converged \in BOOLEAN

\* Packets never go round in circles, not even while the tables change: a
\* next hop is the destination itself over a direct link, or a router that
\* knows the destination at a cost lower by at least the link to it
\* (routeAndForwardPacket follows nextHop without looking further).
NextHopIsCloser ==
  \A n, d \in Nodes : m_routingTable[n][d].known =>
    LET e == m_routingTable[n][d] IN
    /\ e.nextHop \in m_links(n)
    /\ \/ /\ e.nextHop = d
          /\ e.cost = LinkCost[n][d]
       \/ /\ e.nextHop \in Routers
          /\ m_routingTable[e.nextHop][d].known
          /\ m_routingTable[e.nextHop][d].cost + LinkCost[n][e.nextHop] <= e.cost

\* What a router announces, and has still to announce, it can do at least
\* as well itself; only neighbours hear of it.
AnnouncementsHold ==
  /\ \A n \in Nodes, s \in Routers : \A i \in 1 .. Len(m_nodeQueue[n][s]) :
       LET m == m_nodeQueue[n][s][i] IN
       /\ s \in m_links(n)
       /\ m_routingTable[s][m.dest].known
       /\ m_routingTable[s][m.dest].cost <= m.cost
  /\ \A r \in Routers : \A o \in toSend[r] :
       /\ o.to \in m_links(r)
       /\ m_routingTable[r][o.msg.dest].known
       /\ m_routingTable[r][o.msg.dest].cost <= o.msg.cost

\* The inductive invariant behind NextHopIsCloser.
DVInv == TypeOK /\ NextHopIsCloser /\ AnnouncementsHold

\* No node has anything left to do for the algorithm.
AtRest ==
  /\ \A n \in Nodes : isWaiting(n)
  /\ \A n \in Nodes, s \in Routers : m_nodeQueue[n][s] = <<>>

\* Reference: the costs of the ways from each node to each other.
Links == [n \in Nodes |-> [m \in Nodes |-> {LinkCost[n][j] : j \in m_links(n) \cap {m}}]]
Ways == AllWays(Links, Nodes, Routers)

\* At rest every table holds the shortest ways, found in whatever order the
\* messages were sent, taken and handled.
RestIsShortest ==
  AtRest => \A n, d \in Nodes :
    IF m_routingTable[n][d].known
    THEN /\ m_routingTable[n][d].cost \in Ways[n][d]
         /\ \A c \in Ways[n][d] : m_routingTable[n][d].cost <= c
    ELSE Ways[n][d] = {}

\* A link is known at both ends, whatever better way there is.
LinksKnown ==
  \A n \in Nodes : \A m \in m_links(n) :
    m_routingTable[n][m].known /\ m_routingTable[n][m].cost <= LinkCost[n][m]

\* Neighbour n makes use of what router r knows of d, or will be told: the
\* message is in its queue, or has still to be sent.
HearsOf(n, r, d) ==
  LET news == [dest |-> d, cost |-> m_routingTable[r][d].cost] IN
  \/ /\ m_routingTable[n][d].known
     /\ m_routingTable[n][d].cost <= news.cost + LinkCost[n][r]
  \/ \E i \in 1 .. Len(m_nodeQueue[n][r]) : m_nodeQueue[n][r][i] = news
  \/ [to |-> n, msg |-> news] \in toSend[r]

\* A router that runs keeps no news from its neighbours.
NewsSpreads ==
  \A r \in Routers : \A n \in m_links(r), d \in Nodes :
    m_isRunning[r] /\ m_routingTable[r][d].known => HearsOf(n, r, d)

\* The inductive invariant behind RestIsShortest.
RestInv == DVInv /\ LinksKnown /\ NewsSpreads

\* The counter is the number of messages that are under way or being
\* handled, less those that have been sent and not yet counted, in the
\* arithmetic of its type.
Queued == UNION {{ns} \X (1 .. Len(m_nodeQueue[ns[1]][ns[2]])) : ns \in Nodes \X Routers}
Handlers == {n \in Nodes : inHandler[n]}
Uncounted == {r \in Routers : toCount[r]}

CounterCounts ==
  (m_algConvergeCounter + Cardinality(Uncounted)) % CounterSize
     = (Cardinality(Queued) + Cardinality(Handlers)) % CounterSize

\* When the counter comes back to zero the algorithm is over: what the
\* counter is kept for, and what waitForConverge and m_endTime rely on.
ZeroMeansAtRest ==
  [][m_algConvergeCounter # 0 /\ m_algConvergeCounter' = 0 => AtRest']_vars

\* The algorithm comes to rest, and the user gets the prompt back.
Converges == <>[]AtRest /\ <>converged
=============================================================================
