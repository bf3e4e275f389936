----------------------------- MODULE LinkChanges -----------------------------
(***************************************************************************)
(* Links that are added, or get another cost, while the nodes run          *)
(* (Network::addLink and updateLinkCost): what this does to the routing    *)
(* tables.  The network has been started before it had any link; all nodes *)
(* wait for messages.                                                      *)
(*                                                                         *)
(* updateRoutingTable takes no lock, and addLink calls it in the main      *)
(* thread for a node whose own thread may be in it (handleNewMessage).  So *)
(* a call takes several steps: a link is read or placed, the entry is      *)
(* checked, it is written, the neighbours are told.  Each step is one      *)
(* access; what two accesses to one map at the same moment do is left out. *)
(* A broadcast is one step: what it hands to different queues is seen no   *)
(* earlier than its receivers take it, and messages of one thread in one   *)
(* queue keep their order.  The main thread and a router's own have none.  *)
(* The convergence counter is in DistanceVector and Lifecycle.             *)
(***************************************************************************)
EXTENDS Integers, Sequences, FiniteSets, FiniteSetsExt, ShortestWays

CONSTANTS
  Routers, Hosts,
  Main,         \* the main thread; the thread of a node is the node
  Costs,        \* costs a user gives to links
  MaxChanges    \* bound on the number of addLink and updateLinkCost commands

Nodes == Routers \cup Hosts
Threads == Nodes \cup {Main}
Senders == Routers \cup {Main}    \* the threads that broadcast

ASSUME NodesAssumption == Routers \cap Hosts = {} /\ Main \notin Nodes /\ IsFiniteSet(Nodes)
ASSUME CostsAssumption == Costs \subseteq Nat
ASSUME ChangesAssumption == MaxChanges \in Nat

VARIABLES
  m_links,          \* m_links[n][m]: the cost of the element, {} where there is none
  neighbours,       \* the keys of m_toRoutersLinks and m_toHostsLinks
  m_routingTable,   \* m_routingTable[n][d]: the entry of n for d
  m_nodeQueue,      \* m_nodeQueue[n][t]: what thread t has put there, oldest first
  calls,            \* the calls of updateRoutingTable that threads are in
  secondEnd,        \* the end that addLink has still to visit, if any
  changes,          \* commands given
  lowest,           \* history: the lowest cost that a link has had
  halfLink,         \* history: a message came over a link whose receiving end did not exist
  raced             \* history: the entries a thread has replaced by one that is no cheaper

vars == <<m_links, neighbours, m_routingTable, m_nodeQueue, calls, secondEnd, changes,
          lowest, halfLink, raced>>

Entry == [known : BOOLEAN, cost : Nat, nextHop : Nodes]
RoutingMessage == [sender : Routers, dest : Nodes, cost : Nat]
Call == [thread : Threads, at : {"link", "check", "write", "broadcast"},
         node : Nodes, dest : Nodes, cost : Nat, nextHop : Nodes]
Unknown(n) == [known |-> FALSE, cost |-> 0, nextHop |-> n]

Init ==
  /\ m_links = [n \in Nodes |-> [m \in Nodes |-> {}]]
  /\ neighbours = [n \in Nodes |-> {}]
  /\ m_routingTable = [n \in Nodes |-> [d \in Nodes |-> Unknown(n)]]
  /\ m_nodeQueue = [n \in Nodes |-> [t \in Senders |-> <<>>]]
  /\ calls = {}
  /\ secondEnd = {}
  /\ changes = 0
  /\ lowest = [n \in Nodes |-> [m \in Nodes |-> {}]]
  /\ halfLink = FALSE
  /\ raced = {}

isFree(t) == \A c \in calls : c.thread # t

\* What a call does next; otherwise its thread is free again.
goOn(c, at) == calls' = (calls \ {c}) \cup {[c EXCEPT !.at = at]}
return(c) == calls' = calls \ {c}

\* Mutant: a route of the same cost replaces the known one.
isBetter_orEqual(n, dest, cost) ==
  \/ ~m_routingTable[n][dest].known
  \/ m_routingTable[n][dest].cost >= cost

isBetter(n, dest, cost) ==
  \/ ~m_routingTable[n][dest].known
  \/ m_routingTable[n][dest].cost > cost

\* updateRoutingTable looks at the entry, and leaves it alone if the route is no better.
checkEntry(c) ==
  /\ c.at = "check"
  /\ \/ isBetter(c.node, c.dest, c.cost) /\ goOn(c, "write")
     \/ ~isBetter(c.node, c.dest, c.cost) /\ return(c)
  /\ UNCHANGED <<m_links, neighbours, m_routingTable, m_nodeQueue, secondEnd, changes,
                 lowest, halfLink, raced>>

\* It writes the entry, whatever that is by now.  A host passes nothing on.
writeEntry(c) ==
  /\ c.at = "write"
  /\ m_routingTable' = [m_routingTable EXCEPT ![c.node][c.dest] =
                          [known |-> TRUE, cost |-> c.cost, nextHop |-> c.nextHop]]
  /\ raced' = IF isBetter(c.node, c.dest, c.cost) THEN raced
              ELSE raced \cup {<<c.node, c.dest>>}
  /\ IF c.node \in Routers THEN goOn(c, "broadcast") ELSE return(c)
  /\ UNCHANGED <<m_links, neighbours, m_nodeQueue, secondEnd, changes, lowest, halfLink>>

\* A router tells every neighbour the cost that it has written.
broadCastNewLink(c) ==
  /\ c.at = "broadcast"
  /\ m_nodeQueue' = [n \in Nodes |->
       IF n \in neighbours[c.node]
       THEN [m_nodeQueue[n] EXCEPT ![c.thread] =
               Append(@, [sender |-> c.node, dest |-> c.dest, cost |-> c.cost])]
       ELSE m_nodeQueue[n]]
  /\ return(c)
  /\ UNCHANGED <<m_links, neighbours, m_routingTable, secondEnd, changes, lowest, halfLink,
                 raced>>

\* addToRouterLink and addToHostLink, called by the main thread for one end: the
\* map that broadcasts go by, and then m_links.
addToLink(n, m, cost) ==
  /\ isFree(Main)
  /\ neighbours' = [neighbours EXCEPT ![n] = @ \cup {m}]
  /\ calls' = calls \cup {[thread |-> Main, at |-> "link", node |-> n, dest |-> m,
                           cost |-> cost, nextHop |-> m]}
  /\ UNCHANGED <<m_links, m_routingTable, m_nodeQueue, halfLink, raced>>

placeLink(c) ==
  /\ c.at = "link"
  /\ m_links' = [m_links EXCEPT ![c.node][c.dest] = {c.cost}]
  /\ goOn(c, "check")
  /\ UNCHANGED <<neighbours, m_routingTable, m_nodeQueue, secondEnd, changes, lowest,
                 halfLink, raced>>

\* addLink and updateLinkCost, the first end: a host if there is one, otherwise
\* addr1.  Two hosts cannot be linked.
addLink(addr1, addr2, cost) ==
  /\ secondEnd = {} /\ changes < MaxChanges
  /\ addr1 # addr2 /\ addr2 \in Routers
  /\ addToLink(addr1, addr2, cost)
  /\ secondEnd' = {<<addr2, addr1, cost>>}
  /\ changes' = changes + 1
  /\ lowest' = [lowest EXCEPT ![addr1][addr2] = {Min(@ \cup {cost})},
                              ![addr2][addr1] = {Min(@ \cup {cost})}]

\* Mutant: the second end hears of a link that costs nothing.
otherEnd_noCost ==
  /\ \E e \in secondEnd : addToLink(e[1], e[2], 0)
  /\ secondEnd' = {}
  /\ UNCHANGED <<changes, lowest>>

\* The second end, when the first one's neighbours have been told.
otherEnd ==
  /\ \E e \in secondEnd : addToLink(e[1], e[2], e[3])
  /\ secondEnd' = {}
  /\ UNCHANGED <<changes, lowest>>

\* What operator[] finds: an element that it has to make costs nothing.
betweenNodeCost(n, m) == IF m_links[n][m] = {} THEN 0 ELSE Min(m_links[n][m])

\* The thread of n takes the next message of thread t and reads the link.
handleNewMessage(n, t) ==
  /\ isFree(n)
  /\ m_nodeQueue[n][t] # <<>>
  /\ m_nodeQueue' = [m_nodeQueue EXCEPT ![n][t] = Tail(@)]
  /\ LET message == Head(m_nodeQueue[n][t]) IN
     /\ calls' = calls \cup {[thread |-> n, at |-> "check", node |-> n, dest |-> message.dest,
                              cost |-> message.cost + betweenNodeCost(n, message.sender),
                              nextHop |-> message.sender]}
     /\ halfLink' = (halfLink \/ m_links[n][message.sender] = {})
  /\ UNCHANGED <<m_links, neighbours, m_routingTable, secondEnd, changes, lowest, raced>>

Next ==
  \/ \E addr1, addr2 \in Nodes, cost \in Costs : addLink(addr1, addr2, cost)
  \/ otherEnd
  \/ \E n \in Nodes, t \in Senders : handleNewMessage(n, t)
  \/ \E c \in calls : placeLink(c) \/ checkEntry(c) \/ writeEntry(c) \/ broadCastNewLink(c)

Spec == Init /\ [][Next]_vars

-----------------------------------------------------------------------------
\* The values of links, tables, queues and calls.
TypeOK ==
  /\ m_links \in [Nodes -> [Nodes -> SUBSET Nat]]
  /\ neighbours \in [Nodes -> SUBSET Nodes]
  /\ m_routingTable \in [Nodes -> [Nodes -> Entry]]
  /\ m_nodeQueue \in [Nodes -> [Senders -> Seq(RoutingMessage)]]
  /\ calls \in SUBSET Call
  /\ secondEnd \in SUBSET (Nodes \X Nodes \X Costs)
  /\ changes \in 0..MaxChanges
  /\ halfLink \in BOOLEAN
  /\ raced \in SUBSET (Nodes \X Nodes)

\* A next hop of n for d: the destination, or a router that knows it at no
\* higher cost than n, unless a race has made that router's entry dearer.
Leads(n, d, cost, nextHop) ==
  /\ nextHop # n
  /\ \/ nextHop = d
     \/ /\ nextHop \in Routers
        /\ m_routingTable[nextHop][d].known
        /\ <<nextHop, d>> \in raced \/ m_routingTable[nextHop][d].cost <= cost

\* Along a next hop the cost never rises, whatever it was that the link cost.
Descends ==
  /\ \A n, d \in Nodes : m_routingTable[n][d].known =>
       Leads(n, d, m_routingTable[n][d].cost, m_routingTable[n][d].nextHop)
  /\ \A c \in calls : Leads(c.node, c.dest, c.cost, c.nextHop)

\* Router r can do at least as well as it says, unless a race has undone this.
Holds(r, d, cost) ==
  /\ m_routingTable[r][d].known
  /\ <<r, d>> \in raced \/ m_routingTable[r][d].cost <= cost

AnnouncementsHold ==
  /\ \A e \in secondEnd : e[1] # e[2]
  /\ \A n \in Nodes : n \notin neighbours[n]
  /\ \A c \in calls : c.at = "broadcast" => c.node \in Routers /\ Holds(c.node, c.dest, c.cost)
  /\ \A n \in Nodes, t \in Senders : \A i \in 1..Len(m_nodeQueue[n][t]) :
       LET message == m_nodeQueue[n][t][i] IN
       message.sender # n /\ Holds(message.sender, message.dest, message.cost)

\* A node's table is written by its own thread and by the main thread, and that
\* one writes entries of neighbours only.
WritersInv ==
  /\ \A c, e \in calls : c.thread = e.thread => c = e
  /\ \A c \in calls : c.thread \in {c.node, Main}
  /\ \A c \in calls : c.thread = Main => c.dest \in neighbours[c.node]
  /\ \A c \in calls : c.at = "write" =>
       isBetter(c.node, c.dest, c.cost) \/ c.dest \in neighbours[c.node]
  /\ \A e \in raced : e[2] \in neighbours[e[1]]

\* A set of nodes that hands the packets for d round among its members has one
\* whose entry for d was replaced by one that is no cheaper.
CirclesRaced ==
  \A d \in Nodes : \A S \in SUBSET (Nodes \ {d}) :
    /\ S # {}
    /\ \A n \in S : m_routingTable[n][d].known /\ m_routingTable[n][d].nextHop \in S
    => \E n \in S : <<n, d>> \in raced

\* The inductive invariant behind PacketsArrive.
LinkInv == TypeOK /\ WritersInv /\ Descends /\ AnnouncementsHold /\ CirclesRaced

\* A packet that follows the next hops is never left without one, although links
\* cost nothing, get dearer without any table noticing, or exist at one end
\* only.  And it arrives, unless it goes round in a circle with a node that is
\* itself linked to the destination, and whose main and own thread were both in
\* updateRoutingTable: without that race no circle is ever closed
\* (routeAndForwardPacket; there is no time to live).
PacketsArrive ==
  /\ \A n, d \in Nodes : m_routingTable[n][d].known =>
       \/ m_routingTable[n][d].nextHop = d
       \/ /\ m_routingTable[n][d].nextHop \in Routers
          /\ m_routingTable[m_routingTable[n][d].nextHop][d].known
  /\ \A d \in Nodes : \A S \in SUBSET (Nodes \ {d}) :
       /\ S # {}
       /\ \A n \in S : m_routingTable[n][d].known /\ m_routingTable[n][d].nextHop \in S
       => \E n \in S : <<n, d>> \in raced /\ d \in neighbours[n]

\* What the condition of updateRoutingTable says: an update takes place where
\* the known route costs more.
UpdatesImprove ==
  [][\A n, d \in Nodes : m_routingTable[n][d].known =>
       \/ m_routingTable'[n][d] = m_routingTable[n][d]
       \/ m_routingTable[n][d].cost > m_routingTable'[n][d].cost]_vars

\* When all threads wait again no set of nodes hands the packets for d round
\* among its members.
NoLastingCircle ==
  /\ calls = {} /\ secondEnd = {}
  /\ \A n \in Nodes, t \in Senders : m_nodeQueue[n][t] = <<>>
  => \A d \in Nodes : \A S \in SUBSET (Nodes \ {d}) :
       (\A n \in S : m_routingTable[n][d].known /\ m_routingTable[n][d].nextHop \in S) => S = {}

\* Reference: the costs of the ways, each link at the lowest cost it has had.
Ways == AllWays(lowest, Nodes, Routers)

\* There is, or was, a way from n to d at that cost or less.
Possible(n, d, cost) == \E w \in Ways[n][d] : w <= cost

\* No table promises a way that is cheaper than any there has been, unless a
\* routing message overtook the second half of an addLink and its link was
\* taken to cost nothing (operator[] in handleNewMessage).
OnlyHalfLinksFlatter ==
  ~halfLink => \A n, d \in Nodes : m_routingTable[n][d].known =>
                 Possible(n, d, m_routingTable[n][d].cost)

\* The same of what is on its way to a table, and of the links themselves.
PromisesInv ==
  ~halfLink =>
    /\ \A c \in calls : Possible(c.node, c.dest, c.cost)
    /\ \A n \in Nodes, t \in Senders : \A i \in 1..Len(m_nodeQueue[n][t]) :
         LET message == m_nodeQueue[n][t][i] IN
         Possible(message.sender, message.dest, message.cost)

\* The lowest cost of a link is no more than what either end has, or will have.
LowestKnown ==
  /\ lowest \in [Nodes -> [Nodes -> SUBSET Nat]]
  /\ \A n, m \in Nodes : \A c \in m_links[n][m] : \E l \in lowest[n][m] : l <= c
  /\ \A c \in calls : c.at = "link" => \E l \in lowest[c.node][c.dest] : l <= c.cost
  /\ \A e \in secondEnd : \E l \in lowest[e[1]][e[2]] : l <= e[3]

\* The inductive invariant behind OnlyHalfLinksFlatter.
FlatterInv == LinkInv /\ LowestKnown /\ PromisesInv /\ OnlyHalfLinksFlatter
=============================================================================
