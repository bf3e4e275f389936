------------------------------ MODULE Lifecycle ------------------------------
(***************************************************************************)
(* The life cycle of a network: the main thread runs it and shuts it down, *)
(* again and again, while every node is a thread that takes messages out   *)
(* of its queue until it finds that it must stop (Network.cpp,             *)
(* AbstractNode.cpp, Router.cpp, Host.cpp, NetworkController.cpp).         *)
(*                                                                         *)
(* Routing messages have no content here: whether one brings news, so that *)
(* its receiver broadcasts in turn, is a free choice.  A queue is the      *)
(* number of routing messages and of null messages in it, since messages   *)
(* of different producers come out in any order.  The links are those that *)
(* were there before the first "run".                                      *)
(*                                                                         *)
(* The user alternates "run" and "shut down", as the program requires: a   *)
(* second "run" assigns to a joinable std::thread, a second "shut down"    *)
(* joins one that is not, and both end the process.                        *)
(***************************************************************************)
EXTENDS Integers, FiniteSets

CONSTANTS
  Routers, Hosts,
  Links,        \* a set of pairs {r, n} of a router and another node
  Main,         \* the main thread, as a sender of messages
  CounterSize,  \* number of values of m_algConvergeCounter (2^64)
  MaxRuns,      \* bound on the number of "run" commands (TLC)
  MaxNews       \* bound on the number of broadcasts after the first (TLC)

Nodes == Routers \cup Hosts
Senders == Routers \cup {Main}

ASSUME NodesAssumption == /\ Routers \cap Hosts = {} /\ Main \notin Nodes
                          /\ IsFiniteSet(Nodes)
ASSUME CounterAssumption == CounterSize \in Nat \ {0}
ASSUME BoundsAssumption == MaxRuns \in Nat /\ MaxNews \in Nat

VARIABLES
  \* the main thread
  pc,           \* the command it executes, and how far it has come
  todo,         \* nodes its current loop has still to visit
  target,       \* the node whose stopNode it is in
  \* the nodes
  thread,       \* the thread of a node, "none" if there is none to join
  m_mustStop,
  routingIn,    \* m_nodeQueue: routing messages in the queue of a node
  nullIn,       \* m_nodeQueue: null messages in the queue of a node
  \* broadcasts
  toSend,       \* neighbours a broadcast has still to reach
  toCount,      \* the sender has sent a message and not yet counted it
  \* NetworkController
  m_algConvergeCounter,
  m_runningNodeCounter,
  \* history
  late,         \* nodes that took a message after their thread had ended
  cutShort,     \* the last pause of shutDown ended with work left to do
  \* bounds
  runs, news

mainVars == <<pc, todo, target>>
sendVars == <<toSend, toCount>>
historyVars == <<late, cutShort>>
vars == <<pc, todo, target, thread, m_mustStop, routingIn, nullIn, toSend,
          toCount, m_algConvergeCounter, m_runningNodeCounter, late, cutShort,
          runs, news>>

Neighbours(r) == {n \in Nodes \ {r} : {r, n} \in Links}

\* The thread of n has begun and not ended.
m_isRunning(n) == thread[n] \in {"starting", "looping", "handling", "leaving"}

-----------------------------------------------------------------------------
Init ==
  /\ pc = "prompt"
  /\ todo = {}
  /\ target \in Nodes
  /\ thread = [n \in Nodes |-> "none"]
  /\ m_mustStop = [n \in Nodes |-> FALSE]
  /\ routingIn = [n \in Nodes |-> 0]
  /\ nullIn = [n \in Nodes |-> 0]
  /\ toSend = [s \in Senders |-> {}]
  /\ toCount = [s \in Senders |-> FALSE]
  /\ m_algConvergeCounter = 0
  /\ m_runningNodeCounter = 0
  /\ late = {}
  /\ cutShort = FALSE
  /\ runs = 0
  /\ news = 0

-----------------------------------------------------------------------------
(***************************************************************************)
(* Sending: broadCastNewLink, in a router's thread or in the main thread.  *)
(***************************************************************************)

\* The sender is not in the middle of a broadcast.
idle(s) == toSend[s] = {} /\ ~toCount[s]

\* Hosts come before routers.  A node that must stop takes no message; it is
\* counted all the same; one whose thread has ended takes it again.
takeMessage(s) ==
  /\ ~toCount[s]
  /\ \E n \in toSend[s] :
       /\ n \in Hosts \/ toSend[s] \cap Hosts = {}
       /\ toSend' = [toSend EXCEPT ![s] = @ \ {n}]
       /\ routingIn' = [routingIn EXCEPT ![n] = @ + (IF m_mustStop[n] THEN 0 ELSE 1)]
       /\ late' = IF thread[n] \in {"none", "finished"} THEN late \cup {n} ELSE late
  /\ toCount' = [toCount EXCEPT ![s] = TRUE]
  /\ UNCHANGED <<mainVars, thread, m_mustStop, nullIn, m_algConvergeCounter,
                 m_runningNodeCounter, cutShort, runs, news>>

incConvergeCounter(s) ==
  /\ toCount[s]
  /\ toCount' = [toCount EXCEPT ![s] = FALSE]
  /\ m_algConvergeCounter' = (m_algConvergeCounter + 1) % CounterSize
  /\ UNCHANGED <<mainVars, thread, m_mustStop, routingIn, nullIn, toSend,
                 m_runningNodeCounter, historyVars, runs, news>>

-----------------------------------------------------------------------------
(***************************************************************************)
(* The thread of a node.                                                   *)
(***************************************************************************)

\* It begins; a router has its table to broadcast first ...
begin(n) ==
  /\ thread[n] = "created"
  /\ thread' = [thread EXCEPT ![n] =
                  IF n \in Routers THEN "starting" ELSE "looping"]
  /\ m_runningNodeCounter' = m_runningNodeCounter + 1
  /\ toSend' = IF n \in Routers THEN [toSend EXCEPT ![n] = Neighbours(n)]
               ELSE toSend
  /\ UNCHANGED <<mainVars, m_mustStop, routingIn, nullIn, toCount,
                 m_algConvergeCounter, historyVars, runs, news>>

\* ... entry by entry, and comes to the loop after the last.
nextEntry(r) ==
  /\ thread[r] = "starting"
  /\ idle(r)
  /\ \/ /\ thread' = [thread EXCEPT ![r] = "looping"]
        /\ UNCHANGED <<toSend, news>>
     \/ /\ news < MaxNews
        /\ news' = news + 1
        /\ toSend' = [toSend EXCEPT ![r] = Neighbours(r)]
        /\ UNCHANGED thread
  /\ UNCHANGED <<mainVars, m_mustStop, routingIn, nullIn, toCount,
                 m_algConvergeCounter, m_runningNodeCounter, historyVars,
                 runs>>

\* It is at wait_dequeue.
isWaiting(n) == thread[n] = "looping"

\* It waits there and its queue is empty.
isAsleep(n) == isWaiting(n) /\ routingIn[n] = 0 /\ nullIn[n] = 0

\* It takes a routing message, leaves the loop if it must stop, and handles
\* the message otherwise; a router may find news in it to broadcast.
dequeueRouting(n) ==
  /\ isWaiting(n)
  /\ routingIn[n] > 0
  /\ routingIn' = [routingIn EXCEPT ![n] = @ - 1]
  /\ \/ /\ m_mustStop[n]
        /\ thread' = [thread EXCEPT ![n] = "leaving"]
        /\ UNCHANGED <<toSend, news>>
     \/ /\ ~m_mustStop[n]
        /\ thread' = [thread EXCEPT ![n] = "handling"]
        /\ \/ UNCHANGED <<toSend, news>>
           \/ /\ n \in Routers /\ news < MaxNews
              /\ news' = news + 1
              /\ toSend' = [toSend EXCEPT ![n] = Neighbours(n)]
  /\ UNCHANGED <<mainVars, m_mustStop, nullIn, toCount, m_algConvergeCounter,
                 m_runningNodeCounter, historyVars, runs>>

\* It takes a null message; handleNewMessage would dereference it.
dequeueNull(n) ==
  /\ isWaiting(n)
  /\ nullIn[n] > 0
  /\ nullIn' = [nullIn EXCEPT ![n] = @ - 1]
  /\ thread' = [thread EXCEPT ![n] =
                  IF m_mustStop[n] THEN "leaving" ELSE "crashed"]
  /\ UNCHANGED <<mainVars, m_mustStop, routingIn, sendVars,
                 m_algConvergeCounter, m_runningNodeCounter, historyVars,
                 runs, news>>

\* It comes to the end of handleNewMessage.
decConvergeCounter(n) ==
  /\ thread[n] = "handling"
  /\ n \in Routers => idle(n)
  /\ thread' = [thread EXCEPT ![n] = "looping"]
  /\ m_algConvergeCounter' =
       (m_algConvergeCounter + CounterSize - 1) % CounterSize
  /\ UNCHANGED <<mainVars, m_mustStop, routingIn, nullIn, sendVars,
                 m_runningNodeCounter, historyVars, runs, news>>

\* Mutant: the flag is left for the next run.
leave_flagUp(n) ==
  /\ thread[n] = "leaving"
  /\ thread' = [thread EXCEPT ![n] = "finished"]
  /\ m_runningNodeCounter' = m_runningNodeCounter - 1
  /\ UNCHANGED <<mainVars, m_mustStop, routingIn, nullIn, sendVars,
                 m_algConvergeCounter, historyVars, runs, news>>

\* The end of the thread.
leave(n) ==
  /\ thread[n] = "leaving"
  /\ thread' = [thread EXCEPT ![n] = "finished"]
  /\ m_mustStop' = [m_mustStop EXCEPT ![n] = FALSE]
  /\ m_runningNodeCounter' = m_runningNodeCounter - 1
  /\ UNCHANGED <<mainVars, routingIn, nullIn, sendVars, m_algConvergeCounter,
                 historyVars, runs, news>>

-----------------------------------------------------------------------------
(***************************************************************************)
(* The main thread.                                                        *)
(***************************************************************************)

run ==
  /\ pc = "prompt"
  /\ \A n \in Nodes : thread[n] = "none"
  /\ runs < MaxRuns
  /\ runs' = runs + 1
  /\ thread' = [n \in Nodes |-> "created"]
  /\ pc' = "waiting"
  /\ late' = {}
  /\ UNCHANGED <<todo, target, m_mustStop, routingIn, nullIn, sendVars,
                 m_algConvergeCounter, m_runningNodeCounter, cutShort,
                 news>>

\* A poll finds the counter at zero.
waitForConverge ==
  /\ pc = "waiting"
  /\ m_algConvergeCounter = 0
  /\ pc' = "prompt"
  /\ UNCHANGED <<todo, target, thread, m_mustStop, routingIn, nullIn,
                 sendVars, m_algConvergeCounter, m_runningNodeCounter,
                 historyVars, runs, news>>

\* "add link" or "update link" gives a running router a better cost for a
\* link it has: its updateRoutingTable broadcasts, in the main thread.
addLink(r) ==
  /\ pc = "prompt"
  /\ m_isRunning(r)
  /\ news < MaxNews
  /\ news' = news + 1
  /\ toSend' = [toSend EXCEPT ![Main] = Neighbours(r)]
  /\ pc' = "linking"
  /\ UNCHANGED <<todo, target, thread, m_mustStop, routingIn, nullIn, toCount,
                 m_algConvergeCounter, m_runningNodeCounter, historyVars,
                 runs>>

linkAdded ==
  /\ pc = "linking"
  /\ idle(Main)
  /\ pc' = "prompt"
  /\ UNCHANGED <<todo, target, thread, m_mustStop, routingIn, nullIn,
                 sendVars, m_algConvergeCounter, m_runningNodeCounter,
                 historyVars, runs, news>>

shutDown ==
  /\ pc = "prompt"
  /\ \A n \in Nodes : thread[n] # "none"
  /\ pc' = "stopping"
  /\ todo' = Nodes
  /\ cutShort' = FALSE
  /\ UNCHANGED <<target, thread, m_mustStop, routingIn, nullIn, sendVars,
                 m_algConvergeCounter, m_runningNodeCounter, late,
                 runs, news>>

\* Mutant: the null message first, the flag afterwards.
stopNode_wakeFirst(n) ==
  /\ pc = "stopping"
  /\ n \in todo /\ (n \in Hosts \/ todo \cap Hosts = {})
  /\ target' = n
  /\ nullIn' = [nullIn EXCEPT ![n] = @ + 1]
  /\ pc' = "waking"
  /\ UNCHANGED <<todo, thread, m_mustStop, routingIn, sendVars,
                 m_algConvergeCounter, m_runningNodeCounter, historyVars,
                 runs, news>>

\* stopNode raises the flag, hosts before routers ...
stopNode(n) ==
  /\ pc = "stopping"
  /\ n \in todo /\ (n \in Hosts \/ todo \cap Hosts = {})
  /\ target' = n
  /\ m_mustStop' = [m_mustStop EXCEPT ![n] = TRUE]
  /\ pc' = "waking"
  /\ UNCHANGED <<todo, thread, routingIn, nullIn, sendVars,
                 m_algConvergeCounter, m_runningNodeCounter, historyVars,
                 runs, news>>

\* Mutant: the node is not woken.
wakeNode_missing ==
  /\ pc = "waking"
  /\ todo' = todo \ {target}
  /\ pc' = IF todo' = {} THEN "pausing" ELSE "stopping"
  /\ UNCHANGED <<target, thread, m_mustStop, routingIn, nullIn, sendVars,
                 m_algConvergeCounter, m_runningNodeCounter, historyVars,
                 runs, news>>

\* ... and then enqueues a null message.
wakeNode ==
  /\ pc = "waking"
  /\ nullIn' = [nullIn EXCEPT ![target] = @ + 1]
  /\ todo' = todo \ {target}
  /\ pc' = IF todo' = {} THEN "pausing" ELSE "stopping"
  /\ UNCHANGED <<target, thread, m_mustStop, routingIn, sendVars,
                 m_algConvergeCounter, m_runningNodeCounter, historyVars,
                 runs, news>>

\* The 500 ms are over, whatever the threads have come to.
pauseOver ==
  /\ pc = "pausing"
  /\ pc' = "clearing"
  /\ todo' = Nodes
  /\ cutShort' = (\E n \in Nodes : thread[n] # "finished" /\ ~isAsleep(n))
  /\ UNCHANGED <<target, thread, m_mustStop, routingIn, nullIn, sendVars,
                 m_algConvergeCounter, m_runningNodeCounter, late,
                 runs, news>>

\* Mutant: only the null messages are cleared.
clearQueue_nullOnly(n) ==
  /\ pc = "clearing"
  /\ n \in todo /\ (n \in Hosts \/ todo \cap Hosts = {})
  /\ nullIn' = [nullIn EXCEPT ![n] = 0]
  /\ pc' = IF todo = {n} THEN "joining" ELSE pc
  /\ todo' = IF todo = {n} THEN Nodes ELSE todo \ {n}
  /\ UNCHANGED <<target, thread, m_mustStop, routingIn, sendVars,
                 m_algConvergeCounter, m_runningNodeCounter, historyVars,
                 runs, news>>

\* A new queue replaces the old one.  A thread that is just taking a message
\* out of the old one has taken it before, or finds the new one empty.
clearQueue(n) ==
  /\ pc = "clearing"
  /\ n \in todo /\ (n \in Hosts \/ todo \cap Hosts = {})
  /\ routingIn' = [routingIn EXCEPT ![n] = 0]
  /\ nullIn' = [nullIn EXCEPT ![n] = 0]
  /\ pc' = IF todo = {n} THEN "joining" ELSE pc
  /\ todo' = IF todo = {n} THEN Nodes ELSE todo \ {n}
  /\ UNCHANGED <<target, thread, m_mustStop, sendVars, m_algConvergeCounter,
                 m_runningNodeCounter, historyVars, runs, news>>

joinThread(n) ==
  /\ pc = "joining"
  /\ n \in todo /\ (n \in Hosts \/ todo \cap Hosts = {})
  /\ thread[n] = "finished"
  /\ thread' = [thread EXCEPT ![n] = "none"]
  /\ pc' = IF todo = {n} THEN "prompt" ELSE pc
  /\ todo' = todo \ {n}
  /\ UNCHANGED <<target, m_mustStop, routingIn, nullIn, sendVars,
                 m_algConvergeCounter, m_runningNodeCounter, historyVars,
                 runs, news>>

-----------------------------------------------------------------------------
\* What the threads do by themselves ...
NodeStep(n) ==
  \/ begin(n)
  \/ n \in Routers /\ nextEntry(n)
  \/ dequeueRouting(n)
  \/ dequeueNull(n)
  \/ decConvergeCounter(n)
  \/ leave(n)

SendStep(s) == takeMessage(s) \/ incConvergeCounter(s)

MainStep ==
  \/ waitForConverge
  \/ linkAdded
  \/ \E n \in Nodes : stopNode(n)
  \/ wakeNode
  \/ pauseOver
  \/ \E n \in Nodes : clearQueue(n)
  \/ \E n \in Nodes : joinThread(n)

\* ... and what the user asks for.
Command ==
  \/ run
  \/ \E r \in Routers : addLink(r)
  \/ shutDown

Next ==
  \/ \E n \in Nodes : NodeStep(n)
  \/ \E s \in Senders : SendStep(s)
  \/ MainStep
  \/ Command

Spec == Init /\ [][Next]_vars

(***************************************************************************)
(* Fairness: every thread that can go on does.  The user owes nothing.     *)
(***************************************************************************)
Fairness ==
  /\ \A n \in Nodes : WF_vars(NodeStep(n))
  /\ \A s \in Senders : WF_vars(SendStep(s))
  /\ WF_vars(MainStep)

FairSpec == Spec /\ Fairness

-----------------------------------------------------------------------------
(***************************************************************************)
(* Properties.                                                             *)
(***************************************************************************)

\* The values of the threads, queues and counters.
TypeOK ==
  /\ pc \in {"prompt", "waiting", "linking", "stopping", "waking", "pausing",
             "clearing", "joining"}
  /\ todo \in SUBSET Nodes
  /\ target \in Nodes
  /\ thread \in [Nodes -> {"none", "created", "starting", "looping", "handling",
                           "leaving", "finished", "crashed"}]
  /\ m_mustStop \in [Nodes -> BOOLEAN]
  /\ routingIn \in [Nodes -> Nat]
  /\ nullIn \in [Nodes -> Nat]
  /\ toSend \in [Senders -> SUBSET Nodes]
  /\ toCount \in [Senders -> BOOLEAN]
  /\ m_algConvergeCounter \in 0 .. CounterSize - 1
  /\ m_runningNodeCounter \in Int
  /\ late \in SUBSET Nodes
  /\ cutShort \in BOOLEAN
  /\ runs \in Nat
  /\ news \in Nat

\* No node ever handles the null message of stopNode, whatever it is doing
\* when it is stopped and however long it takes (the loop of startNode tests
\* m_mustStop and not the message).
NullNeverHandled == \A n \in Nodes : thread[n] # "crashed"

\* Whenever the user may give a command no node is asked to stop: the
\* threads have taken back the flags of the last "shut down", and the next
\* "run" does not end before it has begun.
NoStopLeft ==
  pc \in {"prompt", "waiting", "linking"} =>
    \A n \in Nodes : ~m_mustStop[n] /\ nullIn[n] = 0

\* However slow the threads are, "shut down" leaves no thread counted as
\* running, no broadcast half done, and in the queues only what was sent to a
\* node whose own thread had already ended, by one the pause was too short for.
CleanAfterShutDown ==
  pc = "prompt" /\ (\A n \in Nodes : thread[n] = "none") =>
    /\ \A n \in Nodes : routingIn[n] > 0 => cutShort /\ n \in late
    /\ \A r \in Routers : idle(r)
    /\ m_runningNodeCounter = 0

(***************************************************************************)
(* The inductive invariant.                                                *)
(***************************************************************************)

\* "shut down" has not yet come to n, or there is none.
NotYetStopped(n) ==
  \/ pc \in {"prompt", "waiting", "linking"}
  \/ pc = "stopping" /\ n \in todo
  \/ pc = "waking" /\ n \in todo \ {target}

\* The flag goes up before the null message is there and stays up until the
\* thread leaves; from "run" to the end of its join a node has a thread.
StopInv ==
  /\ pc = "waking" => m_mustStop[target] \/ thread[target] = "finished"
  /\ pc = "prompt" =>
       \A m, n \in Nodes : thread[m] = "none" => thread[n] = "none"
  /\ \A n \in Nodes :
       /\ thread[n] # "crashed"
       /\ NotYetStopped(n) => /\ ~m_mustStop[n] /\ nullIn[n] = 0
                              /\ thread[n] \notin {"leaving", "finished"}
       /\ m_mustStop[n] => thread[n] \notin {"none", "finished"}
       /\ thread[n] = "leaving" => m_mustStop[n]
       /\ nullIn[n] > 0 => m_mustStop[n] \/ thread[n] = "finished"
       /\ pc \notin {"prompt", "joining"} => thread[n] # "none"
       /\ pc = "clearing" /\ n \notin todo => nullIn[n] = 0
       /\ pc = "joining" => nullIn[n] = 0 /\ (n \notin todo => thread[n] = "none")

\* Only a thread in the middle of its start or of a handler, or a command,
\* has messages to send.
SendInv ==
  /\ \A r \in Routers : thread[r] \notin {"starting", "handling"} => idle(r)
  /\ pc # "linking" => idle(Main)

\* The threads that run are counted.
CountInv == m_runningNodeCounter = Cardinality({n \in Nodes : m_isRunning(n)})

\* A node that was told to stop is awake until it leaves: the null message of
\* stopNode is in its queue.
WokenInv ==
  \A n \in Nodes :
    pc = "pausing" \/ (pc \in {"stopping", "waking"} /\ n \notin todo) =>
      nullIn[n] > 0 \/ thread[n] \in {"leaving", "finished"}

\* Nobody fills a queue that has been cleared, but a thread that was not
\* finished in time, and only that of a node whose own thread has ended.
QuietInv ==
  \A n \in Nodes :
    /\ pc \in {"clearing", "joining"} =>
         /\ ~cutShort => thread[n] \in {"finished", "none"}
         /\ ~m_mustStop[n] => thread[n] \in {"finished", "none"}
    /\ \/ pc = "clearing" /\ n \notin todo
       \/ pc = "joining"
       \/ pc = "prompt" /\ thread[n] = "none"
       => (routingIn[n] > 0 => cutShort /\ n \in late)

\* The inductive invariant of the life cycle: what shutDown, startNode and
\* takeMessage know of each other at every step.
LifeInv == TypeOK /\ StopInv /\ WokenInv /\ SendInv /\ CountInv /\ QuietInv

-----------------------------------------------------------------------------
\* "shut down" ends, with every node off, unless the pause was too short for
\* a thread that had still something to do.
ShutDownReturns == pc = "stopping" ~> pc = "prompt" \/ cutShort

\* "shut down" always ends.
ShutDownAlwaysReturns == pc = "stopping" ~> pc = "prompt"

\* "run" ends, also after a "shut down" all threads had the time for: the
\* counter tells when the algorithm has stopped.
RunReturns == pc = "waiting" /\ ~cutShort ~> pc = "prompt"
=============================================================================
