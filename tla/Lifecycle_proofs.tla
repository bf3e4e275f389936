------------------------- MODULE Lifecycle_proofs -------------------------
(***************************************************************************)
(* Proofs about the life cycle: a node is never woken before it knows that *)
(* it must stop, nothing of one run is left for the next, for every        *)
(* network, any number of runs and threads of any speed.                   *)
(***************************************************************************)
EXTENDS Lifecycle, FiniteSetTheorems, TLAPS

LEMMA NodeFacts ==
  /\ Routers \subseteq Nodes /\ Routers \subseteq Senders
  /\ Main \in Senders /\ Main \notin Routers /\ Main \notin Nodes
  /\ \A s \in Senders : s # Main => s \in Routers
  /\ \A r \in Routers : Neighbours(r) \subseteq Nodes
BY NodesAssumption DEF Nodes, Senders, Neighbours

LEMMA CounterFacts ==
  ASSUME NEW c \in 0 .. CounterSize - 1
  PROVE  /\ (c + 1) % CounterSize \in 0 .. CounterSize - 1
         /\ (c + CounterSize - 1) % CounterSize \in 0 .. CounterSize - 1
<1>1. CounterSize \in Nat \ {0}
  BY CounterAssumption
<1>2. ASSUME NEW k \in Nat PROVE k % CounterSize \in 0 .. CounterSize - 1
  BY <1>1
<1>3. c + 1 \in Nat /\ c + CounterSize - 1 \in Nat
  BY <1>1
<1> QED BY <1>2, <1>3

-----------------------------------------------------------------------------
\* Every step keeps the types.
LEMMA TypeStep ==
  ASSUME TypeOK, Next
  PROVE  TypeOK'
<1>1. ASSUME NEW n \in Nodes, begin(n) PROVE TypeOK'
  BY <1>1, NodeFacts DEF begin, TypeOK, mainVars, historyVars
<1>2. ASSUME NEW n \in Routers, nextEntry(n) PROVE TypeOK'
  BY <1>2, NodeFacts DEF nextEntry, TypeOK, mainVars, historyVars
<1>3. ASSUME NEW n \in Nodes, dequeueRouting(n) PROVE TypeOK'
  BY <1>3, NodeFacts DEF dequeueRouting, TypeOK, mainVars, historyVars
<1>4. ASSUME NEW n \in Nodes, dequeueNull(n) PROVE TypeOK'
  BY <1>4 DEF dequeueNull, TypeOK, mainVars, sendVars, historyVars
<1>5. ASSUME NEW n \in Nodes, decConvergeCounter(n) PROVE TypeOK'
  BY <1>5, CounterFacts DEF decConvergeCounter, TypeOK, mainVars, sendVars, historyVars
<1>6. ASSUME NEW n \in Nodes, leave(n) PROVE TypeOK'
  BY <1>6 DEF leave, TypeOK, mainVars, sendVars, historyVars
<1>7. ASSUME NEW s \in Senders, takeMessage(s) PROVE TypeOK'
  BY <1>7 DEF takeMessage, TypeOK, mainVars, historyVars
<1>8. ASSUME NEW s \in Senders, incConvergeCounter(s) PROVE TypeOK'
  BY <1>8, CounterFacts DEF incConvergeCounter, TypeOK, mainVars, historyVars
<1>9. CASE waitForConverge
  BY <1>9 DEF waitForConverge, TypeOK, sendVars, historyVars
<1>10. CASE linkAdded
  BY <1>10 DEF linkAdded, TypeOK, sendVars, historyVars
<1>11. ASSUME NEW n \in Nodes, stopNode(n) PROVE TypeOK'
  BY <1>11 DEF stopNode, TypeOK, sendVars, historyVars
<1>12. CASE wakeNode
  BY <1>12 DEF wakeNode, TypeOK, sendVars, historyVars
<1>13. CASE pauseOver
  BY <1>13 DEF pauseOver, TypeOK, sendVars, historyVars
<1>14. ASSUME NEW n \in Nodes, clearQueue(n) PROVE TypeOK'
  BY <1>14 DEF clearQueue, TypeOK, sendVars, historyVars
<1>15. ASSUME NEW n \in Nodes, joinThread(n) PROVE TypeOK'
  BY <1>15 DEF joinThread, TypeOK, sendVars, historyVars
<1>16. CASE run
  BY <1>16 DEF run, TypeOK, sendVars, historyVars
<1>17. ASSUME NEW r \in Routers, addLink(r) PROVE TypeOK'
  BY <1>17, NodeFacts DEF addLink, TypeOK, historyVars
<1>18. CASE shutDown
  BY <1>18 DEF shutDown, TypeOK, sendVars, historyVars
<1> QED BY <1>1, <1>2, <1>3, <1>4, <1>5, <1>6, <1>7, <1>8, <1>9, <1>10, <1>11,
     <1>12, <1>13, <1>14, <1>15, <1>16, <1>17, <1>18
  DEF Next, NodeStep, SendStep, MainStep, Command

-----------------------------------------------------------------------------
\* Every step keeps flag, null message and thread of a node in order.
LEMMA StopStep ==
  ASSUME TypeOK, StopInv, Next
  PROVE  StopInv'
<1>1. ASSUME NEW n \in Nodes, begin(n) PROVE StopInv'
  BY <1>1 DEF begin, StopInv, NotYetStopped, mainVars
<1>2. ASSUME NEW n \in Routers, nextEntry(n) PROVE StopInv'
  BY <1>2 DEF nextEntry, TypeOK, StopInv, NotYetStopped, mainVars
<1>3. ASSUME NEW n \in Nodes, dequeueRouting(n) PROVE StopInv'
  BY <1>3
  DEF dequeueRouting, TypeOK, StopInv, NotYetStopped, mainVars, isWaiting
<1>4. ASSUME NEW n \in Nodes, dequeueNull(n) PROVE StopInv'
  BY <1>4 DEF dequeueNull, TypeOK, StopInv, NotYetStopped, mainVars, isWaiting
<1>5. ASSUME NEW n \in Nodes, decConvergeCounter(n) PROVE StopInv'
  BY <1>5 DEF decConvergeCounter, StopInv, NotYetStopped, mainVars
<1>6. ASSUME NEW n \in Nodes, leave(n) PROVE StopInv'
  BY <1>6 DEF leave, TypeOK, StopInv, NotYetStopped, mainVars
<1>7. ASSUME NEW s \in Senders, takeMessage(s) PROVE StopInv'
  BY <1>7 DEF takeMessage, StopInv, NotYetStopped, mainVars
<1>8. ASSUME NEW s \in Senders, incConvergeCounter(s) PROVE StopInv'
  BY <1>8 DEF incConvergeCounter, StopInv, NotYetStopped, mainVars
<1>9. CASE waitForConverge
  BY <1>9 DEF waitForConverge, StopInv, NotYetStopped
<1>10. CASE linkAdded
  BY <1>10 DEF linkAdded, StopInv, NotYetStopped
<1>11. ASSUME NEW n \in Nodes, stopNode(n) PROVE StopInv'
  BY <1>11 DEF stopNode, TypeOK, StopInv, NotYetStopped
<1>12. CASE wakeNode
  BY <1>12 DEF wakeNode, StopInv, NotYetStopped
<1>13. CASE pauseOver
  BY <1>13 DEF pauseOver, StopInv, NotYetStopped
<1>14. ASSUME NEW n \in Nodes, clearQueue(n) PROVE StopInv'
  BY <1>14 DEF clearQueue, TypeOK, StopInv, NotYetStopped
<1>15. ASSUME NEW n \in Nodes, joinThread(n) PROVE StopInv'
  BY <1>15 DEF joinThread, TypeOK, StopInv, NotYetStopped
<1>16. CASE run
  BY <1>16 DEF run, TypeOK, StopInv
<1>17. ASSUME NEW r \in Routers, addLink(r) PROVE StopInv'
  BY <1>17, NodeFacts
  DEF addLink, TypeOK, StopInv, NotYetStopped, mainVars, m_isRunning
<1>18. CASE shutDown
  BY <1>18 DEF shutDown, StopInv, NotYetStopped
<1> QED BY <1>1, <1>2, <1>3, <1>4, <1>5, <1>6, <1>7, <1>8, <1>9, <1>10, <1>11,
     <1>12, <1>13, <1>14, <1>15, <1>16, <1>17, <1>18
  DEF Next, NodeStep, SendStep, MainStep, Command

-----------------------------------------------------------------------------
\* Every step keeps the senders idle that have nothing to send.
LEMMA SendInvStep ==
  ASSUME TypeOK, SendInv, Next
  PROVE  SendInv'
<1>1. ASSUME NEW n \in Nodes, begin(n) PROVE SendInv'
  BY <1>1, NodeFacts DEF begin, TypeOK, SendInv, idle, mainVars
<1>2. ASSUME NEW n \in Routers, nextEntry(n) PROVE SendInv'
  BY <1>2, NodeFacts DEF nextEntry, TypeOK, SendInv, idle, mainVars
<1>3. ASSUME NEW n \in Nodes, dequeueRouting(n) PROVE SendInv'
  BY <1>3, NodeFacts
  DEF dequeueRouting, TypeOK, SendInv, idle, mainVars, isWaiting
<1>4. ASSUME NEW n \in Nodes, dequeueNull(n) PROVE SendInv'
  BY <1>4, NodeFacts
  DEF dequeueNull, TypeOK, SendInv, idle, mainVars, sendVars, isWaiting
<1>5. ASSUME NEW n \in Nodes, decConvergeCounter(n) PROVE SendInv'
  BY <1>5, NodeFacts
  DEF decConvergeCounter, TypeOK, SendInv, idle, mainVars, sendVars
<1>6. ASSUME NEW n \in Nodes, leave(n) PROVE SendInv'
  BY <1>6, NodeFacts DEF leave, TypeOK, SendInv, idle, mainVars, sendVars
<1>7. ASSUME NEW s \in Senders, takeMessage(s) PROVE SendInv'
  BY <1>7 DEF takeMessage, SendInv, idle, mainVars
<1>8. ASSUME NEW s \in Senders, incConvergeCounter(s) PROVE SendInv'
  BY <1>8 DEF incConvergeCounter, SendInv, idle, mainVars
<1>9. CASE waitForConverge
  BY <1>9 DEF waitForConverge, SendInv, idle, sendVars
<1>10. CASE linkAdded
  BY <1>10 DEF linkAdded, SendInv, idle, sendVars
<1>11. ASSUME NEW n \in Nodes, stopNode(n) PROVE SendInv'
  BY <1>11 DEF stopNode, SendInv, idle, sendVars
<1>12. CASE wakeNode
  BY <1>12 DEF wakeNode, SendInv, idle, sendVars
<1>13. CASE pauseOver
  BY <1>13 DEF pauseOver, SendInv, idle, sendVars
<1>14. ASSUME NEW n \in Nodes, clearQueue(n) PROVE SendInv'
  BY <1>14 DEF clearQueue, SendInv, idle, sendVars
<1>15. ASSUME NEW n \in Nodes, joinThread(n) PROVE SendInv'
  BY <1>15 DEF joinThread, TypeOK, SendInv, idle, sendVars
<1>16. CASE run
  BY <1>16, NodeFacts DEF run, TypeOK, SendInv, idle, sendVars
<1>17. ASSUME NEW r \in Routers, addLink(r) PROVE SendInv'
  BY <1>17, NodeFacts DEF addLink, SendInv, idle
<1>18. CASE shutDown
  BY <1>18 DEF shutDown, SendInv, idle, sendVars
<1> QED BY <1>1, <1>2, <1>3, <1>4, <1>5, <1>6, <1>7, <1>8, <1>9, <1>10, <1>11,
     <1>12, <1>13, <1>14, <1>15, <1>16, <1>17, <1>18
  DEF Next, NodeStep, SendStep, MainStep, Command

-----------------------------------------------------------------------------
\* Counting one more and one less.
LEMMA CountFacts ==
  ASSUME NEW S \in SUBSET Nodes, NEW n \in Nodes
  PROVE  /\ Cardinality(S) \in Nat
         /\ n \notin S => Cardinality(S \cup {n}) = Cardinality(S) + 1
         /\ n \in S => Cardinality(S \ {n}) = Cardinality(S) - 1
<1>1. IsFiniteSet(S)
  BY NodesAssumption, FS_Subset
<1> QED BY <1>1, FS_CardinalityType, FS_AddElement, FS_RemoveElement

\* Every step keeps the count of the running threads.
LEMMA CountStep ==
  ASSUME TypeOK, StopInv, CountInv, Next
  PROVE  CountInv'
<1> DEFINE Running == {m \in Nodes : m_isRunning(m)}
<1>same. ASSUME UNCHANGED m_runningNodeCounter, Running' = Running PROVE CountInv'
  BY <1>same DEF CountInv
<1>1. ASSUME NEW n \in Nodes, begin(n) PROVE CountInv'
  <2>1. n \notin Running /\ Running' = Running \cup {n}
    BY <1>1 DEF begin, TypeOK, m_isRunning
  <2>2. m_runningNodeCounter' = m_runningNodeCounter + 1
    BY <1>1 DEF begin
  <2> QED BY <2>1, <2>2, CountFacts DEF CountInv
<1>2. ASSUME NEW n \in Nodes, leave(n) PROVE CountInv'
  <2>1. n \in Running /\ Running' = Running \ {n}
    BY <1>2 DEF leave, TypeOK, m_isRunning
  <2>2. m_runningNodeCounter' = m_runningNodeCounter - 1
    BY <1>2 DEF leave
  <2> QED BY <2>1, <2>2, CountFacts DEF CountInv
<1>3. ASSUME NEW n \in Routers, nextEntry(n) PROVE CountInv'
  BY <1>3, <1>same DEF nextEntry, TypeOK, m_isRunning
<1>4. ASSUME NEW n \in Nodes, dequeueRouting(n) PROVE CountInv'
  BY <1>4, <1>same DEF dequeueRouting, TypeOK, m_isRunning, isWaiting
<1>5. ASSUME NEW n \in Nodes, dequeueNull(n) PROVE CountInv'
  BY <1>5, <1>same DEF dequeueNull, TypeOK, m_isRunning, isWaiting, StopInv
<1>6. ASSUME NEW n \in Nodes, decConvergeCounter(n) PROVE CountInv'
  BY <1>6, <1>same DEF decConvergeCounter, m_isRunning
<1>7. ASSUME NEW n \in Nodes, joinThread(n) PROVE CountInv'
  BY <1>7, <1>same DEF joinThread, TypeOK, m_isRunning
<1>8. CASE run
  BY <1>8, <1>same DEF run, m_isRunning
<1>9. CASE UNCHANGED <<thread, m_runningNodeCounter>>
  BY <1>9, <1>same DEF m_isRunning
<1> QED BY <1>1, <1>2, <1>3, <1>4, <1>5, <1>6, <1>7, <1>8, <1>9
  DEF Next, NodeStep, SendStep, takeMessage, incConvergeCounter, MainStep,
      waitForConverge, linkAdded, stopNode, wakeNode, pauseOver, clearQueue,
      Command, addLink, shutDown

-----------------------------------------------------------------------------
\* Every step keeps the null message in the queue of a node that is to leave.
LEMMA WokenStep ==
  ASSUME TypeOK, StopInv, WokenInv, Next
  PROVE  WokenInv'
<1>1. ASSUME NEW n \in Nodes, begin(n) PROVE WokenInv'
  BY <1>1 DEF begin, TypeOK, WokenInv, mainVars
<1>2. ASSUME NEW n \in Routers, nextEntry(n) PROVE WokenInv'
  BY <1>2 DEF nextEntry, TypeOK, WokenInv, mainVars
<1>3. ASSUME NEW n \in Nodes, dequeueRouting(n) PROVE WokenInv'
  BY <1>3 DEF dequeueRouting, TypeOK, StopInv, NotYetStopped, WokenInv, isWaiting, mainVars
<1>4. ASSUME NEW n \in Nodes, dequeueNull(n) PROVE WokenInv'
  BY <1>4 DEF dequeueNull, TypeOK, StopInv, NotYetStopped, WokenInv, isWaiting, mainVars
<1>5. ASSUME NEW n \in Nodes, decConvergeCounter(n) PROVE WokenInv'
  BY <1>5 DEF decConvergeCounter, TypeOK, WokenInv, mainVars
<1>6. ASSUME NEW n \in Nodes, leave(n) PROVE WokenInv'
  BY <1>6 DEF leave, TypeOK, StopInv, NotYetStopped, WokenInv, mainVars
<1>7. ASSUME NEW s \in Senders, takeMessage(s) PROVE WokenInv'
  BY <1>7 DEF takeMessage, TypeOK, WokenInv, mainVars
<1>8. ASSUME NEW s \in Senders, incConvergeCounter(s) PROVE WokenInv'
  BY <1>8 DEF incConvergeCounter, TypeOK, WokenInv, mainVars
<1>9. CASE waitForConverge
  BY <1>9 DEF waitForConverge, TypeOK, WokenInv
<1>10. CASE linkAdded
  BY <1>10 DEF linkAdded, TypeOK, WokenInv
<1>11. ASSUME NEW n \in Nodes, stopNode(n) PROVE WokenInv'
  BY <1>11 DEF stopNode, TypeOK, StopInv, NotYetStopped, WokenInv
<1>12. CASE wakeNode
  BY <1>12 DEF wakeNode, TypeOK, StopInv, NotYetStopped, WokenInv
<1>13. CASE pauseOver
  BY <1>13 DEF pauseOver, TypeOK, WokenInv
<1>14. ASSUME NEW n \in Nodes, clearQueue(n) PROVE WokenInv'
  BY <1>14 DEF clearQueue, TypeOK, StopInv, NotYetStopped, WokenInv
<1>15. ASSUME NEW n \in Nodes, joinThread(n) PROVE WokenInv'
  BY <1>15 DEF joinThread, TypeOK, WokenInv
<1>16. CASE run
  BY <1>16 DEF run, TypeOK, WokenInv
<1>17. ASSUME NEW r \in Routers, addLink(r) PROVE WokenInv'
  BY <1>17 DEF addLink, TypeOK, WokenInv
<1>18. CASE shutDown
  BY <1>18 DEF shutDown, TypeOK, WokenInv
<1> QED BY <1>1, <1>2, <1>3, <1>4, <1>5, <1>6, <1>7, <1>8, <1>9, <1>10, <1>11,
     <1>12, <1>13, <1>14, <1>15, <1>16, <1>17, <1>18
  DEF Next, NodeStep, SendStep, MainStep, Command

-----------------------------------------------------------------------------
\* Every step keeps the cleared queues empty but for late messages.
LEMMA QuietStep ==
  ASSUME TypeOK, StopInv, WokenInv, SendInv, QuietInv, Next
  PROVE  QuietInv'
<1>1. ASSUME NEW n \in Nodes, begin(n) PROVE QuietInv'
  BY <1>1 DEF begin, TypeOK, QuietInv, historyVars, mainVars
<1>2. ASSUME NEW n \in Routers, nextEntry(n) PROVE QuietInv'
  BY <1>2 DEF nextEntry, TypeOK, QuietInv, historyVars, mainVars
<1>3. ASSUME NEW n \in Nodes, dequeueRouting(n) PROVE QuietInv'
  BY <1>3 DEF dequeueRouting, TypeOK, QuietInv, isWaiting, historyVars, mainVars
<1>4. ASSUME NEW n \in Nodes, dequeueNull(n) PROVE QuietInv'
  BY <1>4 DEF dequeueNull, TypeOK, QuietInv, isWaiting, historyVars, mainVars
<1>5. ASSUME NEW n \in Nodes, decConvergeCounter(n) PROVE QuietInv'
  BY <1>5 DEF decConvergeCounter, TypeOK, QuietInv, historyVars, mainVars
<1>6. ASSUME NEW n \in Nodes, leave(n) PROVE QuietInv'
  BY <1>6 DEF leave, TypeOK, QuietInv, historyVars, mainVars
<1>7. ASSUME NEW s \in Senders, takeMessage(s) PROVE QuietInv'
  <2>1. ASSUME NEW n \in Nodes, thread[n] \in {"finished", "none"} PROVE ~m_mustStop[n]
    BY <2>1 DEF StopInv
  <2>2. s = Main => pc = "linking"
    BY <1>7 DEF takeMessage, SendInv, idle
  <2>3. s \in Routers => thread[s] \in {"starting", "handling"}
    BY <1>7 DEF takeMessage, SendInv, idle
  <2> QED BY <1>7, <2>1, <2>2, <2>3, NodeFacts
      DEF takeMessage, TypeOK, QuietInv, StopInv, mainVars
<1>8. ASSUME NEW s \in Senders, incConvergeCounter(s) PROVE QuietInv'
  BY <1>8 DEF incConvergeCounter, TypeOK, QuietInv, historyVars, mainVars
<1>9. CASE waitForConverge
  BY <1>9 DEF waitForConverge, TypeOK, StopInv, QuietInv, historyVars
<1>10. CASE linkAdded
  BY <1>10 DEF linkAdded, TypeOK, StopInv, QuietInv, historyVars
<1>11. ASSUME NEW n \in Nodes, stopNode(n) PROVE QuietInv'
  BY <1>11 DEF stopNode, TypeOK, QuietInv, historyVars
<1>12. CASE wakeNode
  BY <1>12 DEF wakeNode, TypeOK, QuietInv, historyVars
<1>13. CASE pauseOver
  <2>1. ASSUME NEW n \in Nodes, ~cutShort' PROVE thread[n] = "finished"
    <3>1. thread[n] = "finished" \/ isAsleep(n)
      BY <1>13, <2>1, ZenonT(20) DEF pauseOver
    <3>2. nullIn[n] > 0 \/ thread[n] \in {"leaving", "finished"}
      BY <1>13 DEF pauseOver, WokenInv
    <3> QED BY <3>1, <3>2 DEF isAsleep, isWaiting
  <2>2. ASSUME NEW n \in Nodes, ~m_mustStop[n] PROVE thread[n] \in {"finished", "none"}
    BY <1>13, <2>2 DEF pauseOver, StopInv, WokenInv
  <2> QED BY <1>13, <2>1, <2>2 DEF pauseOver, TypeOK, QuietInv
<1>14. ASSUME NEW n \in Nodes, clearQueue(n) PROVE QuietInv'
  BY <1>14 DEF clearQueue, TypeOK, QuietInv, historyVars
<1>15. ASSUME NEW n \in Nodes, joinThread(n) PROVE QuietInv'
  BY <1>15 DEF joinThread, TypeOK, QuietInv, historyVars
<1>16. CASE run
  BY <1>16 DEF run, TypeOK, QuietInv
<1>17. ASSUME NEW r \in Routers, addLink(r) PROVE QuietInv'
  BY <1>17 DEF addLink, TypeOK, QuietInv, historyVars
<1>18. CASE shutDown
  BY <1>18 DEF shutDown, TypeOK, QuietInv
<1> QED BY <1>1, <1>2, <1>3, <1>4, <1>5, <1>6, <1>7, <1>8, <1>9, <1>10, <1>11,
     <1>12, <1>13, <1>14, <1>15, <1>16, <1>17, <1>18
  DEF Next, NodeStep, SendStep, MainStep, Command

-----------------------------------------------------------------------------
LEMMA InitLife == Init => LifeInv
<1> SUFFICES ASSUME Init PROVE LifeInv
  OBVIOUS
<1>1. TypeOK
  <2>1. 0 \in 0 .. CounterSize - 1
    BY CounterAssumption
  <2>2. pc = "prompt" /\ cutShort \in BOOLEAN
    BY DEF Init
  <2> QED BY <2>1, <2>2 DEF Init, TypeOK
<1>2. StopInv
  BY DEF Init, StopInv, NotYetStopped
<1>3. SendInv
  BY NodeFacts DEF Init, SendInv, idle
<1>4. CountInv
  <2>1. {n \in Nodes : m_isRunning(n)} = {}
    BY DEF Init, m_isRunning
  <2> QED BY <2>1, FS_EmptySet DEF Init, CountInv
<1>5. WokenInv /\ QuietInv
  BY DEF Init, WokenInv, QuietInv
<1> QED BY <1>1, <1>2, <1>3, <1>4, <1>5 DEF LifeInv

LEMMA StepLife == LifeInv /\ [Next]_vars => LifeInv'
<1> SUFFICES ASSUME LifeInv, [Next]_vars PROVE LifeInv'
  OBVIOUS
<1>1. CASE Next
  BY <1>1, TypeStep, StopStep, WokenStep, SendInvStep, CountStep, QuietStep DEF LifeInv
<1>2. CASE UNCHANGED vars
  BY <1>2
  DEF LifeInv, TypeOK, StopInv, NotYetStopped, WokenInv, SendInv, idle, CountInv,
              m_isRunning, QuietInv, vars
<1> QED BY <1>1, <1>2

-----------------------------------------------------------------------------
\* The inductive invariant holds in every network, for any number of runs and
\* whatever the speed of the threads (shutDown, startNode, takeMessage).
THEOREM LifeInvariant == Spec => []LifeInv
BY InitLife, StepLife, PTL DEF Spec

\* Every variable keeps its type.
THEOREM LifeTypes == Spec => []TypeOK
<1>1. LifeInv => TypeOK
  BY DEF LifeInv
<1> QED BY <1>1, LifeInvariant, PTL

\* No node dereferences the null message that stopNode enqueues, however slow
\* its thread is and whatever it is doing when it is stopped.
THEOREM NullSafe == Spec => []NullNeverHandled
<1>1. LifeInv => NullNeverHandled
  BY DEF LifeInv, StopInv, NullNeverHandled
<1> QED BY <1>1, LifeInvariant, PTL

\* Whenever the user may give a command no flag and no null message of an
\* earlier "shut down" is left, also if its pause was too short.
THEOREM NoStopRemains == Spec => []NoStopLeft
<1>1. LifeInv => NoStopLeft
  BY DEF LifeInv, StopInv, NotYetStopped, NoStopLeft
<1> QED BY <1>1, LifeInvariant, PTL

\* When shutDown returns no thread is counted as running and no broadcast is
\* half done, and what a queue holds was sent after the receiver's thread had
\* ended, by one that the pause was too short for: of any number of nodes, in
\* any run, at any speed.
THEOREM CleanShutDown == Spec => []CleanAfterShutDown
<1>1. LifeInv => CleanAfterShutDown
  <2> SUFFICES ASSUME LifeInv, pc = "prompt", \A n \in Nodes : thread[n] = "none"
               PROVE  /\ \A n \in Nodes : routingIn[n] > 0 => cutShort /\ n \in late
                      /\ \A r \in Routers : idle(r)
                      /\ m_runningNodeCounter = 0
    BY DEF CleanAfterShutDown
  <2>1. \A n \in Nodes : routingIn[n] > 0 => cutShort /\ n \in late
    BY DEF LifeInv, QuietInv
  <2>2. \A r \in Routers : idle(r)
    BY NodeFacts DEF LifeInv, SendInv
  <2>3. {n \in Nodes : m_isRunning(n)} = {}
    BY DEF m_isRunning
  <2>4. m_runningNodeCounter = 0
    BY <2>3, FS_EmptySet DEF LifeInv, CountInv
  <2> QED BY <2>1, <2>2, <2>4
<1> QED BY <1>1, LifeInvariant, PTL
=============================================================================
