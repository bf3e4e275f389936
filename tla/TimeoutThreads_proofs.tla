------------------------ MODULE TimeoutThreads_proofs ------------------------
(***************************************************************************)
(* Proofs about the timeout threads of a connection, for any number of     *)
(* them: as long as every command comes in its turn (RacesAreOutOfTurn), the *)
(* lock that stopTimeout gives up in the middle of its caller lets nothing *)
(* in that would race, one timeout runs while it is needed, and none is    *)
(* left behind.  TimeoutInv is the inductive invariant; there is a lemma   *)
(* for each action, first for what holds always (types, places and the     *)
(* elements in m_timeoutNotifier), then for what holds in turn.            *)
(***************************************************************************)
EXTENDS TimeoutThreads, FiniteSetTheorems, TLAPS

LEMMA ActorFacts == Host # Main /\ Host \notin Timers /\ Main \notin Timers
BY ThreadsAssumption

-----------------------------------------------------------------------------
\* The host thread: handleAck, and the repetition of a message.
LEMMA readIsOpenStep ==
  ASSUME TimeoutInv, ~undefined, readIsOpen
  PROVE  TimeoutInv'
<1> USE ActorFacts DEF TimeoutInv, Before, Joining, After, Actors, shared, flags,
       readIsOpen, goto
<1>1. TypeOK' /\ PlacesOK' /\ NotifierCounts'
  BY DEF TypeOK, PlacesOK, NotifierCounts
<1>2. ASSUME ~outOfTurn'
      PROVE  ~undefined' /\ Alone' /\ Assured' /\ ShutDown'
  BY <1>1, <1>2
  DEF TypeOK, PlacesOK, Alone, OneActive, Needed, Assured, ShutDown, active
<1>3. ASSUME ~outOfTurn'
      PROVE  OneActive' /\ Needed'
  BY <1>1, <1>2, <1>3
  DEF TypeOK, PlacesOK, Alone, OneActive, Needed, Assured, ShutDown, active
<1> QED BY <1>1, <1>2, <1>3

LEMMA handleOtherAckStep ==
  ASSUME TimeoutInv, ~undefined, handleOtherAck
  PROVE  TimeoutInv'
<1> USE ActorFacts DEF TimeoutInv, Before, Joining, After, Actors, shared, flags,
       handleOtherAck, goto
<1>1. TypeOK' /\ PlacesOK' /\ NotifierCounts'
  BY DEF TypeOK, PlacesOK, NotifierCounts
<1>2. ASSUME ~outOfTurn'
      PROVE  ~undefined' /\ Alone' /\ Assured' /\ ShutDown'
  BY <1>1, <1>2
  DEF TypeOK, PlacesOK, Alone, OneActive, Needed, Assured, ShutDown, active
<1>3. ASSUME ~outOfTurn'
      PROVE  OneActive' /\ Needed'
  BY <1>1, <1>2, <1>3
  DEF TypeOK, PlacesOK, Alone, OneActive, Needed, Assured, ShutDown, active
<1> QED BY <1>1, <1>2, <1>3

LEMMA handleAckStep ==
  ASSUME TimeoutInv, ~undefined, handleAck
  PROVE  TimeoutInv'
<1> USE ActorFacts DEF TimeoutInv, Before, Joining, After, Actors, shared, flags,
       handleAck, stopTimeout, other, goto
<1>1. TypeOK' /\ PlacesOK' /\ NotifierCounts'
  <2>1. PlacesOK'
    BY DEF TypeOK, PlacesOK, NotifierCounts
  <2>2. NotifierCounts'
    BY DEF TypeOK, PlacesOK, NotifierCounts
  <2>3. undefined' \in BOOLEAN
    BY Zenon
  <2>4. m_timeoutNotifier' \in 0..2
    BY <2>2 DEF TypeOK, PlacesOK, NotifierCounts
  <2>5. TypeOK'
    BY <2>3, <2>4, Zenon DEF TypeOK
  <2> QED BY <2>1, <2>2, <2>5
<1>2. ASSUME ~outOfTurn'
      PROVE  ~undefined' /\ Alone' /\ Assured' /\ ShutDown'
  BY <1>1, <1>2
  DEF TypeOK, PlacesOK, Alone, OneActive, Needed, Assured, ShutDown, active
<1>3. ASSUME ~outOfTurn'
      PROVE  OneActive' /\ Needed'
  BY <1>1, <1>2, <1>3
  DEF TypeOK, PlacesOK, Alone, OneActive, Needed, Assured, ShutDown, active
<1> QED BY <1>1, <1>2, <1>3

LEMMA sendNextWindowStep ==
  ASSUME TimeoutInv, ~undefined, sendNextWindow
  PROVE  TimeoutInv'
<1> USE ActorFacts DEF TimeoutInv, Before, Joining, After, Actors, shared, flags,
       sendNextWindow, startTimeout, goto
<1>1. TypeOK' /\ PlacesOK' /\ NotifierCounts'
  BY DEF TypeOK, PlacesOK, NotifierCounts
<1>2. ASSUME ~outOfTurn'
      PROVE  ~undefined' /\ Alone' /\ Assured' /\ ShutDown'
  BY <1>1, <1>2
  DEF TypeOK, PlacesOK, Alone, OneActive, Needed, Assured, ShutDown, active
<1>3. ASSUME ~outOfTurn'
      PROVE  OneActive' /\ Needed'
  BY <1>1, <1>2, <1>3
  DEF TypeOK, PlacesOK, Alone, OneActive, Needed, Assured, ShutDown, active
<1> QED BY <1>1, <1>2, <1>3

LEMMA onDataSentCompletelyStep ==
  ASSUME TimeoutInv, ~undefined, onDataSentCompletely
  PROVE  TimeoutInv'
<1> USE ActorFacts DEF TimeoutInv, Before, Joining, After, Actors, shared, flags,
       onDataSentCompletely, stopTimeout, other, goto
<1>1. TypeOK' /\ PlacesOK' /\ NotifierCounts'
  <2>1. PlacesOK'
    BY DEF TypeOK, PlacesOK, NotifierCounts
  <2>2. NotifierCounts'
    BY DEF TypeOK, PlacesOK, NotifierCounts
  <2>3. undefined' \in BOOLEAN
    BY Zenon
  <2>4. m_timeoutNotifier' \in 0..2
    BY <2>2 DEF TypeOK, PlacesOK, NotifierCounts
  <2>5. TypeOK'
    BY <2>3, <2>4, Zenon DEF TypeOK
  <2> QED BY <2>1, <2>2, <2>5
<1>2. ASSUME ~outOfTurn'
      PROVE  ~undefined' /\ Alone' /\ Assured' /\ ShutDown'
  BY <1>1, <1>2
  DEF TypeOK, PlacesOK, Alone, OneActive, Needed, Assured, ShutDown, active
<1>3. ASSUME ~outOfTurn'
      PROVE  OneActive' /\ Needed'
  BY <1>1, <1>2, <1>3
  DEF TypeOK, PlacesOK, Alone, OneActive, Needed, Assured, ShutDown, active
<1> QED BY <1>1, <1>2, <1>3

LEMMA stoppedStep ==
  ASSUME TimeoutInv, ~undefined, stopped
  PROVE  TimeoutInv'
<1> USE ActorFacts DEF TimeoutInv, Before, Joining, After, Actors, shared, flags,
       stopped, goto
<1>1. TypeOK' /\ PlacesOK' /\ NotifierCounts'
  BY DEF TypeOK, PlacesOK, NotifierCounts
<1>2. ASSUME ~outOfTurn'
      PROVE  ~undefined' /\ Alone' /\ Assured' /\ ShutDown'
  BY <1>1, <1>2
  DEF TypeOK, PlacesOK, Alone, OneActive, Needed, Assured, ShutDown, active
<1>3. ASSUME ~outOfTurn'
      PROVE  OneActive' /\ Needed'
  BY <1>1, <1>2, <1>3
  DEF TypeOK, PlacesOK, Alone, OneActive, Needed, Assured, ShutDown, active
<1> QED BY <1>1, <1>2, <1>3

LEMMA wakeUpStep ==
  ASSUME TimeoutInv, ~undefined, wakeUp
  PROVE  TimeoutInv'
<1> USE ActorFacts DEF TimeoutInv, Before, Joining, After, Actors, shared, flags,
       wakeUp, goto
<1>1. TypeOK' /\ PlacesOK' /\ NotifierCounts'
  BY DEF TypeOK, PlacesOK, NotifierCounts
<1>2. ASSUME ~outOfTurn'
      PROVE  ~undefined' /\ Alone' /\ Assured' /\ ShutDown'
  BY <1>1, <1>2
  DEF TypeOK, PlacesOK, Alone, OneActive, Needed, Assured, ShutDown, active
<1>3. ASSUME ~outOfTurn'
      PROVE  OneActive' /\ Needed'
  BY <1>1, <1>2, <1>3
  DEF TypeOK, PlacesOK, Alone, OneActive, Needed, Assured, ShutDown, active
<1> QED BY <1>1, <1>2, <1>3

LEMMA sendAgainStep ==
  ASSUME TimeoutInv, ~undefined, sendAgain
  PROVE  TimeoutInv'
<1> USE ActorFacts DEF TimeoutInv, Before, Joining, After, Actors, shared, flags,
       sendAgain, startTimeout, goto
<1>1. TypeOK' /\ PlacesOK' /\ NotifierCounts'
  BY DEF TypeOK, PlacesOK, NotifierCounts
<1>2. ASSUME ~outOfTurn'
      PROVE  ~undefined' /\ Alone' /\ Assured' /\ ShutDown'
  BY <1>1, <1>2
  DEF TypeOK, PlacesOK, Alone, OneActive, Needed, Assured, ShutDown, active
<1>3. ASSUME ~outOfTurn'
      PROVE  OneActive' /\ Needed'
  BY <1>1, <1>2, <1>3
  DEF TypeOK, PlacesOK, Alone, OneActive, Needed, Assured, ShutDown, active
<1> QED BY <1>1, <1>2, <1>3

-----------------------------------------------------------------------------
\* stopTimeout, closeConnection and resetConnection, of either thread.
LEMMA joinStep ==
  ASSUME TimeoutInv, ~undefined, NEW a \in Actors, join(a)
  PROVE  TimeoutInv'
<1> USE ActorFacts DEF TimeoutInv, Before, Joining, After, Actors, shared, flags,
       join, goto
<1>1. TypeOK' /\ PlacesOK' /\ NotifierCounts'
  BY DEF TypeOK, PlacesOK, NotifierCounts
<1>2. ASSUME ~outOfTurn'
      PROVE  ~undefined' /\ Alone' /\ Assured' /\ ShutDown'
  BY <1>1, <1>2
  DEF TypeOK, PlacesOK, Alone, OneActive, Needed, Assured, ShutDown, active
<1>3. ASSUME ~outOfTurn'
      PROVE  OneActive' /\ Needed'
  BY <1>1, <1>2, <1>3
  DEF TypeOK, PlacesOK, Alone, OneActive, Needed, Assured, ShutDown, active
<1> QED BY <1>1, <1>2, <1>3

LEMMA relockStep ==
  ASSUME TimeoutInv, ~undefined, NEW a \in Actors, relock(a)
  PROVE  TimeoutInv'
<1> USE ActorFacts DEF TimeoutInv, Before, Joining, After, Actors, shared, flags,
       relock, goto
<1>1. TypeOK' /\ PlacesOK' /\ NotifierCounts'
  BY DEF TypeOK, PlacesOK, NotifierCounts
<1>2. ASSUME ~outOfTurn'
      PROVE  ~undefined' /\ Alone' /\ Assured' /\ ShutDown'
  BY <1>1, <1>2
  DEF TypeOK, PlacesOK, Alone, OneActive, Needed, Assured, ShutDown, active
<1>3. ASSUME ~outOfTurn'
      PROVE  OneActive' /\ Needed'
  BY <1>1, <1>2, <1>3
  DEF TypeOK, PlacesOK, Alone, OneActive, Needed, Assured, ShutDown, active
<1> QED BY <1>1, <1>2, <1>3

LEMMA closeConnectionStep ==
  ASSUME TimeoutInv, ~undefined, NEW a \in Actors, closeConnection(a)
  PROVE  TimeoutInv'
<1> USE ActorFacts DEF TimeoutInv, Before, Joining, After, Actors, shared, flags,
       closeConnection, stopTimeout, other, goto
<1>1. TypeOK' /\ PlacesOK' /\ NotifierCounts'
  <2>1. PlacesOK'
    BY DEF TypeOK, PlacesOK, NotifierCounts
  <2>2. NotifierCounts'
    BY DEF TypeOK, PlacesOK, NotifierCounts
  <2>3. undefined' \in BOOLEAN
    BY Zenon
  <2>4. m_timeoutNotifier' \in 0..2
    BY <2>2 DEF TypeOK, PlacesOK, NotifierCounts
  <2>5. TypeOK'
    BY <2>3, <2>4, Zenon DEF TypeOK
  <2> QED BY <2>1, <2>2, <2>5
<1>2. ASSUME ~outOfTurn'
      PROVE  ~undefined' /\ Alone' /\ Assured' /\ ShutDown'
  BY <1>1, <1>2
  DEF TypeOK, PlacesOK, Alone, OneActive, Needed, Assured, ShutDown, active
<1>3. ASSUME ~outOfTurn'
      PROVE  OneActive' /\ Needed'
  BY <1>1, <1>2, <1>3
  DEF TypeOK, PlacesOK, Alone, OneActive, Needed, Assured, ShutDown, active
<1> QED BY <1>1, <1>2, <1>3

LEMMA closedStep ==
  ASSUME TimeoutInv, ~undefined, NEW a \in Actors, closed(a)
  PROVE  TimeoutInv'
<1> USE ActorFacts DEF TimeoutInv, Before, Joining, After, Actors, shared, flags,
       closed, goto
<1>1. TypeOK' /\ PlacesOK' /\ NotifierCounts'
  BY DEF TypeOK, PlacesOK, NotifierCounts
<1>2. ASSUME ~outOfTurn'
      PROVE  ~undefined' /\ Alone' /\ Assured' /\ ShutDown'
  BY <1>1, <1>2
  DEF TypeOK, PlacesOK, Alone, OneActive, Needed, Assured, ShutDown, active
<1>3. ASSUME ~outOfTurn'
      PROVE  OneActive' /\ Needed'
  BY <1>1, <1>2, <1>3
  DEF TypeOK, PlacesOK, Alone, OneActive, Needed, Assured, ShutDown, active
<1> QED BY <1>1, <1>2, <1>3

LEMMA resetConnectionStep ==
  ASSUME TimeoutInv, ~undefined, NEW a \in Actors, resetConnection(a)
  PROVE  TimeoutInv'
<1> USE ActorFacts DEF TimeoutInv, Before, Joining, After, Actors, shared, flags,
       resetConnection, renew, goto
<1>1. TypeOK' /\ PlacesOK' /\ NotifierCounts'
  <2>1. PlacesOK'
    BY DEF TypeOK, PlacesOK, NotifierCounts
  <2>2. NotifierCounts'
    BY DEF TypeOK, PlacesOK, NotifierCounts
  <2>3. undefined' \in BOOLEAN
    BY Zenon
  <2>4. m_timeoutNotifier' \in 0..2
    BY <2>2 DEF TypeOK, PlacesOK, NotifierCounts
  <2>5. TypeOK'
    BY <2>3, <2>4, Zenon DEF TypeOK
  <2> QED BY <2>1, <2>2, <2>5
<1>2. ASSUME ~outOfTurn'
      PROVE  ~undefined' /\ Alone' /\ Assured' /\ ShutDown'
  BY <1>1, <1>2
  DEF TypeOK, PlacesOK, Alone, OneActive, Needed, Assured, ShutDown, active
<1>3. ASSUME ~outOfTurn'
      PROVE  OneActive' /\ Needed'
  BY <1>1, <1>2, <1>3
  DEF TypeOK, PlacesOK, Alone, OneActive, Needed, Assured, ShutDown, active
<1> QED BY <1>1, <1>2, <1>3

-----------------------------------------------------------------------------
\* The main thread: commands.
LEMMA sendMessageStep ==
  ASSUME TimeoutInv, ~undefined, sendMessage
  PROVE  TimeoutInv'
<1> USE ActorFacts DEF TimeoutInv, Before, Joining, After, Actors, shared, flags,
       sendMessage, command, goto
<1>1. TypeOK' /\ PlacesOK' /\ NotifierCounts'
  BY DEF TypeOK, PlacesOK, NotifierCounts
<1>2. ASSUME ~outOfTurn'
      PROVE  ~undefined' /\ Alone' /\ Assured' /\ ShutDown'
  BY <1>1, <1>2
  DEF TypeOK, PlacesOK, Alone, OneActive, Needed, Assured, ShutDown, active
<1>3. ASSUME ~outOfTurn'
      PROVE  OneActive' /\ Needed'
  BY <1>1, <1>2, <1>3
  DEF TypeOK, PlacesOK, Alone, OneActive, Needed, Assured, ShutDown, active
<1> QED BY <1>1, <1>2, <1>3

LEMMA packetizeStep ==
  ASSUME TimeoutInv, ~undefined, packetize
  PROVE  TimeoutInv'
<1> USE ActorFacts DEF TimeoutInv, Before, Joining, After, Actors, shared, flags,
       packetize, goto
<1>1. TypeOK' /\ PlacesOK' /\ NotifierCounts'
  BY DEF TypeOK, PlacesOK, NotifierCounts
<1>2. ASSUME ~outOfTurn'
      PROVE  ~undefined' /\ Alone' /\ Assured' /\ ShutDown'
  BY <1>1, <1>2
  DEF TypeOK, PlacesOK, Alone, OneActive, Needed, Assured, ShutDown, active
<1>3. ASSUME ~outOfTurn'
      PROVE  OneActive' /\ Needed'
  BY <1>1, <1>2, <1>3
  DEF TypeOK, PlacesOK, Alone, OneActive, Needed, Assured, ShutDown, active
<1> QED BY <1>1, <1>2, <1>3

LEMMA allowTimeoutStep ==
  ASSUME TimeoutInv, ~undefined, allowTimeout
  PROVE  TimeoutInv'
<1> USE ActorFacts DEF TimeoutInv, Before, Joining, After, Actors, shared, flags,
       allowTimeout, goto
<1>1. TypeOK' /\ PlacesOK' /\ NotifierCounts'
  BY DEF TypeOK, PlacesOK, NotifierCounts
<1>2. ASSUME ~outOfTurn'
      PROVE  ~undefined' /\ Alone' /\ Assured' /\ ShutDown'
  BY <1>1, <1>2
  DEF TypeOK, PlacesOK, Alone, OneActive, Needed, Assured, ShutDown, active
<1>3. ASSUME ~outOfTurn'
      PROVE  OneActive' /\ Needed'
  BY <1>1, <1>2, <1>3
  DEF TypeOK, PlacesOK, Alone, OneActive, Needed, Assured, ShutDown, active
<1> QED BY <1>1, <1>2, <1>3

LEMMA startFirstTimeoutStep ==
  ASSUME TimeoutInv, ~undefined, startFirstTimeout
  PROVE  TimeoutInv'
<1> USE ActorFacts DEF TimeoutInv, Before, Joining, After, Actors, shared, flags,
       startFirstTimeout, startTimeout, goto
<1>1. TypeOK' /\ PlacesOK' /\ NotifierCounts'
  BY DEF TypeOK, PlacesOK, NotifierCounts
<1>2. ASSUME ~outOfTurn'
      PROVE  ~undefined' /\ Alone' /\ Assured' /\ ShutDown'
  BY <1>1, <1>2
  DEF TypeOK, PlacesOK, Alone, OneActive, Needed, Assured, ShutDown, active
<1>3. ASSUME ~outOfTurn'
      PROVE  OneActive' /\ Needed'
  BY <1>1, <1>2, <1>3
  DEF TypeOK, PlacesOK, Alone, OneActive, Needed, Assured, ShutDown, active
<1> QED BY <1>1, <1>2, <1>3

LEMMA stopNodeStep ==
  ASSUME TimeoutInv, ~undefined, stopNode
  PROVE  TimeoutInv'
<1> USE ActorFacts DEF TimeoutInv, Before, Joining, After, Actors, shared, flags,
       stopNode, command, goto
<1>1. TypeOK' /\ PlacesOK' /\ NotifierCounts'
  BY DEF TypeOK, PlacesOK, NotifierCounts
<1>2. ASSUME ~outOfTurn'
      PROVE  ~undefined' /\ Alone' /\ Assured' /\ ShutDown'
  BY <1>1, <1>2
  DEF TypeOK, PlacesOK, Alone, OneActive, Needed, Assured, ShutDown, active
<1>3. ASSUME ~outOfTurn'
      PROVE  OneActive' /\ Needed'
  BY <1>1, <1>2, <1>3
  DEF TypeOK, PlacesOK, Alone, OneActive, Needed, Assured, ShutDown, active
<1> QED BY <1>1, <1>2, <1>3

LEMMA startNodeStep ==
  ASSUME TimeoutInv, ~undefined, startNode
  PROVE  TimeoutInv'
<1> USE ActorFacts DEF TimeoutInv, Before, Joining, After, Actors, shared, flags,
       startNode, renew
<1>1. TypeOK' /\ PlacesOK' /\ NotifierCounts'
  <2>1. PlacesOK'
    BY DEF TypeOK, PlacesOK, NotifierCounts
  <2>2. NotifierCounts'
    BY DEF TypeOK, PlacesOK, NotifierCounts
  <2>3. undefined' \in BOOLEAN
    BY Zenon
  <2>4. m_timeoutNotifier' \in 0..2
    BY <2>2 DEF TypeOK, PlacesOK, NotifierCounts
  <2>5. TypeOK'
    BY <2>3, <2>4, Zenon DEF TypeOK
  <2> QED BY <2>1, <2>2, <2>5
<1>2. ASSUME ~outOfTurn'
      PROVE  ~undefined' /\ Alone' /\ Assured' /\ ShutDown'
  BY <1>1, <1>2
  DEF TypeOK, PlacesOK, Alone, OneActive, Needed, Assured, ShutDown, active
<1>3. ASSUME ~outOfTurn'
      PROVE  OneActive' /\ Needed'
  BY <1>1, <1>2, <1>3
  DEF TypeOK, PlacesOK, Alone, OneActive, Needed, Assured, ShutDown, active
<1> QED BY <1>1, <1>2, <1>3

-----------------------------------------------------------------------------
\* A timeout thread.
LEMMA notifiedStep ==
  ASSUME TimeoutInv, ~undefined, NEW t \in Timers, notified(t)
  PROVE  TimeoutInv'
<1> USE ActorFacts DEF TimeoutInv, Before, Joining, After, Actors, shared, flags,
       notified
<1>1. TypeOK' /\ PlacesOK' /\ NotifierCounts'
  BY DEF TypeOK, PlacesOK, NotifierCounts
<1>2. ASSUME ~outOfTurn'
      PROVE  ~undefined' /\ Alone' /\ Assured' /\ ShutDown'
  BY <1>1, <1>2
  DEF TypeOK, PlacesOK, Alone, OneActive, Needed, Assured, ShutDown, active
<1>3. ASSUME ~outOfTurn'
      PROVE  OneActive' /\ Needed'
  <2>1. OneActive'
    BY <1>3 DEF TypeOK, OneActive, active, Needed, Assured
  <2>2. Needed'
    BY <1>3, <2>1
    DEF NotifierCounts, TypeOK, PlacesOK, Alone, OneActive, Needed, Assured, ShutDown, active
  <2> QED BY <2>1, <2>2
<1> QED BY <1>1, <1>2, <1>3

LEMMA expireStep ==
  ASSUME TimeoutInv, ~undefined, NEW t \in Timers, expire(t)
  PROVE  TimeoutInv'
<1> USE ActorFacts DEF TimeoutInv, Before, Joining, After, Actors, shared, flags,
       expire
<1>1. TypeOK' /\ PlacesOK' /\ NotifierCounts'
  BY DEF TypeOK, PlacesOK, NotifierCounts
<1>2. ASSUME ~outOfTurn'
      PROVE  ~undefined' /\ Alone' /\ Assured' /\ ShutDown'
  BY <1>1, <1>2
  DEF TypeOK, PlacesOK, Alone, OneActive, Needed, Assured, ShutDown, active
<1>3. ASSUME ~outOfTurn'
      PROVE  OneActive' /\ Needed'
  BY <1>1, <1>2, <1>3
  DEF TypeOK, PlacesOK, Alone, OneActive, Needed, Assured, ShutDown, active
<1> QED BY <1>1, <1>2, <1>3

LEMMA timeoutBodyStep ==
  ASSUME TimeoutInv, ~undefined, NEW t \in Timers, timeoutBody(t)
  PROVE  TimeoutInv'
<1> USE ActorFacts DEF TimeoutInv, Before, Joining, After, Actors, shared, flags,
       timeoutBody, startTimeout
<1>1. TypeOK' /\ PlacesOK' /\ NotifierCounts'
  BY DEF TypeOK, PlacesOK, NotifierCounts
<1>2. ASSUME ~outOfTurn'
      PROVE  ~undefined' /\ Alone' /\ Assured' /\ ShutDown'
  BY <1>1, <1>2
  DEF TypeOK, PlacesOK, Alone, OneActive, Needed, Assured, ShutDown, active
<1>3. ASSUME ~outOfTurn'
      PROVE  OneActive' /\ Needed'
  <2> USE <1>3 DEF TypeOK, OneActive, active
  <2>1. CASE m_isTimeoutAllowed /\ m_isOpen
    <3>1. PICK u \in Timers :
            /\ timer[u] = "none"
            /\ timer' = [v \in Timers |-> CASE v = u -> "waiting" [] v = t -> "ended" [] OTHER -> timer[v]]
            /\ m_timeoutThreads' = m_timeoutThreads \cup {u}
      BY <2>1
    <3>2. active' = {u}
      BY <2>1, <3>1
    <3>3. \A v \in Timers : timer'[v] # "none" <=> v \in m_timeoutThreads'
      BY <2>1, <3>1
    <3>4. OneActive'
      BY <3>2, <3>3
    <3>5. Needed'
      BY <2>1, <3>1, <3>2 DEF Needed, PlacesOK
    <3> QED BY <3>4, <3>5
  <2>2. CASE ~(m_isTimeoutAllowed /\ m_isOpen)
    BY <2>2 DEF Needed, PlacesOK
  <2> QED BY <2>1, <2>2
<1> QED BY <1>1, <1>2, <1>3

-----------------------------------------------------------------------------
\* Every step keeps the invariant.
LEMMA TimeoutStep ==
  ASSUME TimeoutInv, [Next]_vars
  PROVE  TimeoutInv'
<1>1. CASE ~undefined /\ (readIsOpen \/ HostStep)
  BY <1>1, readIsOpenStep, handleOtherAckStep, handleAckStep, sendNextWindowStep,
     onDataSentCompletelyStep, stoppedStep, wakeUpStep, sendAgainStep,
     joinStep, relockStep, closeConnectionStep, closedStep, resetConnectionStep
  DEF HostStep, Stop, Actors
<1>2. CASE ~undefined /\ (sendMessage \/ stopNode \/ startNode \/ MainStep)
  BY <1>2, sendMessageStep, stopNodeStep, startNodeStep, packetizeStep, allowTimeoutStep,
     startFirstTimeoutStep,
     joinStep, relockStep, closeConnectionStep, closedStep, resetConnectionStep
  DEF MainStep, Stop, Actors
<1>3. CASE ~undefined /\ \E t \in Timers : TimerStep(t)
  BY <1>3, notifiedStep, expireStep, timeoutBodyStep DEF TimerStep
<1>4. CASE UNCHANGED vars
  BY <1>4 DEF vars, shared, flags, TimeoutInv, TypeOK, PlacesOK, NotifierCounts, Alone,
     OneActive, Needed, Assured, ShutDown, active
<1> QED BY <1>1, <1>2, <1>3, <1>4 DEF Next

LEMMA TimeoutInit == Init => TimeoutInv
<1> SUFFICES ASSUME Init PROVE TimeoutInv
  OBVIOUS
<1> USE DEF Init, Before, Joining, After, Actors
<1>1. TypeOK
  <2>1. m_timeoutNotifier \in 0..2 /\ timer \in [Timers -> {"none", "waiting", "expired", "ended"}]
    BY SMT
  <2> QED BY <2>1, Zenon DEF TypeOK
<1>2. PlacesOK /\ NotifierCounts
  BY DEF PlacesOK, NotifierCounts
<1>3. Alone /\ OneActive /\ Needed /\ Assured /\ ShutDown
  BY DEF Alone, OneActive, Needed, Assured, ShutDown, active
<1> QED BY <1>1, <1>2, <1>3 DEF TimeoutInv

\* The inductive invariant of the three kinds of threads of a connection.
THEOREM TimeoutInvariant == Spec => []TimeoutInv
BY TimeoutInit, TimeoutStep, PTL DEF Spec

\* stopTimeout unlocks and joins, timeoutBody starts its successor: none of it
\* races, unless a command and the handling of an ack overlap or a message is
\* sent while the network does not run.
THEOREM NoRace == Spec => []RacesAreOutOfTurn
<1>1. TimeoutInv => RacesAreOutOfTurn
  BY DEF TimeoutInv, RacesAreOutOfTurn
<1> QED BY <1>1, TimeoutInvariant, PTL

\* No two timeout threads of a connection run at a time, and m_timeoutNotifier
\* stays short.
THEOREM SingleTimeout == Spec => []OneTimeout
<1>1. TimeoutInv => OneTimeout
  <2> SUFFICES ASSUME TimeoutInv, ~outOfTurn PROVE Cardinality(active) <= 1
    BY DEF OneTimeout, TimeoutInv
  <2>1. \A t, u \in active : t = u
    BY DEF TimeoutInv, OneActive
  <2>2. CASE active = {}
    BY <2>2, FS_EmptySet
  <2>3. CASE active # {}
    <3>1. PICK t \in active : TRUE
      BY <2>3
    <3>2. active = {t}
      BY <2>1
    <3>3. Cardinality({t}) = 1
      BY FS_Singleton
    <3> QED BY <3>2, <3>3
  <2> QED BY <2>2, <2>3
<1> QED BY <1>1, TimeoutInvariant, PTL

\* A sender that waits for acks has a timeout that will resend what is lost.
THEOREM TimeoutArmed == Spec => []SenderHasTimeout
<1>1. TimeoutInv => SenderHasTimeout
  BY ActorFacts DEF TimeoutInv, Needed, SenderHasTimeout, Before, Actors
<1> QED BY <1>1, TimeoutInvariant, PTL

\* What is sent or closed leaves no timeout thread for Host::startNode to destroy.
THEOREM NothingToDestroy == Spec => []NoThreadLeft
<1>1. TimeoutInv => NoThreadLeft
  BY ActorFacts DEF TimeoutInv, Needed, NoThreadLeft, Before, Actors
<1> QED BY <1>1, TimeoutInvariant, PTL
=============================================================================
