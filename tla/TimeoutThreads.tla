--------------------------- MODULE TimeoutThreads ---------------------------
(***************************************************************************)
(* The threads of one sending TCPConnection and its lock: the host thread, *)
(* which handles acks, the main thread, which sends messages and closes    *)
(* the connection, and the timeout threads (TCPConnection.cpp).            *)
(*                                                                         *)
(* stopTimeout cannot join the timeout threads with m_connectionLock held, *)
(* since they need it to end, so it unlocks the mutex its caller holds and *)
(* takes it again afterwards.  What may happen in this gap, and while      *)
(* sendMessage works without the lock, is what this module is about.  The  *)
(* packets are left out: which of its cases an ack is, is a free choice.   *)
(*                                                                         *)
(* Where two threads use m_timeoutThreads, m_timeoutNotifier or            *)
(* m_outBuffer at once, or a joinable std::thread is destroyed, the        *)
(* program has no defined behaviour: "undefined" records it and the model  *)
(* stops there.                                                            *)
(***************************************************************************)
EXTENDS Naturals, FiniteSets

CONSTANTS
  Host, Main,
  Timers        \* timeout threads that may exist at once: the bound of m_timeoutThreads

ASSUME ThreadsAssumption == Host # Main /\ {Host, Main} \cap Timers = {} /\ IsFiniteSet(Timers)

VARIABLES
  m_connectionLock,    \* who holds it
  m_isOpen,
  m_isTimeoutAllowed,
  m_timeoutNotifier,   \* number of elements in this queue
  m_timeoutThreads,    \* the threads in this vector
  timer,               \* where each timeout thread is
  pc,                  \* where the host and the main thread are
  then,                \* where they go on after stopTimeout
  sending,             \* there are packets in m_outBuffer that are not acked
  repeat,              \* m_repeatDelay # (uint64_t)-1
  outOfTurn,          \* history: see RacesAreOutOfTurn
  undefined,           \* history: a data race or a joinable thread destroyed
  running              \* between "run" and "shut down"

flags == <<then, repeat, outOfTurn, running>>
shared == <<m_isOpen, m_isTimeoutAllowed, m_timeoutNotifier, m_timeoutThreads, timer>>
vars == <<m_connectionLock, shared, pc, flags, sending, undefined>>

Actors == {Host, Main}
Free == "free"

Init ==
  /\ m_connectionLock = Free
  /\ m_isOpen = TRUE
  /\ m_isTimeoutAllowed = FALSE
  /\ m_timeoutNotifier = 0
  /\ m_timeoutThreads = {}
  /\ timer = [t \in Timers |-> "none"]
  /\ pc = [a \in Actors |-> "idle"]
  /\ then = [a \in Actors |-> "idle"]
  /\ sending = FALSE /\ repeat = FALSE
  /\ outOfTurn = FALSE /\ undefined = FALSE
  /\ running = TRUE

goto(a, where) == pc' = [pc EXCEPT ![a] = where]
other(a) == IF a = Host THEN Main ELSE Host

(* startTimeout: no other thread may be joining the elements of the vector.  A
   timeout thread that calls it returns then. *)
startTimeout(a) ==
  /\ \E t \in Timers :
       /\ timer[t] = "none"
       /\ timer' = [u \in Timers |-> CASE u = t -> "waiting" [] u = a -> "ended" [] OTHER -> timer[u]]
       /\ m_timeoutThreads' = m_timeoutThreads \cup {t}
  /\ undefined' = \E b \in Actors \ {a} : pc[b] = "join"

(* mutant: the lock is kept while the threads are joined *)
stopTimeout_locked(a, next) ==
  /\ m_isTimeoutAllowed' = FALSE
  /\ m_timeoutNotifier' = m_timeoutNotifier + 1
  /\ m_connectionLock' = a
  /\ goto(a, "join") /\ then' = [then EXCEPT ![a] = next]
  /\ undefined' = (pc[other(a)] = "join")
  /\ UNCHANGED <<m_timeoutThreads, timer, repeat, outOfTurn, running>>

(* stopTimeout, up to its unlock: the lock is free for others. *)
stopTimeout(a, next) ==
  /\ m_isTimeoutAllowed' = FALSE
  /\ m_timeoutNotifier' = m_timeoutNotifier + 1
  /\ m_connectionLock' = Free
  /\ goto(a, "join") /\ then' = [then EXCEPT ![a] = next]
  /\ undefined' = (pc[other(a)] = "join")
  /\ UNCHANGED <<m_timeoutThreads, timer, repeat, outOfTurn, running>>

(* mutant: the threads are not joined *)
join_noWait(a) ==
  /\ pc[a] = "join"
  /\ m_timeoutThreads' = {}
  /\ timer' = [t \in Timers |-> IF timer[t] = "ended" THEN "none" ELSE timer[t]]
  /\ goto(a, "relock")
  /\ UNCHANGED <<m_connectionLock, m_isOpen, m_isTimeoutAllowed, m_timeoutNotifier, flags,
                 sending, undefined>>

(* All timeout threads have ended; the vector is cleared. *)
join(a) ==
  /\ pc[a] = "join"
  /\ \A t \in m_timeoutThreads : timer[t] = "ended"
  /\ m_timeoutThreads' = {}
  /\ timer' = [t \in Timers |-> IF t \in m_timeoutThreads THEN "none" ELSE timer[t]]
  /\ goto(a, "relock")
  /\ UNCHANGED <<m_connectionLock, m_isOpen, m_isTimeoutAllowed, m_timeoutNotifier, flags,
                 sending, undefined>>

(* The end of stopTimeout: a new queue replaces m_timeoutNotifier.  "Nobody can
   use the queue while it's being moved". *)
relock(a) ==
  /\ pc[a] = "relock" /\ m_connectionLock = Free
  /\ m_connectionLock' = a
  /\ m_timeoutNotifier' = 0
  /\ undefined' = \E t \in Timers : timer[t] = "waiting"
  /\ goto(a, then[a])
  /\ UNCHANGED <<m_isOpen, m_isTimeoutAllowed, m_timeoutThreads, timer, flags, sending>>

(***************************************************************************)
(* The host thread: handleAck, and the repetition of a message.            *)
(***************************************************************************)
readIsOpen ==
  /\ pc[Host] = "idle" /\ m_isOpen /\ running
  /\ goto(Host, "ack")
  /\ outOfTurn' = (outOfTurn \/ pc[Main] # "idle")
  /\ UNCHANGED <<m_connectionLock, shared, then, repeat, running, sending, undefined>>

(* An ack that moves nothing: measureRTT only, which reads what packetize writes. *)
handleOtherAck ==
  /\ pc[Host] = "ack" /\ m_connectionLock = Free
  /\ goto(Host, "idle")
  /\ undefined' = (pc[Main] = "packetize")
  /\ UNCHANGED <<m_connectionLock, shared, flags, sending>>

(* mutant: the timeout is not stopped before the next window *)
handleAck_keepsTimeout ==
  /\ pc[Host] = "ack" /\ m_connectionLock = Free
  /\ sending
  /\ m_connectionLock' = Host
  /\ goto(Host, "sendNextWindow")
  /\ UNCHANGED <<shared, flags, sending, undefined>>

(* The last ack of a window or of the message, or the sign of a lost packet. *)
handleAck ==
  /\ pc[Host] = "ack" /\ m_connectionLock = Free
  /\ sending
  /\ \E next \in {"sendNextWindow", "sentCompletely"} : stopTimeout(Host, next)
  /\ UNCHANGED <<m_isOpen, sending>>

(* mutant: the timeout is started and not allowed *)
sendNextWindow_notAllowed ==
  /\ pc[Host] = "sendNextWindow"
  /\ startTimeout(Host)
  /\ m_connectionLock' = Free
  /\ goto(Host, "idle")
  /\ UNCHANGED <<m_isOpen, m_isTimeoutAllowed, m_timeoutNotifier, flags, sending>>

(* The end of handleAck after a window, or after a lost packet. *)
sendNextWindow ==
  /\ pc[Host] = "sendNextWindow"
  /\ m_isTimeoutAllowed' = TRUE
  /\ startTimeout(Host)
  /\ m_connectionLock' = Free
  /\ goto(Host, "idle")
  /\ UNCHANGED <<m_isOpen, m_timeoutNotifier, flags, sending>>

(* onDataSentCompletely stops the timeouts again; then it sleeps, the lock held. *)
onDataSentCompletely ==
  /\ pc[Host] = "sentCompletely"
  /\ sending' = FALSE
  /\ stopTimeout(Host, "stopped")
  /\ UNCHANGED m_isOpen

stopped ==
  /\ pc[Host] = "stopped"
  /\ IF repeat THEN goto(Host, "sleep") /\ UNCHANGED m_connectionLock
     ELSE goto(Host, "idle") /\ m_connectionLock' = Free
  /\ UNCHANGED <<shared, flags, sending, undefined>>

(* sendMessage() unlocks the mutex of handleAck, resets, and locks it again. *)
wakeUp ==
  /\ pc[Host] = "sleep"
  /\ goto(Host, "reset")
  /\ m_connectionLock' = Free
  /\ UNCHANGED <<shared, flags, sending, undefined>>

sendAgain ==
  /\ pc[Host] = "send" /\ m_connectionLock = Free
  /\ sending' = TRUE /\ repeat' = TRUE
  /\ m_isTimeoutAllowed' = TRUE
  /\ startTimeout(Host)
  /\ goto(Host, "idle")
  /\ UNCHANGED <<m_connectionLock, m_isOpen, m_timeoutNotifier, then, outOfTurn, running>>

(***************************************************************************)
(* closeConnection, alone ("close") or at the beginning of resetConnection *)
(* ("reset").                                                              *)
(***************************************************************************)
closeConnection_flagOnly(a) ==   \* mutant: the timeout goes on
  /\ pc[a] \in {"close", "reset"} /\ m_connectionLock = Free
  /\ m_isOpen' = FALSE
  /\ m_connectionLock' = a
  /\ goto(a, IF pc[a] = "close" THEN "closed" ELSE "closedToReset")
  /\ UNCHANGED <<m_isTimeoutAllowed, m_timeoutNotifier, m_timeoutThreads, timer, flags, sending, undefined>>

closeConnection(a) ==
  /\ pc[a] \in {"close", "reset"} /\ m_connectionLock = Free
  /\ m_isOpen' = FALSE
  /\ stopTimeout(a, IF pc[a] = "close" THEN "closed" ELSE "closedToReset")
  /\ UNCHANGED sending

closed(a) ==
  /\ pc[a] \in {"closed", "closedToReset"}
  /\ goto(a, IF pc[a] = "closed" THEN "idle" ELSE "renew")
  /\ m_connectionLock' = Free
  /\ UNCHANGED <<shared, flags, sending, undefined>>

(* A new TCPConnection is moved into this one: the old vector must hold no
   joinable thread.  The new object's m_repeatDelay is not initialized. *)
renew ==
  /\ undefined' = (m_timeoutThreads # {})
  /\ sending' = FALSE /\ repeat' \in BOOLEAN
  /\ m_isTimeoutAllowed' = FALSE
  /\ m_timeoutNotifier' = 0
  /\ m_isOpen' = TRUE
  /\ UNCHANGED <<m_timeoutThreads, timer>>

resetConnection(a) ==
  /\ pc[a] = "renew" /\ m_connectionLock = Free
  /\ renew
  /\ goto(a, IF a = Host THEN "send" ELSE "packetize")
  /\ UNCHANGED <<m_connectionLock, then, outOfTurn, running>>

(***************************************************************************)
(* The main thread: commands.  "send" works without the lock after the     *)
(* reset, and does not ask whether the network runs.                       *)
(***************************************************************************)
command(where) ==
  /\ pc[Main] = "idle"
  /\ goto(Main, where)
  /\ outOfTurn' = (outOfTurn \/ pc[Host] # "idle" \/ ~running)
  /\ UNCHANGED <<m_connectionLock, shared, then, repeat, sending, undefined>>

sendMessage == command("reset") /\ UNCHANGED running

packetize ==
  /\ pc[Main] = "packetize"
  /\ sending' = TRUE
  /\ repeat' \in BOOLEAN
  /\ goto(Main, "allow")
  /\ UNCHANGED <<m_connectionLock, shared, then, outOfTurn, running, undefined>>

allowTimeout ==
  /\ pc[Main] = "allow"
  /\ m_isTimeoutAllowed' = TRUE
  /\ goto(Main, "start")
  /\ UNCHANGED <<m_connectionLock, m_isOpen, m_timeoutNotifier, m_timeoutThreads, timer, flags,
                 sending, undefined>>

startFirstTimeout ==
  /\ pc[Main] = "start"
  /\ startTimeout(Main)
  /\ goto(Main, "idle")
  /\ UNCHANGED <<m_connectionLock, m_isOpen, m_isTimeoutAllowed, m_timeoutNotifier, flags, sending>>

(* "shut down", and "run" after the host thread has ended. *)
stopNode == running /\ command("close") /\ running' = FALSE

startNode ==
  /\ pc = [a \in Actors |-> "idle"] /\ ~running
  /\ running' = TRUE
  /\ renew
  /\ UNCHANGED <<m_connectionLock, pc, then, outOfTurn>>

(***************************************************************************)
(* A timeout thread: timeoutBody.                                          *)
(***************************************************************************)
notified(t) ==
  /\ timer[t] = "waiting" /\ m_timeoutNotifier > 0
  /\ m_timeoutNotifier' = m_timeoutNotifier - 1
  /\ timer' = [timer EXCEPT ![t] = "ended"]
  /\ UNCHANGED <<m_connectionLock, m_isOpen, m_isTimeoutAllowed, m_timeoutThreads, pc, flags,
                 sending, undefined>>

expire(t) ==
  /\ timer[t] = "waiting"
  /\ timer' = [timer EXCEPT ![t] = "expired"]
  /\ UNCHANGED <<m_connectionLock, m_isOpen, m_isTimeoutAllowed, m_timeoutNotifier,
                 m_timeoutThreads, pc, flags, sending, undefined>>

timeoutBody(t) ==
  /\ timer[t] = "expired" /\ m_connectionLock = Free
  /\ IF m_isTimeoutAllowed /\ m_isOpen
     THEN startTimeout(t)
     ELSE timer' = [timer EXCEPT ![t] = "ended"] /\ UNCHANGED <<m_timeoutThreads, undefined>>
  /\ UNCHANGED <<m_connectionLock, m_isOpen, m_isTimeoutAllowed, m_timeoutNotifier, pc, flags, sending>>

Stop(a) == join(a) \/ relock(a) \/ closeConnection(a) \/ closed(a) \/ resetConnection(a)
HostStep ==
  \/ handleOtherAck \/ handleAck \/ sendNextWindow \/ onDataSentCompletely \/ stopped
  \/ wakeUp \/ sendAgain \/ Stop(Host)
MainStep == packetize \/ allowTimeout \/ startFirstTimeout \/ Stop(Main)
TimerStep(t) == notified(t) \/ expire(t) \/ timeoutBody(t)

Next ==
  \/ ~undefined /\ (readIsOpen \/ HostStep)
  \/ ~undefined /\ (sendMessage \/ stopNode \/ startNode \/ MainStep)
  \/ ~undefined /\ \E t \in Timers : TimerStep(t)

Spec == Init /\ [][Next]_vars

(* Threads go on when they can.  The lock is free again and again, and who waits
   for it gets it some time. *)
Fairness ==
  /\ SF_vars(~undefined /\ HostStep)
  /\ SF_vars(~undefined /\ MainStep)
  /\ \A t \in Timers : SF_vars(~undefined /\ TimerStep(t))

FairSpec == Spec /\ Fairness

(***************************************************************************)
(* Properties.                                                             *)
(***************************************************************************)
(* The values of lock, flags and threads: no more than two elements are ever in
   m_timeoutNotifier, since every stopTimeout replaces it. *)
TypeOK ==
  /\ m_connectionLock \in {Free, Host, Main}
  /\ m_isOpen \in BOOLEAN /\ m_isTimeoutAllowed \in BOOLEAN /\ sending \in BOOLEAN
  /\ repeat \in BOOLEAN /\ outOfTurn \in BOOLEAN /\ undefined \in BOOLEAN /\ running \in BOOLEAN
  /\ m_timeoutNotifier \in 0..2
  /\ m_timeoutThreads \subseteq Timers
  /\ timer \in [Timers -> {"none", "waiting", "expired", "ended"}]

active == {t \in Timers : timer[t] \in {"waiting", "expired"}}

(* The host thread and the timeout threads, with all their unlocking and joining,
   never race with each other: only a command given while an ack is handled, an
   ack handled while a command runs, or a message sent while the network does
   not run, can do it. *)
RacesAreOutOfTurn == undefined => outOfTurn

(* m_connectionLock and m_isTimeoutAllowed keep the threads from racing. *)
NoRaces == ~undefined

(* When closeConnection has finished, and the host thread with its last ack, no
   timeout thread is left: startNode may replace the object. *)
ClosedHasNoThread ==
  ~m_isOpen /\ pc = [a \in Actors |-> "idle"] => m_timeoutThreads = {}

(* One timeout thread at a time: the single element that stopTimeout enqueues
   wakes it, no two of them retransmit, and the queue it comes from stays short. *)
OneTimeout == TypeOK /\ (~outOfTurn => Cardinality(active) <= 1)

(* Whenever the sender waits for acks a timeout is running and allowed: what is
   lost will be sent again. *)
SenderHasTimeout ==
  ~outOfTurn /\ sending /\ m_isOpen /\ pc = [a \in Actors |-> "idle"] =>
    m_isTimeoutAllowed /\ active # {}

(* A message that is sent, or a connection that is closed, leaves no thread: the
   next "run" may destroy the vector. *)
NoThreadLeft ==
  ~outOfTurn /\ pc = [a \in Actors |-> "idle"] /\ ~(sending /\ m_isOpen) => m_timeoutThreads = {}

(* Handlers and commands return: the join of stopTimeout ends. *)
StopReturns ==
  \A a \in Actors : (pc[a] # "idle") ~> (pc[a] = "idle" \/ outOfTurn)

(***************************************************************************)
(* The inductive invariant behind the four safety properties.              *)
(***************************************************************************)
(* Where a thread may be before its stopTimeout, in it, and after it. *)
Before == {"idle", "ack", "reset", "close"}
Joining == {"join", "relock"}
After == {"sendNextWindow", "sentCompletely", "stopped", "sleep", "closed", "closedToReset",
          "renew", "send", "packetize", "allow", "start"}

(* Places, and the way back from stopTimeout. *)
PlacesOK ==
  /\ pc \in [Actors -> Before \cup Joining \cup After]
  /\ then \in [Actors -> Before \cup After]
  /\ \A a \in Actors : pc[a] \in Joining =>
       then[a] \in {"sendNextWindow", "sentCompletely", "stopped", "closed", "closedToReset"}
  /\ pc[Host] \notin {"packetize", "allow", "start"}

(* Every element in m_timeoutNotifier is of a thread that will replace the queue. *)
NotifierCounts ==
  m_timeoutNotifier <= (IF pc[Host] \in Joining THEN 1 ELSE 0) + (IF pc[Main] \in Joining THEN 1 ELSE 0)

(* In turn one of the two threads has nothing to do, ... *)
Alone == pc[Host] = "idle" \/ pc[Main] = "idle"

(* ... a timeout thread that is alive is in the vector, and there is one at most, ... *)
OneActive ==
  /\ \A t \in Timers : timer[t] # "none" <=> t \in m_timeoutThreads
  /\ \A t, u \in active : t = u

(* ... it is there exactly while it is needed, and stopTimeout removes it, ... *)
Needed ==
  /\ pc[Host] \in Before /\ pc[Main] \in Before =>
       IF sending /\ m_isOpen THEN m_isTimeoutAllowed /\ active # {} ELSE m_timeoutThreads = {}
  /\ \A a \in Actors :
       /\ pc[a] = "join" => ~m_isTimeoutAllowed
       /\ pc[a] = "relock" \/ pc[a] \in After => m_timeoutThreads = {}

(* ... and what each thread relies on when it goes on still holds. *)
Assured ==
  /\ pc[Host] \in {"ack", "send"} => m_isOpen
  /\ pc[Host] = "sendNextWindow" \/ (pc[Host] \in Joining /\ then[Host] = "sendNextWindow") =>
       sending /\ m_isOpen
  /\ pc[Host] \in {"stopped", "sleep", "reset"} \/ (pc[Host] \in Joining /\ then[Host] = "stopped") =>
       ~sending
  /\ \A a \in Actors : pc[a] = "closed" \/ (pc[a] \in Joining /\ then[a] = "closed") => ~m_isOpen
  /\ pc[Main] \in {"packetize", "allow", "start"} => m_isOpen
  /\ pc[Main] \in {"allow", "start"} => sending
  /\ pc[Main] = "start" => m_isTimeoutAllowed
  /\ pc[Main] \notin {"ack", "sendNextWindow", "sentCompletely", "stopped", "sleep", "send"}
  /\ pc[Main] \in Joining => then[Main] \in {"closed", "closedToReset"}

(* Between "shut down" and "run" the connection is closed, or about to be. *)
ShutDown ==
  ~running =>
    /\ pc[Host] = "idle"
    /\ \/ pc[Main] = "close"
       \/ pc[Main] \in Joining /\ then[Main] = "closed"
       \/ pc[Main] \in {"closed", "idle"} /\ ~m_isOpen

TimeoutInv ==
  /\ TypeOK /\ PlacesOK /\ NotifierCounts
  /\ ~outOfTurn => ~undefined /\ Alone /\ OneActive /\ Needed /\ Assured /\ ShutDown
=============================================================================
