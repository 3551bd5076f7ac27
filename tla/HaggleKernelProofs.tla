------------------------- MODULE HaggleKernelProofs -------------------------
(***************************************************************************)
(* Proofs about HaggleKernel, for any set of managers, whichever of them    *)
(* get ready later, and for any number of calls of shutdown() at any time.  *)
(***************************************************************************)
EXTENDS HaggleKernel, TLAPS, SequenceTheorems

(***************************************************************************)
(* The inductive invariant                                                  *)
(***************************************************************************)
Queued(type) == \E i \in 1..Len(events) : events[i].type = type

AllReadyForStartup == \A n \in Managers : readyForStartup[n]

AllReadyForShutdown == \A n \in Managers : readyForShutdown[n]

(* Whatever can only exist once the startup barrier has opened: the running *)
(* flag, an event other than those of the preparation, a manager that got   *)
(* further than PREPARE_STARTUP.                                            *)
PastStartupBarrier ==
    \/ running \/ shutdownCalled \/ shutdownEvent \/ entered > 0
    \/ pc = "postStartup"
    \/ registry # Managers
    \/ current.type \notin {"none", "PREPARE_STARTUP", "STARTUP_RESULT"}
    \/ Queued("STARTUP") \/ Queued("PREPARE_SHUTDOWN")
    \/ Queued("SHUTDOWN_RESULT") \/ Queued("UNREGISTER_RESULT")
    \/ \E m \in Managers :
           \/ work[m].for \in {"shutdown", "unregister"}
           \/ mstate[m] \notin {"STOPPED", "PREPARE_STARTUP"}

StartupInv == PastStartupBarrier => AllReadyForStartup

(* The same for the shutdown barrier.                                       *)
PastShutdownBarrier ==
    \/ shutdownEvent
    \/ registry # Managers
    \/ current.type \in {"SHUTDOWN", "UNREGISTER_RESULT"}
    \/ Queued("UNREGISTER_RESULT")
    \/ \E m \in Managers :
           work[m].for = "unregister" \/ mstate[m] = "SHUTDOWN"

ShutdownInv == PastShutdownBarrier => AllReadyForShutdown

IInv ==
    /\ TypeOK
    /\ TimeoutMeansEvent
    /\ NeverSleepsBesideEvent
    /\ StartupInv
    /\ ShutdownInv

-----------------------------------------------------------------------------
(* Every event that is built is one the queue can hold ...                  *)
LEMMA EventTypes ==
    /\ \A type \in PublicTypes : Event(type, None, TRUE) \in QueuedEvents
    /\ \A type \in ResultTypes, m \in Managers, last \in BOOLEAN :
           Event(type, m, last) \in QueuedEvents
    /\ \A e \in QueuedEvents :
           e.mgr \in Managers \cup {None} /\ e # NoEvent
<1>1. \A type \in PublicTypes : Event(type, None, TRUE) \in QueuedEvents
    BY DEF Event, QueuedEvents
<1>2. \A type \in ResultTypes, m \in Managers, last \in BOOLEAN :
          Event(type, m, last) \in QueuedEvents
    BY DEF Event, QueuedEvents
<1>3. ASSUME NEW e \in QueuedEvents
      PROVE  e.mgr \in Managers \cup {None} /\ e # NoEvent
  <2>1. e.type \in PublicTypes \cup ResultTypes
      BY DEF QueuedEvents
  <2>2. NoEvent.type = "none"
      BY DEF NoEvent, Event
  <2>3. e.mgr \in Managers \cup {None}
      BY DEF QueuedEvents
  <2> QED
      BY <2>1, <2>2, <2>3 DEF PublicTypes, ResultTypes
<1> QED
    BY <1>1, <1>2, <1>3

(* ... and so for the work of a manager.                                    *)
LEMMA WorkTypes ==
    /\ NoWork \in Works
    /\ \A for \in {"startup", "shutdown", "unregister"}, n \in 1..MaxResults :
           Work(for, n) \in Works
    /\ 1 \in 1..MaxResults
BY KernelConstants DEF Works, Work

(* Adding an event keeps the queue a queue of events.                       *)
LEMMA AddEventType ==
    ASSUME NEW e \in QueuedEvents, events \in Seq(QueuedEvents), addEvent(e)
    PROVE  /\ events' \in Seq(QueuedEvents)
           /\ events' # <<>>
           /\ raised' = TRUE
BY DEF addEvent

(* It puts no other type of event into the queue ...                        *)
LEMMA QueuedAfterAdd ==
    ASSUME NEW e \in QueuedEvents, events \in Seq(QueuedEvents), addEvent(e),
           NEW type, Queued(type)'
    PROVE  Queued(type) \/ type = e.type
<1>1. PICK i \in 1..Len(events') : events'[i].type = type
    BY DEF Queued
<1>2. CASE i = Len(events) + 1
    BY <1>1, <1>2 DEF addEvent
<1>3. CASE i # Len(events) + 1
    BY <1>1, <1>3 DEF addEvent, Queued
<1> QED
    BY <1>2, <1>3

(* ... and taking the first one puts none there.                            *)
LEMMA QueuedAfterTake ==
    ASSUME events \in Seq(QueuedEvents), events # <<>>, events' = Tail(events),
           NEW type, Queued(type)' \/ type = Head(events).type
    PROVE  Queued(type)
<1>1. CASE Queued(type)'
  <2>1. PICK i \in 1..Len(events') : events'[i].type = type
      BY <1>1 DEF Queued
  <2>2. i + 1 \in 1..Len(events) /\ events[i + 1].type = type
      BY <2>1
  <2> QED
      BY <2>2 DEF Queued
<1>2. CASE type = Head(events).type
  <2>1. 1 \in 1..Len(events) /\ events[1].type = type
      BY <1>2
  <2> QED
      BY <2>1 DEF Queued
<1> QED
    BY <1>1, <1>2

(* The types, with TimeoutMeansEvent: an event is only taken from a queue   *)
(* that has one.                                                            *)
LEMMA TypeInduction ==
    ASSUME TypeOK, TimeoutMeansEvent, [Next]_vars
    PROVE  TypeOK'
<1> USE KernelConstants
    DEF TypeOK, TimeoutMeansEvent, kernelVars, queueVars, managerVars,
        loopVars, callVars, States
<1>1. CASE UNCHANGED vars
    BY <1>1 DEF vars
<1>2. CASE LoopBegin
    BY <1>2 DEF LoopBegin, getNextEventTime
<1>3. CASE LoopEnd
    BY <1>3 DEF LoopEnd
<1>4. CASE WaitInterrupted
    BY <1>4 DEF WaitInterrupted
<1>5. CASE WaitTimeout
  <2>1. CASE shutdownEvent
    <3>1. current' = Event("SHUTDOWN", None, TRUE) /\ left' = registry
        BY <1>5, <2>1 DEF WaitTimeout
    <3>2. Event("SHUTDOWN", None, TRUE) # NoEvent
        BY DEF Event, NoEvent
    <3> QED
        BY <1>5, <2>1, <3>1, <3>2 DEF WaitTimeout
  <2>2. CASE ~shutdownEvent
    <3>1. events # <<>> /\ Head(events) \in QueuedEvents
        BY <1>5, <2>2 DEF WaitTimeout
    <3>2. current' \in QueuedEvents /\ current' # NoEvent
        BY <1>5, <2>2, <3>1, EventTypes DEF WaitTimeout
    <3>3. left' \subseteq Managers
        BY <1>5, <2>2, <3>1, EventTypes DEF WaitTimeout
    <3>4. events' \in Seq(QueuedEvents)
      <4>1. events' = Tail(events) /\ events \in Seq(QueuedEvents)
          BY <1>5, <2>2 DEF WaitTimeout
      <4> QED
          BY <3>1, <4>1, HeadTailProperties
    <3> QED
        BY <1>5, <2>2, <3>2, <3>3, <3>4 DEF WaitTimeout
  <2> QED
      BY <2>1, <2>2
<1>6. CASE DispatchEnd
    BY <1>6 DEF DispatchEnd
<1>7. CASE PostStartup
  <2>1. Event("STARTUP", None, TRUE) \in QueuedEvents
      BY EventTypes DEF PublicTypes
  <2>2. events' \in Seq(QueuedEvents) /\ raised' = TRUE
      BY <1>7, <2>1, AddEventType DEF PostStartup
  <2> QED
      BY <1>7, <2>2 DEF PostStartup
<1>8. ASSUME NEW m \in Managers, _onPrepareStartup(m) PROVE TypeOK'
  <2>1. work' \in [Managers -> Works]
      BY <1>8, WorkTypes DEF _onPrepareStartup
  <2>2. mstate' \in [Managers -> States]
      BY <1>8 DEF _onPrepareStartup
  <2>3. /\ readyForStartup' \in [Managers -> BOOLEAN]
        /\ running' \in BOOLEAN
        /\ pc' \in {"dispatch", "postStartup"}
      BY <1>8 DEF _onPrepareStartup, Turn, signalIsReadyForStartup
  <2> QED
      BY <1>8, <2>1, <2>2, <2>3 DEF _onPrepareStartup, Turn
<1>9. ASSUME NEW m \in Managers, onStartupResult(m) PROVE TypeOK'
    BY <1>9 DEF onStartupResult, Turn, signalIsReadyForStartup
<1>10. ASSUME NEW m \in Managers, _onStartup(m) PROVE TypeOK'
    BY <1>10 DEF _onStartup, Turn
<1>11. ASSUME NEW m \in Managers, _onPrepareShutdown(m) PROVE TypeOK'
  <2>1. work' \in [Managers -> Works]
      BY <1>11, WorkTypes DEF _onPrepareShutdown
  <2>2. mstate' \in [Managers -> States]
      BY <1>11 DEF _onPrepareShutdown
  <2>3. /\ readyForShutdown' \in [Managers -> BOOLEAN]
        /\ running' \in BOOLEAN
        /\ shutdownEvent' \in BOOLEAN
        /\ raised' \in BOOLEAN
      BY <1>11 DEF _onPrepareShutdown, signalIsReadyForShutdown,
         enableShutdownEvent
  <2> QED
      BY <1>11, <2>1, <2>2, <2>3 DEF _onPrepareShutdown, Turn
<1>12. ASSUME NEW m \in Managers, onShutdownResult(m) PROVE TypeOK'
    BY <1>12
    DEF onShutdownResult, Turn, signalIsReadyForShutdown, enableShutdownEvent
<1>13. ASSUME NEW m \in Managers, _onShutdown(m) PROVE TypeOK'
  <2>1. work' \in [Managers -> Works]
      BY <1>13, WorkTypes DEF _onShutdown
  <2>2. mstate' \in [Managers -> States] /\ registry' \subseteq Managers
      BY <1>13 DEF _onShutdown, unregisterWithKernel
  <2> QED
      BY <1>13, <2>1, <2>2 DEF _onShutdown, Turn
<1>14. ASSUME NEW m \in Managers, onUnregisterResult(m) PROVE TypeOK'
    BY <1>14 DEF onUnregisterResult, Turn, unregisterWithKernel
<1>15. CASE shutdown
  <2>1. calls' \in 0..MaxCalls /\ entered' \in 0..calls'
      BY <1>15 DEF shutdown
  <2>2. disorder' \in BOOLEAN
      BY <1>15 DEF shutdown
  <2> QED
      BY <1>15, <2>1, <2>2 DEF shutdown
<1>17. CASE PostShutdown
  <2>1. Event("PREPARE_SHUTDOWN", None, TRUE) \in QueuedEvents
      BY EventTypes DEF PublicTypes
  <2>2. events' \in Seq(QueuedEvents) /\ raised' = TRUE
      BY <1>17, <2>1, AddEventType DEF PostShutdown
  <2>3. entered' \in 0..calls' /\ calls' = calls
      BY <1>17 DEF PostShutdown
  <2>4. disorder' \in BOOLEAN
      BY <1>17 DEF PostShutdown
  <2> QED
      BY <1>17, <2>2, <2>3, <2>4 DEF PostShutdown
<1>16. ASSUME NEW m \in Managers, PostResult(m) PROVE TypeOK'
  <2>1. /\ work[m].for \in {"startup", "shutdown", "unregister"}
        /\ work[m].results \in 1..MaxResults
      BY <1>16 DEF PostResult, Works, NoWork, Work
  <2>2. ResultType[work[m].for] \in ResultTypes
      BY <2>1 DEF ResultType, ResultTypes
  <2>3. Event(ResultType[work[m].for], m, work[m].results = 1) \in QueuedEvents
      BY <2>2, EventTypes
  <2>4. events' \in Seq(QueuedEvents) /\ raised' = TRUE
      BY <1>16, <2>3, AddEventType DEF PostResult
  <2>5. CASE work[m].results = 1
      BY <1>16, <2>4, <2>5, WorkTypes DEF PostResult
  <2>6. CASE work[m].results # 1
    <3>1. Work(work[m].for, work[m].results - 1) \in Works
        BY <2>1, <2>6, WorkTypes
    <3> QED
        BY <1>16, <2>4, <2>6, <3>1 DEF PostResult
  <2> QED
      BY <2>5, <2>6
<1> QED
    BY <1>1, <1>2, <1>3, <1>4, <1>5, <1>6, <1>7, <1>8, <1>9,
       <1>10, <1>11, <1>12, <1>13, <1>14, <1>15, <1>16, <1>17
    DEF Next, Dispatch

-----------------------------------------------------------------------------
(* Only the kernel thread removes events: what it saw in the queue before   *)
(* the wait is still there after it.                                        *)
LEMMA TimeoutInduction ==
    ASSUME TypeOK, TimeoutMeansEvent, [Next]_vars
    PROVE  TimeoutMeansEvent'
<1> USE KernelConstants
    DEF TypeOK, TimeoutMeansEvent, kernelVars, queueVars,
        managerVars, loopVars, callVars, addEvent
<1>1. CASE UNCHANGED vars
    BY <1>1 DEF vars
<1>2. CASE LoopBegin
    BY <1>2 DEF LoopBegin, getNextEventTime
<1>3. CASE LoopEnd
    BY <1>3 DEF LoopEnd
<1>4. CASE WaitInterrupted
    BY <1>4 DEF WaitInterrupted
<1>5. CASE WaitTimeout
    BY <1>5 DEF WaitTimeout
<1>6. CASE DispatchEnd
    BY <1>6 DEF DispatchEnd
<1>7. CASE PostStartup
    BY <1>7 DEF PostStartup, addEvent
<1>8. ASSUME NEW m \in Managers, _onPrepareStartup(m) PROVE TimeoutMeansEvent'
    BY <1>8 DEF _onPrepareStartup, Turn, signalIsReadyForStartup
<1>9. ASSUME NEW m \in Managers, onStartupResult(m) PROVE TimeoutMeansEvent'
    BY <1>9 DEF onStartupResult, Turn, signalIsReadyForStartup
<1>10. ASSUME NEW m \in Managers, _onStartup(m) PROVE TimeoutMeansEvent'
    BY <1>10 DEF _onStartup, Turn
<1>11. ASSUME NEW m \in Managers, _onPrepareShutdown(m) PROVE TimeoutMeansEvent'
    BY <1>11
    DEF _onPrepareShutdown, Turn, signalIsReadyForShutdown, enableShutdownEvent
<1>12. ASSUME NEW m \in Managers, onShutdownResult(m) PROVE TimeoutMeansEvent'
    BY <1>12
    DEF onShutdownResult, Turn, signalIsReadyForShutdown, enableShutdownEvent
<1>13. ASSUME NEW m \in Managers, _onShutdown(m) PROVE TimeoutMeansEvent'
    BY <1>13 DEF _onShutdown, Turn, unregisterWithKernel
<1>14. ASSUME NEW m \in Managers, onUnregisterResult(m) PROVE TimeoutMeansEvent'
    BY <1>14 DEF onUnregisterResult, Turn, unregisterWithKernel
<1>15. CASE shutdown
    BY <1>15 DEF shutdown
<1>17. CASE PostShutdown
  <2>1. events' # <<>>
      BY <1>17, AddEventType, EventTypes DEF PostShutdown, PublicTypes
  <2>2. pc' = pc /\ timeout' = timeout /\ shutdownEvent' = shutdownEvent
      BY <1>17 DEF PostShutdown
  <2> QED
      BY <2>1, <2>2
<1>16. ASSUME NEW m \in Managers, PostResult(m) PROVE TimeoutMeansEvent'
    BY <1>16 DEF PostResult, addEvent
<1> QED
    BY <1>1, <1>2, <1>3, <1>4, <1>5, <1>6, <1>7, <1>8, <1>9,
       <1>10, <1>11, <1>12, <1>13, <1>14, <1>15, <1>16, <1>17
    DEF Next, Dispatch

(* Whoever adds an event while the kernel thread waits raises the signal.   *)
LEMMA SleepInduction ==
    ASSUME TypeOK, NeverSleepsBesideEvent, [Next]_vars
    PROVE  NeverSleepsBesideEvent'
<1> USE KernelConstants
    DEF TypeOK, NeverSleepsBesideEvent, kernelVars, queueVars,
        managerVars, loopVars, callVars
<1>1. CASE UNCHANGED vars
    BY <1>1 DEF vars
<1>2. CASE LoopBegin
    BY <1>2 DEF LoopBegin, getNextEventTime
<1>3. CASE LoopEnd
    BY <1>3 DEF LoopEnd
<1>4. CASE WaitInterrupted
    BY <1>4 DEF WaitInterrupted
<1>5. CASE WaitTimeout
    BY <1>5 DEF WaitTimeout
<1>6. CASE DispatchEnd
    BY <1>6 DEF DispatchEnd
<1>7. CASE PostStartup
    BY <1>7 DEF PostStartup, addEvent
<1>8. ASSUME NEW m \in Managers, _onPrepareStartup(m) PROVE NeverSleepsBesideEvent'
    BY <1>8 DEF _onPrepareStartup, Turn, signalIsReadyForStartup
<1>9. ASSUME NEW m \in Managers, onStartupResult(m) PROVE NeverSleepsBesideEvent'
    BY <1>9 DEF onStartupResult, Turn, signalIsReadyForStartup
<1>10. ASSUME NEW m \in Managers, _onStartup(m) PROVE NeverSleepsBesideEvent'
    BY <1>10 DEF _onStartup, Turn
<1>11. ASSUME NEW m \in Managers, _onPrepareShutdown(m) PROVE NeverSleepsBesideEvent'
    BY <1>11
    DEF _onPrepareShutdown, Turn, signalIsReadyForShutdown, enableShutdownEvent
<1>12. ASSUME NEW m \in Managers, onShutdownResult(m) PROVE NeverSleepsBesideEvent'
    BY <1>12
    DEF onShutdownResult, Turn, signalIsReadyForShutdown, enableShutdownEvent
<1>13. ASSUME NEW m \in Managers, _onShutdown(m) PROVE NeverSleepsBesideEvent'
    BY <1>13 DEF _onShutdown, Turn, unregisterWithKernel
<1>14. ASSUME NEW m \in Managers, onUnregisterResult(m) PROVE NeverSleepsBesideEvent'
    BY <1>14 DEF onUnregisterResult, Turn, unregisterWithKernel
<1>15. CASE shutdown
    BY <1>15 DEF shutdown
<1>17. CASE PostShutdown
    BY <1>17 DEF PostShutdown, addEvent
<1>16. ASSUME NEW m \in Managers, PostResult(m) PROVE NeverSleepsBesideEvent'
    BY <1>16 DEF PostResult, addEvent
<1> QED
    BY <1>1, <1>2, <1>3, <1>4, <1>5, <1>6, <1>7, <1>8, <1>9,
       <1>10, <1>11, <1>12, <1>13, <1>14, <1>15, <1>16, <1>17
    DEF Next, Dispatch

-----------------------------------------------------------------------------
(* What an event in the queue after taking one says about the queue before. *)
LEMMA TakenFacts ==
    ASSUME TypeOK, TimeoutMeansEvent, WaitTimeout, ~shutdownEvent
    PROVE  /\ events # <<>> /\ events' = Tail(events)
           /\ current' = Head(events)
           /\ current'.type \in PublicTypes \cup ResultTypes
           /\ current'.type = Head(events).type
<1>1. events # <<>> /\ events' = Tail(events) /\ current' = Head(events)
    BY DEF TimeoutMeansEvent, WaitTimeout
<1>2. Head(events) \in QueuedEvents
    BY <1>1 DEF TypeOK
<1> QED
    BY <1>1, <1>2 DEF QueuedEvents

(* What a thread posts when it has a result for a manager.                  *)
LEMMA PostedFacts ==
    ASSUME TypeOK, NEW m \in Managers, PostResult(m)
    PROVE  /\ work[m].for \in {"startup", "shutdown", "unregister"}
           /\ \E e \in QueuedEvents :
                  addEvent(e) /\ e.type = ResultType[work[m].for]
           /\ \A n \in Managers : work'[n].for \in {work[n].for, "nothing"}
<1>1. /\ work[m].for \in {"startup", "shutdown", "unregister"}
      /\ work[m].results \in 1..MaxResults
    BY DEF TypeOK, PostResult, Works, NoWork, Work
<1> DEFINE e == Event(ResultType[work[m].for], m, work[m].results = 1)
<1>2. ResultType[work[m].for] \in ResultTypes
    BY <1>1 DEF ResultType, ResultTypes
<1>3. e \in QueuedEvents
    BY <1>2, EventTypes
<1>4. e.type = ResultType[work[m].for]
    BY DEF Event
<1>5. addEvent(e)
    BY DEF PostResult
<1>6. \A n \in Managers : work'[n].for \in {work[n].for, "nothing"}
    BY DEF TypeOK, PostResult, NoWork, Work
<1> HIDE DEF e
<1> QED
    BY <1>1, <1>3, <1>4, <1>5, <1>6

(* Nothing opens the startup barrier but the signal of the last manager     *)
(* that was not ready.                                                      *)
LEMMA StartupInduction ==
    ASSUME TypeOK, TimeoutMeansEvent, StartupInv, [Next]_vars
    PROVE  StartupInv'
<1> USE KernelConstants
    DEF TypeOK, StartupInv, PastStartupBarrier,
        AllReadyForStartup, Queued, kernelVars, queueVars, managerVars, loopVars,
        callVars
<1>1. CASE UNCHANGED vars
    BY <1>1 DEF vars
<1>2. CASE LoopBegin
    BY <1>2 DEF LoopBegin, getNextEventTime
<1>3. CASE LoopEnd
    BY <1>3 DEF LoopEnd
<1>4. CASE WaitInterrupted
    BY <1>4 DEF WaitInterrupted
<1>5. CASE WaitTimeout
  <2>1. CASE shutdownEvent
      BY <1>5, <2>1 DEF WaitTimeout
  <2>2. CASE ~shutdownEvent
    <3> HIDE DEF Queued
    <3>1. ASSUME NEW type, Queued(type)' \/ type = current'.type
          PROVE  Queued(type)
        BY <1>5, <2>2, <3>1, TakenFacts, QueuedAfterTake
    <3>2. current'.type \in PublicTypes \cup ResultTypes
        BY <1>5, <2>2, TakenFacts
    <3>3. PastStartupBarrier' => PastStartupBarrier
        BY <1>5, <2>2, <3>1, <3>2 DEF WaitTimeout, PublicTypes, ResultTypes
    <3> QED
        BY <1>5, <3>3 DEF WaitTimeout
  <2> QED
      BY <2>1, <2>2
<1>6. CASE DispatchEnd
    BY <1>6 DEF DispatchEnd, NoEvent, Event
<1>7. CASE PostStartup
    BY <1>7 DEF PostStartup, addEvent
<1>8. ASSUME NEW m \in Managers, _onPrepareStartup(m) PROVE StartupInv'
    BY <1>8
    DEF _onPrepareStartup, Turn, signalIsReadyForStartup, Work
<1>9. ASSUME NEW m \in Managers, onStartupResult(m) PROVE StartupInv'
    BY <1>9 DEF onStartupResult, Turn, signalIsReadyForStartup
<1>10. ASSUME NEW m \in Managers, _onStartup(m) PROVE StartupInv'
    BY <1>10 DEF _onStartup, Turn
<1>11. ASSUME NEW m \in Managers, _onPrepareShutdown(m) PROVE StartupInv'
    BY <1>11
    DEF _onPrepareShutdown, Work, Turn, signalIsReadyForShutdown, enableShutdownEvent
<1>12. ASSUME NEW m \in Managers, onShutdownResult(m) PROVE StartupInv'
    BY <1>12
    DEF onShutdownResult, Turn, signalIsReadyForShutdown, enableShutdownEvent
<1>13. ASSUME NEW m \in Managers, _onShutdown(m) PROVE StartupInv'
    BY <1>13 DEF _onShutdown, Turn, unregisterWithKernel
<1>14. ASSUME NEW m \in Managers, onUnregisterResult(m) PROVE StartupInv'
    BY <1>14 DEF onUnregisterResult, Turn, unregisterWithKernel
<1>15. CASE shutdown
    BY <1>15 DEF shutdown
<1>17. CASE PostShutdown
    BY <1>17 DEF PostShutdown, addEvent
<1>16. ASSUME NEW m \in Managers, PostResult(m) PROVE StartupInv'
  <2> HIDE DEF Queued
  <2>1. PICK e \in QueuedEvents :
            addEvent(e) /\ e.type = ResultType[work[m].for]
      BY <1>16, PostedFacts
  <2>2. ASSUME NEW type, Queued(type)' PROVE Queued(type) \/ type = e.type
      BY <2>1, <2>2, QueuedAfterAdd
  <2>3. /\ work[m].for \in {"startup", "shutdown", "unregister"}
        /\ \A n \in Managers : work'[n].for \in {work[n].for, "nothing"}
      BY <1>16, PostedFacts
  <2>4. PastStartupBarrier' => PastStartupBarrier
      BY <1>16, <2>1, <2>2, <2>3 DEF PostResult, ResultType
  <2> QED
      BY <1>16, <2>4 DEF PostResult
<1> QED
    BY <1>1, <1>2, <1>3, <1>4, <1>5, <1>6, <1>7, <1>8, <1>9,
       <1>10, <1>11, <1>12, <1>13, <1>14, <1>15, <1>16, <1>17
    DEF Next, Dispatch

(* The same for the shutdown barrier.                                       *)
LEMMA ShutdownInduction ==
    ASSUME TypeOK, TimeoutMeansEvent, ShutdownInv, [Next]_vars
    PROVE  ShutdownInv'
<1> USE KernelConstants
    DEF TypeOK, ShutdownInv, PastShutdownBarrier,
        AllReadyForShutdown, Queued, kernelVars, queueVars, managerVars, loopVars,
        callVars
<1>1. CASE UNCHANGED vars
    BY <1>1 DEF vars
<1>2. CASE LoopBegin
    BY <1>2 DEF LoopBegin, getNextEventTime
<1>3. CASE LoopEnd
    BY <1>3 DEF LoopEnd
<1>4. CASE WaitInterrupted
    BY <1>4 DEF WaitInterrupted
<1>5. CASE WaitTimeout
  <2>1. CASE shutdownEvent
      BY <1>5, <2>1 DEF WaitTimeout
  <2>2. CASE ~shutdownEvent
    <3> HIDE DEF Queued
    <3>1. ASSUME NEW type, Queued(type)' \/ type = current'.type
          PROVE  Queued(type)
        BY <1>5, <2>2, <3>1, TakenFacts, QueuedAfterTake
    <3>2. current'.type \in PublicTypes \cup ResultTypes
        BY <1>5, <2>2, TakenFacts
    <3>3. PastShutdownBarrier' => PastShutdownBarrier
        BY <1>5, <2>2, <3>1, <3>2 DEF WaitTimeout, PublicTypes, ResultTypes
    <3> QED
        BY <1>5, <3>3 DEF WaitTimeout
  <2> QED
      BY <2>1, <2>2
<1>6. CASE DispatchEnd
    BY <1>6 DEF DispatchEnd, NoEvent, Event
<1>7. CASE PostStartup
  <2> HIDE DEF Queued
  <2>1. Event("STARTUP", None, TRUE) \in QueuedEvents
      BY EventTypes DEF PublicTypes
  <2>2. Event("STARTUP", None, TRUE).type = "STARTUP"
      BY DEF Event
  <2>3. Queued("UNREGISTER_RESULT")' => Queued("UNREGISTER_RESULT")
      BY <1>7, <2>1, <2>2, QueuedAfterAdd DEF PostStartup
  <2> QED
      BY <1>7, <2>3 DEF PostStartup
<1>8. ASSUME NEW m \in Managers, _onPrepareStartup(m) PROVE ShutdownInv'
    BY <1>8
    DEF _onPrepareStartup, Turn, signalIsReadyForStartup, Work
<1>9. ASSUME NEW m \in Managers, onStartupResult(m) PROVE ShutdownInv'
    BY <1>9 DEF onStartupResult, Turn, signalIsReadyForStartup
<1>10. ASSUME NEW m \in Managers, _onStartup(m) PROVE ShutdownInv'
    BY <1>10 DEF _onStartup, Turn
<1>11. ASSUME NEW m \in Managers, _onPrepareShutdown(m) PROVE ShutdownInv'
    BY <1>11
    DEF _onPrepareShutdown, Work, Turn, signalIsReadyForShutdown, enableShutdownEvent
<1>12. ASSUME NEW m \in Managers, onShutdownResult(m) PROVE ShutdownInv'
    BY <1>12
    DEF onShutdownResult, Turn, signalIsReadyForShutdown, enableShutdownEvent
<1>13. ASSUME NEW m \in Managers, _onShutdown(m) PROVE ShutdownInv'
    BY <1>13 DEF _onShutdown, Turn, unregisterWithKernel
<1>14. ASSUME NEW m \in Managers, onUnregisterResult(m) PROVE ShutdownInv'
    BY <1>14 DEF onUnregisterResult, Turn, unregisterWithKernel
<1>15. CASE shutdown
    BY <1>15 DEF shutdown
<1>17. CASE PostShutdown
  <2> HIDE DEF Queued
  <2>1. Event("PREPARE_SHUTDOWN", None, TRUE) \in QueuedEvents
      BY EventTypes DEF PublicTypes
  <2>2. Event("PREPARE_SHUTDOWN", None, TRUE).type = "PREPARE_SHUTDOWN"
      BY DEF Event
  <2>3. Queued("UNREGISTER_RESULT")' => Queued("UNREGISTER_RESULT")
      BY <1>17, <2>1, <2>2, QueuedAfterAdd DEF PostShutdown
  <2> QED
      BY <1>17, <2>3 DEF PostShutdown
<1>16. ASSUME NEW m \in Managers, PostResult(m) PROVE ShutdownInv'
  <2> HIDE DEF Queued
  <2>1. PICK e \in QueuedEvents :
            addEvent(e) /\ e.type = ResultType[work[m].for]
      BY <1>16, PostedFacts
  <2>2. ASSUME NEW type, Queued(type)' PROVE Queued(type) \/ type = e.type
      BY <2>1, <2>2, QueuedAfterAdd
  <2>3. /\ work[m].for \in {"startup", "shutdown", "unregister"}
        /\ \A n \in Managers : work'[n].for \in {work[n].for, "nothing"}
      BY <1>16, PostedFacts
  <2>4. PastShutdownBarrier' => PastShutdownBarrier
      BY <1>16, <2>1, <2>2, <2>3 DEF PostResult, ResultType
  <2> QED
      BY <1>16, <2>4 DEF PostResult
<1> QED
    BY <1>1, <1>2, <1>3, <1>4, <1>5, <1>6, <1>7, <1>8, <1>9,
       <1>10, <1>11, <1>12, <1>13, <1>14, <1>15, <1>16, <1>17
    DEF Next, Dispatch

-----------------------------------------------------------------------------
(***************************************************************************)
(* The theorems                                                             *)
(***************************************************************************)

(* The kernel starts in a state of the invariant.                           *)
LEMMA InitIInv == Init => IInv
<1> SUFFICES ASSUME Init PROVE IInv
    OBVIOUS
<1> USE KernelConstants DEF Init
<1>1. events \in Seq(QueuedEvents)
  <2> HIDE DEF Init
  <2>1. Event("PREPARE_STARTUP", None, TRUE) \in QueuedEvents
      BY EventTypes DEF PublicTypes
  <2>2. events = <<Event("PREPARE_STARTUP", None, TRUE)>>
      BY DEF Init
  <2>3. ASSUME NEW S, NEW e \in S PROVE <<e>> \in Seq(S)
      OBVIOUS
  <2> QED
      BY <2>1, <2>2, <2>3
<1>2. NoWork \in Works
    BY DEF Works
<1>3. TypeOK
  <2>1. /\ mstate \in [Managers -> States]
        /\ readyForStartup \in [Managers -> BOOLEAN]
        /\ readyForShutdown \in [Managers -> BOOLEAN]
        /\ work \in [Managers -> Works]
      BY <1>2 DEF States
  <2>2. /\ calls \in 0..MaxCalls /\ entered \in 0..calls
        /\ disorder \in BOOLEAN
    <3>1. calls = 0 /\ entered = 0 /\ disorder = FALSE
        OBVIOUS
    <3>2. calls \in 0..MaxCalls /\ entered \in 0..calls
        BY <3>1
    <3>3. disorder \in BOOLEAN
        BY <3>1
    <3> QED
        BY <3>2, <3>3
  <2>3. current # NoEvent <=> pc \in {"dispatch", "postStartup"}
      OBVIOUS
  <2> QED
      BY <1>1, <2>1, <2>2, <2>3 DEF TypeOK
<1>4. TimeoutMeansEvent /\ NeverSleepsBesideEvent
    BY DEF TimeoutMeansEvent, NeverSleepsBesideEvent
<1>5. \A i \in 1..Len(events) : events[i].type = "PREPARE_STARTUP"
    BY DEF Event
<1>6. \A m \in Managers : work[m].for = "nothing"
    BY DEF NoWork, Work
<1>7. current.type = "none"
    BY DEF NoEvent, Event
<1>8. ~PastStartupBarrier /\ ~PastShutdownBarrier
  <2>1. ~(entered > 0)
      OBVIOUS
  <2> QED
      BY <1>5, <1>6, <1>7, <2>1
      DEF PastStartupBarrier, PastShutdownBarrier, Queued
<1> QED
    BY <1>3, <1>4, <1>8 DEF IInv, StartupInv, ShutdownInv

LEMMA Invariance == Spec => []IInv
<1>1. IInv /\ [Next]_vars => IInv'
    BY TypeInduction, TimeoutInduction, SleepInduction, StartupInduction,
       ShutdownInduction
    DEF IInv
<1> QED
    BY InitIInv, <1>1, PTL DEF Spec

(* Every variable of the kernel keeps its type, and an event is current     *)
(* exactly while it is dispatched.                                          *)
THEOREM TypeCorrect == Spec => []TypeOK
<1>1. IInv => TypeOK
    BY DEF IInv
<1> QED
    BY <1>1, Invariance, PTL

(* run() calls getNextEvent() only when there is an event to take, however  *)
(* the other threads interleave with it.                                    *)
THEOREM NoNullEvent == Spec => []TimeoutMeansEvent
<1>1. IInv => TimeoutMeansEvent
    BY DEF IInv
<1> QED
    BY <1>1, Invariance, PTL

(* run() never waits without limit beside an event: no addEvent() between   *)
(* the inspection of the queue and the wait is missed.                      *)
THEOREM NoMissedEvent == Spec => []NeverSleepsBesideEvent
<1>1. IInv => NeverSleepsBesideEvent
    BY DEF IInv
<1> QED
    BY <1>1, Invariance, PTL

(* No manager runs before all managers have signalled that they are ready   *)
(* for startup.                                                             *)
THEOREM StartupIsABarrier == Spec => []StartupBarrier
<1>1. IInv => StartupBarrier
    BY DEF IInv, StartupInv, PastStartupBarrier, AllReadyForStartup,
           StartupBarrier
<1> QED
    BY <1>1, Invariance, PTL

(* No manager is shut down before all managers have signalled that they are *)
(* ready for shutdown, also when some are ready at once and others later.   *)
THEOREM ShutdownIsABarrier == Spec => []ShutdownBarrier
<1>1. IInv => ShutdownBarrier
    BY DEF IInv, ShutdownInv, PastShutdownBarrier, AllReadyForShutdown,
           ShutdownBarrier
<1> QED
    BY <1>1, Invariance, PTL

-----------------------------------------------------------------------------
(***************************************************************************)
(* StatesAdvance.  Between two barriers the kernel is in one of ten phases,  *)
(* which fix the public events that exist (at most one of each type), the   *)
(* state of every manager that had the event in hand, and of those that     *)
(* still wait for it.                                                       *)
(***************************************************************************)
OnlyQueued(types) == \A i \in 1..Len(events) : events[i].type \in types

OnlyWork(fors) == \A m \in Managers : work[m].for \in fors

NobodyWorks == \A m \in Managers : work[m] = NoWork

AllAre(state) == \A m \in Managers : mstate[m] = state

(* The dispatch of an event takes the managers from one state to another.   *)
Moves(type, from, to) ==
    /\ pc = "dispatch"
    /\ current = Event(type, None, TRUE)
    /\ \A m \in Managers : IF m \in left THEN mstate[m] = from
                           ELSE mstate[m] = to

NotShuttingDown ==
    /\ registry = Managers
    /\ ~shutdownEvent
    /\ \A m \in Managers : ~readyForShutdown[m]

(* PREPARE_SHUTDOWN is queued from the call of shutdown() on.               *)
Requests ==
    IF shutdownCalled THEN <<Event("PREPARE_SHUTDOWN", None, TRUE)>>
    ELSE <<>>

Fresh ==
    /\ NotShuttingDown
    /\ ~running /\ ~shutdownCalled
    /\ pc # "postStartup"
    /\ current = NoEvent /\ left = {}
    /\ events = <<Event("PREPARE_STARTUP", None, TRUE)>>
    /\ NobodyWorks
    /\ AllAre("STOPPED")
    /\ \A m \in Managers : ~readyForStartup[m]

(* A manager signals once: it is not ready while it is to be told to        *)
(* prepare, other threads work for it, or their result is on the way.       *)
SignalsOnce ==
    /\ \A m \in left : /\ ~readyForStartup[m]
                       /\ work[m] = NoWork
                       /\ \A i \in 1..Len(events) : events[i].mgr # m
    /\ \A i \in 1..Len(events) : /\ events[i].mgr \in Managers
                                 /\ ~readyForStartup[events[i].mgr]
                                 /\ work[events[i].mgr] = NoWork
    /\ \A i, j \in 1..Len(events) : events[i].mgr = events[j].mgr => i = j
    /\ \A m \in Managers : readyForStartup[m] => work[m] = NoWork

Preparing ==
    /\ NotShuttingDown
    /\ ~running /\ ~shutdownCalled
    /\ OnlyQueued({"STARTUP_RESULT"})
    /\ OnlyWork({"nothing", "startup"})
    /\ \A m \in Managers : work[m].results \in {0, 1}
    /\ \E m \in Managers : ~readyForStartup[m]
    /\ SignalsOnce
    /\ \/ Moves("PREPARE_STARTUP", "STOPPED", "PREPARE_STARTUP")
       \/ /\ AllAre("PREPARE_STARTUP")
          /\ pc # "postStartup"
          /\ \/ current = NoEvent /\ left = {}
             \/ current.type = "STARTUP_RESULT" /\ left \subseteq {current.mgr}

Opening ==
    /\ NotShuttingDown
    /\ running /\ ~shutdownCalled
    /\ pc = "postStartup" /\ left = {}
    /\ events = <<>>
    /\ NobodyWorks
    /\ AllAre("PREPARE_STARTUP")

Open ==
    /\ NotShuttingDown
    /\ running
    /\ pc # "postStartup" /\ left = {}
    /\ events = IF shutdownCalled
                THEN <<Event("STARTUP", None, TRUE),
                       Event("PREPARE_SHUTDOWN", None, TRUE)>>
                ELSE <<Event("STARTUP", None, TRUE)>>
    /\ NobodyWorks
    /\ AllAre("PREPARE_STARTUP")

Starting ==
    /\ NotShuttingDown
    /\ running
    /\ events = Requests
    /\ NobodyWorks
    /\ Moves("STARTUP", "PREPARE_STARTUP", "RUNNING")

Started ==
    /\ NotShuttingDown
    /\ running
    /\ pc # "postStartup"
    /\ current = NoEvent /\ left = {}
    /\ events = Requests
    /\ NobodyWorks
    /\ AllAre("RUNNING")

Closing ==
    /\ registry = Managers
    /\ shutdownCalled
    /\ OnlyQueued({"SHUTDOWN_RESULT"})
    /\ OnlyWork({"nothing", "shutdown"})
    /\ Moves("PREPARE_SHUTDOWN", "RUNNING", "PREPARE_SHUTDOWN")
    /\ \A m \in left : ~readyForShutdown[m]
    /\ shutdownEvent => left = {}

Closed ==
    /\ registry = Managers
    /\ shutdownCalled
    /\ pc # "postStartup"
    /\ current.type \in {"none", "SHUTDOWN_RESULT"}
    /\ OnlyQueued({"SHUTDOWN_RESULT"})
    /\ OnlyWork({"nothing", "shutdown"})
    /\ AllAre("PREPARE_SHUTDOWN")

(* After the shutdown event nobody is in PREPARE_SHUTDOWN, the state in     *)
(* which a late result would signal readiness and enable a second one.      *)
Leaving ==
    /\ shutdownCalled /\ ~shutdownEvent
    /\ pc = "dispatch"
    /\ current = Event("SHUTDOWN", None, TRUE)
    /\ OnlyQueued({"SHUTDOWN_RESULT", "UNREGISTER_RESULT"})
    /\ OnlyWork({"nothing", "shutdown", "unregister"})
    /\ \A m \in Managers : IF m \in left THEN mstate[m] = "PREPARE_SHUTDOWN"
                           ELSE mstate[m] \in {"SHUTDOWN", "STOPPED"}

Gone ==
    /\ shutdownCalled /\ ~shutdownEvent
    /\ pc # "postStartup"
    /\ current.type \in {"none", "SHUTDOWN_RESULT", "UNREGISTER_RESULT"}
    /\ OnlyQueued({"SHUTDOWN_RESULT", "UNREGISTER_RESULT"})
    /\ OnlyWork({"nothing", "shutdown", "unregister"})
    /\ \A m \in Managers : mstate[m] \in {"SHUTDOWN", "STOPPED"}

Phase ==
    \/ Fresh \/ Preparing \/ Opening \/ Open \/ Starting \/ Started
    \/ Closing \/ Closed \/ Leaving \/ Gone

(* A call of shutdown() that is past its test is alone and the first.        *)
EntryInv ==
    entered = 0 \/ (entered = 1 /\ running /\ ~shutdownCalled)

PhaseInv == disorder \/ (EntryInv /\ Phase)

(* What StatesAdvance says of one step.                                     *)
Advances ==
    \A m \in Managers :
        mstate[m] # "STOPPED" /\ mstate'[m] # mstate[m]
            => \/ Rank[mstate'[m]] = Rank[mstate[m]] + 1
               \/ mstate'[m] = "STOPPED" /\ mstate[m] = "PREPARE_SHUTDOWN"

(* The handlers run for their own event only.                               *)
LEMMA HandlersOfEvent ==
    ASSUME Dispatch
    PROVE  \/ DispatchEnd
           \/ PostStartup
           \/ /\ pc = "dispatch"
              /\ \E m \in left \cap Managers :
                  \/ current.type = "PREPARE_STARTUP" /\ _onPrepareStartup(m)
                  \/ current.type = "STARTUP_RESULT" /\ onStartupResult(m)
                  \/ current.type = "STARTUP" /\ _onStartup(m)
                  \/ current.type = "PREPARE_SHUTDOWN" /\ _onPrepareShutdown(m)
                  \/ current.type = "SHUTDOWN_RESULT" /\ onShutdownResult(m)
                  \/ current.type = "SHUTDOWN" /\ _onShutdown(m)
                  \/ /\ current.type = "UNREGISTER_RESULT"
                     /\ onUnregisterResult(m)
<1>1. ASSUME NEW m \in Managers, NEW type, Turn(m, type)
      PROVE  pc = "dispatch" /\ m \in left \cap Managers /\ current.type = type
    BY <1>1 DEF Turn
<1> QED
    BY <1>1
    DEF Dispatch, _onPrepareStartup, onStartupResult, _onStartup,
        _onPrepareShutdown, onShutdownResult, _onShutdown, onUnregisterResult

(* Without managers left the dispatch can only end.                         *)
LEMMA NobodyLeft ==
    ASSUME Dispatch, left = {}
    PROVE  DispatchEnd \/ PostStartup
BY HandlersOfEvent

(* What other threads append, if they work for a manager.                   *)
LEMMA ResultPosted ==
    ASSUME TypeOK, NEW m \in Managers, PostResult(m)
    PROVE  /\ work[m] # NoWork
           /\ work[m].for \in {"startup", "shutdown", "unregister"}
           /\ \E last \in BOOLEAN :
                  events' = Append(events, Event(ResultType[work[m].for], m,
                                                 last))
           /\ work' = [work EXCEPT ![m] =
                          IF work[m].results = 1 THEN NoWork
                          ELSE Work(work[m].for, work[m].results - 1)]
           /\ UNCHANGED <<shutdownEvent, mstate, readyForStartup,
                          readyForShutdown, loopVars, kernelVars>>
<1>1. work[m] \in Works /\ work[m].results > 0
    BY DEF TypeOK, PostResult
<1>2. work[m] # NoWork /\ work[m].for \in {"startup", "shutdown", "unregister"}
    BY <1>1 DEF Works, NoWork, Work
<1> QED
    BY <1>2 DEF PostResult, addEvent

LEMMA NothingPosted ==
    ASSUME TypeOK, NobodyWorks, NEW m \in Managers
    PROVE  ~PostResult(m)
BY ResultPosted DEF NobodyWorks

(* The kernel thread takes the only event it can take.                      *)
LEMMA TakenFromQueue ==
    ASSUME TypeOK, TimeoutMeansEvent, WaitTimeout, ~shutdownEvent
    PROVE  /\ events # <<>>
           /\ Head(events) \in QueuedEvents
           /\ current' = Head(events)
           /\ events' = Tail(events)
           /\ left' = IF Head(events).mgr = None THEN registry
                      ELSE {Head(events).mgr}
           /\ pc = "wait" /\ pc' = "dispatch"
           /\ UNCHANGED <<shutdownEvent, kernelVars, managerVars>>
BY DEF TypeOK, TimeoutMeansEvent, WaitTimeout

LEMMA RankValues ==
    /\ Rank["PREPARE_STARTUP"] = 1 /\ Rank["RUNNING"] = 2
    /\ Rank["PREPARE_SHUTDOWN"] = 3 /\ Rank["SHUTDOWN"] = 4
    /\ Rank["STOPPED"] = 5
BY DEF Rank

LEMMA NoEventType ==
    NoEvent.type = "none"
BY DEF NoEvent, Event

(* A call of shutdown() up to its test leaves every phase alone.            *)
LEMMA CallTested ==
    ASSUME Phase, shutdown
    PROVE  Phase' /\ Advances
<1> USE DEF loopVars, managerVars, queueVars
<1>1. UNCHANGED <<registry, running, shutdownCalled, queueVars, loopVars,
                  managerVars>>
    BY DEF shutdown
<1>2. Advances
    BY <1>1 DEF Advances
<1>3. Fresh \/ Preparing \/ Opening => Phase'
    BY <1>1
    DEF Phase, Fresh, Preparing, Opening, NotShuttingDown, NobodyWorks, AllAre,
        OnlyQueued, OnlyWork, SignalsOnce, Moves
<1>4. Open \/ Starting \/ Started => Phase'
    BY <1>1
    DEF Phase, Open, Starting, Started, NotShuttingDown, NobodyWorks, AllAre,
        Requests, Moves
<1>5. Closing \/ Closed \/ Leaving \/ Gone => Phase'
    BY <1>1
    DEF Phase, Closing, Closed, Leaving, Gone, AllAre, OnlyQueued, OnlyWork,
        Moves
<1> QED
    BY <1>2, <1>3, <1>4, <1>5 DEF Phase

(* The rest of the call puts its event behind the others.                   *)
LEMMA CallPosted ==
    ASSUME TypeOK, EntryInv, ~disorder', PostShutdown
    PROVE  /\ running /\ ~shutdownCalled /\ shutdownCalled'
           /\ pc # "postStartup"
           /\ events' = Append(events, Event("PREPARE_SHUTDOWN", None, TRUE))
           /\ UNCHANGED <<registry, running, shutdownEvent, loopVars,
                          managerVars>>
BY DEF PostShutdown, EntryInv, addEvent, TypeOK

LEMMA FreshNext ==
    ASSUME TypeOK, TimeoutMeansEvent, ~disorder', EntryInv, Fresh,
           [Next]_vars
    PROVE  Phase' /\ Advances
<1> USE DEF kernelVars, managerVars, queueVars, loopVars, callVars
<1>1. CASE UNCHANGED <<registry, shutdownEvent, running, shutdownCalled, events,
                       current, left, managerVars>> /\ pc' # "postStartup"
  <2>1. Fresh'
      BY <1>1 DEF Fresh, NotShuttingDown, NobodyWorks, AllAre
  <2> QED
      BY <1>1, <2>1 DEF Phase, Advances
<1>2. CASE WaitTimeout
  <2>1. /\ current' = Event("PREPARE_STARTUP", None, TRUE)
        /\ events' = <<>>
        /\ left' = Managers
        /\ pc' = "dispatch"
        /\ UNCHANGED <<shutdownEvent, kernelVars, managerVars>>
    <3>1. /\ events' = Tail(events) /\ current' = Head(events)
          /\ left' = IF Head(events).mgr = None THEN registry
                     ELSE {Head(events).mgr}
          /\ pc' = "dispatch"
          /\ UNCHANGED <<shutdownEvent, kernelVars, managerVars>>
        BY <1>2, TakenFromQueue DEF Fresh, NotShuttingDown
    <3>2. /\ Tail(events) = <<>>
          /\ Head(events) = Event("PREPARE_STARTUP", None, TRUE)
        BY DEF Fresh
    <3>3. Event("PREPARE_STARTUP", None, TRUE).mgr = None
        BY DEF Event
    <3> QED
        BY <3>1, <3>2, <3>3 DEF Fresh, NotShuttingDown
  <2>2. \E m \in Managers : ~readyForStartup'[m]
      BY <2>1, KernelConstants DEF Fresh
  <2>3. SignalsOnce'
      BY <2>1 DEF SignalsOnce, Fresh, NobodyWorks
  <2>4. Moves("PREPARE_STARTUP", "STOPPED", "PREPARE_STARTUP")'
      BY <2>1 DEF Moves, Fresh, AllAre
  <2>5. /\ OnlyWork({"nothing", "startup"})'
        /\ \A m \in Managers : work'[m].results \in {0, 1}
      BY <2>1 DEF OnlyWork, Fresh, NobodyWorks, NoWork, Work
  <2>6. OnlyQueued({"STARTUP_RESULT"})'
      BY <2>1 DEF OnlyQueued
  <2>7. NotShuttingDown' /\ ~running' /\ ~shutdownCalled'
      BY <2>1 DEF Fresh, NotShuttingDown
  <2>8. Preparing'
      BY <2>2, <2>3, <2>4, <2>5, <2>6, <2>7 DEF Preparing
  <2> QED
      BY <2>1, <2>8 DEF Phase, Advances
<1>3. CASE Dispatch
  <2>1. pc \in {"dispatch", "postStartup"}
      BY <1>3, HandlersOfEvent DEF DispatchEnd, PostStartup
  <2> QED
      BY <2>1 DEF Fresh, TypeOK
<1>4. CASE \E m \in Managers : PostResult(m)
    BY <1>4, NothingPosted DEF Fresh
<1>5. CASE LoopBegin \/ LoopEnd \/ WaitInterrupted \/ UNCHANGED vars
    BY <1>1, <1>5 DEF LoopBegin, LoopEnd, WaitInterrupted, vars, Fresh
<1>6. CASE shutdown
    BY <1>6, CallTested DEF Phase
<1>7. CASE PostShutdown
    BY <1>7, CallPosted DEF Fresh
<1> QED
    BY <1>2, <1>3, <1>4, <1>5, <1>6, <1>7 DEF Next

(* The last signal is followed by the startup event, before anything else.  *)
LEMMA OpeningNext ==
    ASSUME TypeOK, TimeoutMeansEvent, ~disorder', EntryInv, Opening,
           [Next]_vars
    PROVE  Phase' /\ Advances
<1> USE DEF kernelVars, managerVars, queueVars, loopVars, callVars
<1>1. CASE PostStartup
  <2>1. /\ events' = <<Event("STARTUP", None, TRUE)>>
        /\ pc' = "dispatch"
        /\ UNCHANGED <<shutdownEvent, left, kernelVars, managerVars>>
      BY <1>1 DEF PostStartup, addEvent, Opening
  <2>2. Open'
      BY <2>1 DEF Open, Opening, NotShuttingDown, NobodyWorks, AllAre
  <2> QED
      BY <2>1, <2>2 DEF Phase, Advances
<1>2. CASE UNCHANGED vars
  <2>1. Opening'
      BY <1>2 DEF vars, Opening, NotShuttingDown, NobodyWorks, AllAre
  <2> QED
      BY <1>2, <2>1 DEF vars, Phase, Advances
<1>3. CASE Dispatch
    BY <1>1, <1>3, NobodyLeft DEF Opening, DispatchEnd
<1>4. CASE \E m \in Managers : PostResult(m)
    BY <1>4, NothingPosted DEF Opening
<1>5. CASE LoopBegin \/ LoopEnd \/ WaitInterrupted \/ WaitTimeout
    BY <1>5 DEF LoopBegin, LoopEnd, WaitInterrupted, WaitTimeout, Opening
<1>6. CASE shutdown
    BY <1>6, CallTested DEF Phase
<1>7. CASE PostShutdown
    BY <1>7, CallPosted DEF Opening
<1> QED
    BY <1>2, <1>3, <1>4, <1>5, <1>6, <1>7 DEF Next

LEMMA TwoEvents ==
    ASSUME NEW s, NEW p
    PROVE  Append(<<s>>, p) = <<s, p>>
<1>1. <<s>> \in Seq({s, p}) /\ <<s, p>> \in Seq({s, p})
    OBVIOUS
<1>2. /\ Len(Append(<<s>>, p)) = 2
      /\ Append(<<s>>, p)[1] = s
      /\ Append(<<s>>, p)[2] = p
      /\ Append(<<s>>, p) \in Seq({s, p})
    BY <1>1
<1>3. \A i \in 1..2 : Append(<<s>>, p)[i] = <<s, p>>[i]
    BY <1>2
<1> QED
    BY <1>1, <1>2, <1>3, SeqEqual

LEMMA OpenNext ==
    ASSUME TypeOK, TimeoutMeansEvent, ~disorder', EntryInv, Open,
           [Next]_vars
    PROVE  Phase' /\ Advances
<1> USE DEF kernelVars, managerVars, queueVars, loopVars, callVars
<1> DEFINE S == Event("STARTUP", None, TRUE)
           P == Event("PREPARE_SHUTDOWN", None, TRUE)
<1>0. /\ events = IF shutdownCalled THEN <<S, P>> ELSE <<S>>
      /\ S.mgr = None
    BY DEF Open, Event
<1>1. ASSUME UNCHANGED <<registry, shutdownEvent, running, left, managerVars>>,
             pc' # "postStartup",
             events' = IF shutdownCalled' THEN <<S, P>> ELSE <<S>>
      PROVE  Phase' /\ Advances
  <2>1. Open'
      BY <1>1 DEF Open, NotShuttingDown, NobodyWorks, AllAre
  <2> QED
      BY <1>1, <2>1 DEF Phase, Advances
<1>2. CASE LoopBegin \/ LoopEnd \/ WaitInterrupted \/ UNCHANGED vars
           \/ DispatchEnd
  <2>1. /\ UNCHANGED <<registry, shutdownEvent, running, left, managerVars,
                       events, shutdownCalled>>
        /\ pc' # "postStartup"
      BY <1>2
      DEF LoopBegin, LoopEnd, WaitInterrupted, DispatchEnd, vars, Open
  <2> QED
      BY <1>0, <1>1, <2>1
<1>3. CASE WaitTimeout
  <2>1. /\ events' = Tail(events) /\ current' = Head(events)
        /\ left' = IF Head(events).mgr = None THEN registry
                   ELSE {Head(events).mgr}
        /\ pc' = "dispatch"
        /\ UNCHANGED <<shutdownEvent, kernelVars, managerVars>>
      BY <1>3, TakenFromQueue DEF Open, NotShuttingDown
  <2>2. /\ Head(events) = S
        /\ Tail(events) = IF shutdownCalled THEN <<P>> ELSE <<>>
    <3> HIDE DEF S, P
    <3> QED
        BY <1>0
  <2>3. left' = Managers
      BY <1>0, <2>1, <2>2 DEF Open, NotShuttingDown
  <2>4. events' = Requests'
      BY <2>1, <2>2 DEF Requests
  <2>5. Moves("STARTUP", "PREPARE_STARTUP", "RUNNING")'
      BY <2>1, <2>2, <2>3 DEF Moves, Open, AllAre
  <2>6. Starting'
      BY <2>1, <2>4, <2>5 DEF Starting, Open, NotShuttingDown, NobodyWorks
  <2> QED
      BY <2>1, <2>6 DEF Phase, Advances
<1>4. CASE PostShutdown
  <2>1. /\ ~shutdownCalled /\ shutdownCalled' /\ pc # "postStartup"
        /\ events' = Append(events, P)
        /\ UNCHANGED <<registry, running, shutdownEvent, loopVars, managerVars>>
      BY <1>4, CallPosted
  <2>2. events' = <<S, P>>
      BY <1>0, <2>1, TwoEvents
  <2> QED
      BY <1>1, <2>1, <2>2
<1>7. CASE shutdown
    BY <1>7, CallTested DEF Phase
<1>5. CASE Dispatch
    BY <1>2, <1>5, NobodyLeft DEF Open, PostStartup
<1>6. CASE \E m \in Managers : PostResult(m)
    BY <1>6, NothingPosted DEF Open
<1> QED
    BY <1>2, <1>3, <1>4, <1>5, <1>6, <1>7 DEF Next

LEMMA StartingNext ==
    ASSUME TypeOK, TimeoutMeansEvent, ~disorder', EntryInv, Starting,
           [Next]_vars
    PROVE  Phase' /\ Advances
<1> USE DEF kernelVars, managerVars, queueVars, loopVars, callVars
<1>0. pc = "dispatch" /\ current.type = "STARTUP"
    BY DEF Starting, Moves, Event
<1>1. CASE UNCHANGED vars
  <2>1. Starting'
      BY <1>1
      DEF vars, Starting, NotShuttingDown, Requests, NobodyWorks, Moves
  <2> QED
      BY <1>1, <2>1 DEF vars, Phase, Advances
<1>2. CASE DispatchEnd
  <2>1. /\ left = {} /\ left' = {} /\ current' = NoEvent /\ pc' = "loop"
        /\ UNCHANGED <<events, shutdownEvent, kernelVars, managerVars>>
      BY <1>2 DEF DispatchEnd
  <2>2. AllAre("RUNNING")'
      BY <2>1 DEF Starting, Moves, AllAre
  <2>3. Started'
      BY <2>1, <2>2
      DEF Started, Starting, NotShuttingDown, Requests, NobodyWorks
  <2> QED
      BY <2>1, <2>3 DEF Phase, Advances
<1>3. ASSUME NEW m \in left \cap Managers, _onStartup(m)
      PROVE  Phase' /\ Advances
  <2>1. /\ left' = left \ {m}
        /\ mstate' = [mstate EXCEPT ![m] = "RUNNING"]
        /\ UNCHANGED <<pc, current, events, shutdownEvent, readyForShutdown,
                       work, kernelVars>>
      BY <1>3 DEF _onStartup, Turn
  <2>2. mstate[m] = "PREPARE_STARTUP"
      BY DEF Starting, Moves
  <2>3. Moves("STARTUP", "PREPARE_STARTUP", "RUNNING")'
      BY <2>1 DEF Starting, Moves, TypeOK
  <2>4. Starting'
      BY <2>1, <2>3 DEF Starting, NotShuttingDown, Requests, NobodyWorks
  <2>5. Advances
      BY <2>1, <2>2, RankValues DEF Advances, TypeOK
  <2> QED
      BY <2>4, <2>5 DEF Phase
<1>4. CASE Dispatch
    BY <1>0, <1>2, <1>3, <1>4, HandlersOfEvent DEF PostStartup
<1>5. CASE \E m \in Managers : PostResult(m)
    BY <1>5, NothingPosted DEF Starting
<1>6. CASE LoopBegin \/ LoopEnd \/ WaitInterrupted \/ WaitTimeout
    BY <1>0, <1>6 DEF LoopBegin, LoopEnd, WaitInterrupted, WaitTimeout
<1>7. CASE shutdown
    BY <1>7, CallTested DEF Phase
<1>8. CASE PostShutdown
  <2>1. /\ ~shutdownCalled /\ shutdownCalled'
        /\ events' = Append(events, Event("PREPARE_SHUTDOWN", None, TRUE))
        /\ UNCHANGED <<registry, running, shutdownEvent, loopVars, managerVars>>
      BY <1>8, CallPosted
  <2>2. events = <<>>
      BY <2>1 DEF Starting, Requests
  <2>3. events' = Requests'
    <3>1. events' = <<Event("PREPARE_SHUTDOWN", None, TRUE)>>
        BY <2>1, <2>2
    <3> QED
        BY <2>1, <3>1 DEF Requests
  <2>4. Starting'
      BY <2>1, <2>3 DEF Starting, NotShuttingDown, NobodyWorks, Moves
  <2> QED
      BY <2>1, <2>4 DEF Phase, Advances
<1> QED
    BY <1>1, <1>4, <1>5, <1>6, <1>7, <1>8 DEF Next

LEMMA StartedNext ==
    ASSUME TypeOK, TimeoutMeansEvent, ~disorder', EntryInv, Started,
           [Next]_vars
    PROVE  Phase' /\ Advances
<1> USE DEF kernelVars, managerVars, queueVars, loopVars, callVars
<1> DEFINE P == Event("PREPARE_SHUTDOWN", None, TRUE)
<1>1. ASSUME UNCHANGED <<registry, shutdownEvent, running, current, left,
                         managerVars>>,
             pc' # "postStartup",
             events' = Requests'
      PROVE  Phase' /\ Advances
  <2>1. Started'
      BY <1>1 DEF Started, NotShuttingDown, NobodyWorks, AllAre
  <2> QED
      BY <1>1, <2>1 DEF Phase, Advances
<1>2. CASE LoopBegin \/ LoopEnd \/ WaitInterrupted \/ UNCHANGED vars
  <2>1. /\ UNCHANGED <<registry, shutdownEvent, running, left, current,
                       managerVars, events, shutdownCalled>>
        /\ pc' # "postStartup"
      BY <1>2 DEF LoopBegin, LoopEnd, WaitInterrupted, vars, Started
  <2>2. events' = Requests'
      BY <2>1 DEF Started, Requests
  <2> QED
      BY <1>1, <2>1, <2>2
<1>3. CASE WaitTimeout
  <2>1. /\ events # <<>> /\ events' = Tail(events) /\ current' = Head(events)
        /\ left' = IF Head(events).mgr = None THEN registry
                   ELSE {Head(events).mgr}
        /\ pc' = "dispatch"
        /\ UNCHANGED <<shutdownEvent, kernelVars, managerVars>>
      BY <1>3, TakenFromQueue DEF Started, NotShuttingDown
  <2>2. shutdownCalled /\ events = <<P>>
      BY <2>1 DEF Started, Requests
  <2>3. events' = <<>> /\ current' = P
    <3> HIDE DEF P
    <3> QED
        BY <2>1, <2>2
  <2>4. left' = Managers
      BY <2>1, <2>3 DEF Started, NotShuttingDown, Event
  <2>5. Moves("PREPARE_SHUTDOWN", "RUNNING", "PREPARE_SHUTDOWN")'
      BY <2>1, <2>3, <2>4 DEF Moves, Started, AllAre
  <2>6. OnlyQueued({"SHUTDOWN_RESULT"})'
      BY <2>3 DEF OnlyQueued
  <2>7. OnlyWork({"nothing", "shutdown"})'
      BY <2>1 DEF OnlyWork, Started, NobodyWorks, NoWork, Work
  <2>8. /\ registry' = Managers /\ shutdownCalled' /\ ~shutdownEvent'
        /\ \A m \in left' : ~readyForShutdown'[m]
      BY <2>1, <2>2, <2>4 DEF Started, NotShuttingDown
  <2>9. Closing'
      BY <2>5, <2>6, <2>7, <2>8 DEF Closing
  <2> QED
      BY <2>1, <2>9 DEF Phase, Advances
<1>4. CASE PostShutdown
  <2>1. /\ ~shutdownCalled /\ shutdownCalled' /\ pc # "postStartup"
        /\ events' = Append(events, P)
        /\ UNCHANGED <<registry, running, shutdownEvent, loopVars, managerVars>>
      BY <1>4, CallPosted
  <2>2. events = <<>>
      BY <2>1 DEF Started, Requests
  <2>3. events' = Requests'
    <3>1. events' = <<P>>
        BY <2>1, <2>2
    <3> QED
        BY <2>1, <3>1 DEF Requests
  <2> QED
      BY <1>1, <2>1, <2>3
<1>7. CASE shutdown
    BY <1>7, CallTested DEF Phase
<1>5. CASE Dispatch
  <2>1. pc \in {"dispatch", "postStartup"}
      BY <1>5, HandlersOfEvent DEF DispatchEnd, PostStartup
  <2> QED
      BY <2>1 DEF Started, TypeOK
<1>6. CASE \E m \in Managers : PostResult(m)
    BY <1>6, NothingPosted DEF Started
<1> QED
    BY <1>2, <1>3, <1>4, <1>5, <1>6, <1>7 DEF Next

(* Other threads work on, but they bring no new type of event or of work.   *)
LEMMA ResultsStayOf ==
    ASSUME TypeOK, NEW m \in Managers, PostResult(m),
           NEW fors \in SUBSET {"nothing", "startup", "shutdown", "unregister"},
           NEW types, "nothing" \in fors,
           \A for \in fors \ {"nothing"} : ResultType[for] \in types,
           OnlyWork(fors), OnlyQueued(types)
    PROVE  OnlyWork(fors)' /\ OnlyQueued(types)'
<1>1. work[m].for \in fors \ {"nothing"}
    BY ResultPosted DEF OnlyWork
<1>2. PICK last \in BOOLEAN :
          events' = Append(events, Event(ResultType[work[m].for], m, last))
    BY ResultPosted
<1>3. Event(ResultType[work[m].for], m, last).type \in types
    BY <1>1 DEF Event
<1>4. OnlyQueued(types)'
  <2> DEFINE e == Event(ResultType[work[m].for], m, last)
  <2> HIDE DEF e
  <2> SUFFICES ASSUME NEW i \in 1..Len(events') PROVE events'[i].type \in types
      BY DEF OnlyQueued
  <2>1. events' = Append(events, e) /\ e.type \in types
      BY <1>2, <1>3 DEF e
  <2>2. CASE i = Len(events) + 1
      BY <2>1, <2>2 DEF TypeOK
  <2>3. CASE i # Len(events) + 1
      BY <2>1, <2>3 DEF TypeOK, OnlyQueued
  <2> QED
      BY <2>2, <2>3
<1>5. OnlyWork(fors)'
  <2>1. \A r \in Nat : /\ Work(work[m].for, r).for \in fors
                       /\ NoWork.for \in fors
      BY <1>1 DEF Work, NoWork
  <2>2. work[m].results \in Nat \ {0}
      BY <1>1 DEF PostResult, TypeOK, Works, NoWork, Work
  <2>3. work' = [work EXCEPT ![m] =
                    IF work[m].results = 1 THEN NoWork
                    ELSE Work(work[m].for, work[m].results - 1)]
      BY ResultPosted
  <2>4. work'[m] = NoWork \/ \E r \in Nat : work'[m] = Work(work[m].for, r)
      BY <2>2, <2>3 DEF TypeOK
  <2>5. work'[m].for \in fors
      BY <2>1, <2>4
  <2> QED
      BY <2>3, <2>5 DEF OnlyWork, TypeOK
<1> QED
    BY <1>4, <1>5

(* Taking an event brings none.                                             *)
LEMMA TakenOf ==
    ASSUME TypeOK, TimeoutMeansEvent, WaitTimeout, ~shutdownEvent, NEW types,
           OnlyQueued(types)
    PROVE  current'.type \in types /\ OnlyQueued(types)'
<1>1. events # <<>> /\ current' = Head(events) /\ events' = Tail(events)
    BY TakenFromQueue
<1>2. current'.type \in types
    BY <1>1 DEF TypeOK, OnlyQueued
<1>3. ASSUME NEW i \in 1..Len(events') PROVE events'[i].type \in types
  <2>1. i + 1 \in 1..Len(events) /\ events'[i] = events[i + 1]
      BY <1>1, <1>3 DEF TypeOK
  <2> QED
      BY <2>1 DEF OnlyQueued
<1> QED
    BY <1>2, <1>3 DEF OnlyQueued

LEMMA ClosingNext ==
    ASSUME TypeOK, TimeoutMeansEvent, ~disorder', EntryInv, Closing,
           [Next]_vars
    PROVE  Phase' /\ Advances
<1> USE DEF kernelVars, managerVars, queueVars, loopVars, callVars
<1>0. pc = "dispatch" /\ current.type = "PREPARE_SHUTDOWN"
    BY DEF Closing, Moves, Event
<1>1. CASE UNCHANGED vars
  <2>1. Closing'
      BY <1>1 DEF vars, Closing, OnlyQueued, OnlyWork, Moves
  <2> QED
      BY <1>1, <2>1 DEF vars, Phase, Advances
<1>2. CASE DispatchEnd
  <2>1. /\ left = {} /\ current' = NoEvent /\ pc' = "loop"
        /\ UNCHANGED <<events, shutdownEvent, kernelVars, managerVars>>
      BY <1>2 DEF DispatchEnd
  <2>2. AllAre("PREPARE_SHUTDOWN")'
      BY <2>1 DEF Closing, Moves, AllAre
  <2>3. Closed'
      BY <2>1, <2>2, NoEventType DEF Closed, Closing, OnlyQueued, OnlyWork
  <2> QED
      BY <2>1, <2>3 DEF Phase, Advances
<1>3. ASSUME NEW m \in left \cap Managers, _onPrepareShutdown(m)
      PROVE  Phase' /\ Advances
  <2>1. /\ left' = left \ {m}
        /\ mstate' = [mstate EXCEPT ![m] = "PREPARE_SHUTDOWN"]
        /\ UNCHANGED <<pc, current, events, registry, shutdownCalled>>
      BY <1>3 DEF _onPrepareShutdown, Turn
  <2>2. mstate[m] = "RUNNING"
      BY DEF Closing, Moves
  <2>3. Moves("PREPARE_SHUTDOWN", "RUNNING", "PREPARE_SHUTDOWN")'
      BY <2>1 DEF Closing, Moves, TypeOK
  <2>4. OnlyQueued({"SHUTDOWN_RESULT"})'
      BY <2>1 DEF Closing, OnlyQueued
  <2>5. OnlyWork({"nothing", "shutdown"})'
    <3>1. CASE UNCHANGED work
        BY <3>1 DEF Closing, OnlyWork
    <3>2. ASSUME NEW n \in 1..MaxResults,
                 work' = [work EXCEPT ![m] = Work("shutdown", n)]
          PROVE  OnlyWork({"nothing", "shutdown"})'
      <4>1. Work("shutdown", n).for = "shutdown"
          BY DEF Work
      <4> QED
          BY <3>2, <4>1 DEF Closing, OnlyWork, TypeOK
    <3> QED
        BY <1>3, <3>1, <3>2 DEF _onPrepareShutdown
  <2>6. ASSUME UNCHANGED <<readyForShutdown, shutdownEvent>> PROVE Closing'
    <3>1. /\ \A n \in left' : ~readyForShutdown'[n]
          /\ shutdownEvent' => left' = {}
        BY <2>1, <2>6 DEF Closing
    <3> QED
        BY <2>1, <2>3, <2>4, <2>5, <3>1 DEF Closing
  <2>7. ASSUME signalIsReadyForShutdown(m) PROVE Closing'
    <3>1. readyForShutdown' = [readyForShutdown EXCEPT ![m] = TRUE]
        BY <2>7 DEF signalIsReadyForShutdown
    <3>2. \A n \in left' : ~readyForShutdown'[n]
        BY <2>1, <3>1 DEF Closing, TypeOK
    <3>3. CASE left' = {}
        BY <2>1, <2>3, <2>4, <2>5, <3>2, <3>3 DEF Closing
    <3>4. CASE left' # {}
      <4>1. PICK n \in left' : ~readyForShutdown'[n] /\ n \in registry
          BY <2>1, <3>2, <3>4 DEF Closing, TypeOK
      <4>2. UNCHANGED shutdownEvent
          BY <2>7, <4>1 DEF signalIsReadyForShutdown
      <4>3. ~shutdownEvent'
          BY <2>1, <3>4, <4>2 DEF Closing
      <4> QED
          BY <2>1, <2>3, <2>4, <2>5, <3>2, <4>3 DEF Closing
    <3> QED
        BY <3>3, <3>4
  <2>8. Closing'
      BY <1>3, <2>6, <2>7 DEF _onPrepareShutdown
  <2>9. Advances
      BY <2>1, <2>2, RankValues DEF Advances, TypeOK
  <2> QED
      BY <2>8, <2>9 DEF Phase
<1>4. CASE Dispatch
    BY <1>0, <1>2, <1>3, <1>4, HandlersOfEvent DEF PostStartup
<1>5. ASSUME NEW m \in Managers, PostResult(m)
      PROVE  Phase' /\ Advances
  <2>1. OnlyWork({"nothing", "shutdown"})' /\ OnlyQueued({"SHUTDOWN_RESULT"})'
      BY <1>5, ResultsStayOf DEF Closing, ResultType
  <2>2. UNCHANGED <<shutdownEvent, mstate, readyForStartup, readyForShutdown,
                    loopVars, kernelVars>>
      BY <1>5, ResultPosted
  <2>3. Closing'
      BY <2>1, <2>2 DEF Closing, Moves
  <2> QED
      BY <2>2, <2>3 DEF Phase, Advances
<1>6. CASE LoopBegin \/ LoopEnd \/ WaitInterrupted \/ WaitTimeout
    BY <1>0, <1>6 DEF LoopBegin, LoopEnd, WaitInterrupted, WaitTimeout
<1>7. CASE shutdown
    BY <1>7, CallTested DEF Phase
<1>8. CASE PostShutdown
    BY <1>8, CallPosted DEF Closing
<1> QED
    BY <1>1, <1>4, <1>5, <1>6, <1>7, <1>8 DEF Next

LEMMA ClosedNext ==
    ASSUME TypeOK, TimeoutMeansEvent, ~disorder', EntryInv, Closed,
           [Next]_vars
    PROVE  Phase' /\ Advances
<1> USE DEF kernelVars, managerVars, queueVars, loopVars, callVars
<1>1. ASSUME UNCHANGED <<registry, shutdownCalled, mstate>>,
             pc' # "postStartup",
             current'.type \in {"none", "SHUTDOWN_RESULT"},
             OnlyQueued({"SHUTDOWN_RESULT"})',
             OnlyWork({"nothing", "shutdown"})'
      PROVE  Phase' /\ Advances
    BY <1>1 DEF Phase, Closed, AllAre, Advances
<1>2. CASE LoopBegin \/ LoopEnd \/ WaitInterrupted \/ DispatchEnd
           \/ UNCHANGED vars
  <2>1. /\ UNCHANGED <<registry, shutdownCalled, mstate, events, work>>
        /\ pc' # "postStartup" /\ current' \in {current, NoEvent}
      BY <1>2
      DEF LoopBegin, LoopEnd, WaitInterrupted, DispatchEnd, vars, Closed
  <2> QED
      BY <1>1, <2>1, NoEventType DEF Closed, OnlyQueued, OnlyWork
<1>3. CASE WaitTimeout
  <2>1. CASE shutdownEvent
    <3>1. /\ current' = Event("SHUTDOWN", None, TRUE) /\ left' = registry
          /\ ~shutdownEvent' /\ pc' = "dispatch"
          /\ UNCHANGED <<events, kernelVars, managerVars>>
        BY <1>3, <2>1 DEF WaitTimeout
    <3>2. OnlyQueued({"SHUTDOWN_RESULT", "UNREGISTER_RESULT"})'
        BY <3>1 DEF Closed, OnlyQueued
    <3>3. OnlyWork({"nothing", "shutdown", "unregister"})'
        BY <3>1 DEF Closed, OnlyWork
    <3>4. Leaving'
        BY <3>1, <3>2, <3>3 DEF Closed, Leaving, AllAre
    <3> QED
        BY <3>1, <3>4 DEF Phase, Advances
  <2>2. CASE ~shutdownEvent
    <3>1. /\ pc' = "dispatch"
          /\ UNCHANGED <<kernelVars, managerVars>>
        BY <1>3, <2>2, TakenFromQueue
    <3>2. /\ current'.type \in {"SHUTDOWN_RESULT"}
          /\ OnlyQueued({"SHUTDOWN_RESULT"})'
        BY <1>3, <2>2, TakenOf DEF Closed
    <3>3. OnlyWork({"nothing", "shutdown"})'
        BY <3>1 DEF Closed, OnlyWork
    <3> QED
        BY <1>1, <3>1, <3>2, <3>3
  <2> QED
      BY <2>1, <2>2
<1>4. ASSUME NEW m \in Managers, onShutdownResult(m)
      PROVE  Phase' /\ Advances
  <2>1. /\ UNCHANGED <<registry, shutdownCalled, mstate, events, work, pc>>
        /\ UNCHANGED current
      BY <1>4 DEF onShutdownResult, Turn
  <2> QED
      BY <1>1, <2>1 DEF Closed, OnlyQueued, OnlyWork
<1>5. CASE Dispatch
    BY <1>2, <1>4, <1>5, HandlersOfEvent DEF Closed, PostStartup
<1>6. ASSUME NEW m \in Managers, PostResult(m)
      PROVE  Phase' /\ Advances
  <2>1. OnlyWork({"nothing", "shutdown"})' /\ OnlyQueued({"SHUTDOWN_RESULT"})'
      BY <1>6, ResultsStayOf DEF Closed, ResultType
  <2>2. UNCHANGED <<mstate, loopVars, kernelVars>>
      BY <1>6, ResultPosted
  <2> QED
      BY <1>1, <2>1, <2>2 DEF Closed
<1>8. CASE shutdown
    BY <1>8, CallTested DEF Phase
<1>9. CASE PostShutdown
    BY <1>9, CallPosted DEF Closed
<1> QED
    BY <1>2, <1>3, <1>5, <1>6, <1>8, <1>9 DEF Next

LEMMA LeavingNext ==
    ASSUME TypeOK, TimeoutMeansEvent, ~disorder', EntryInv, Leaving,
           [Next]_vars
    PROVE  Phase' /\ Advances
<1> USE DEF kernelVars, managerVars, queueVars, loopVars, callVars
<1>0. pc = "dispatch" /\ current.type = "SHUTDOWN"
    BY DEF Leaving, Event
<1>1. CASE UNCHANGED vars
  <2>1. Leaving'
      BY <1>1 DEF vars, Leaving, OnlyQueued, OnlyWork
  <2> QED
      BY <1>1, <2>1 DEF vars, Phase, Advances
<1>2. CASE DispatchEnd
  <2>1. /\ left = {} /\ current' = NoEvent /\ pc' = "loop"
        /\ UNCHANGED <<events, shutdownEvent, kernelVars, managerVars>>
      BY <1>2 DEF DispatchEnd
  <2>2. \A m \in Managers : mstate'[m] \in {"SHUTDOWN", "STOPPED"}
      BY <2>1 DEF Leaving
  <2>3. Gone'
      BY <2>1, <2>2, NoEventType DEF Leaving, Gone, OnlyQueued, OnlyWork
  <2> QED
      BY <2>1, <2>3 DEF Phase, Advances
<1>3. ASSUME NEW m \in left \cap Managers, _onShutdown(m)
      PROVE  Phase' /\ Advances
  <2>1. /\ left' = left \ {m}
        /\ UNCHANGED <<pc, current, events, shutdownEvent, shutdownCalled>>
      BY <1>3 DEF _onShutdown, Turn
  <2>2. /\ mstate[m] = "PREPARE_SHUTDOWN"
        /\ \/ mstate' = [mstate EXCEPT ![m] = "STOPPED"]
           \/ mstate' = [mstate EXCEPT ![m] = "SHUTDOWN"]
      BY <1>3 DEF _onShutdown, unregisterWithKernel, Leaving
  <2>3. \A n \in Managers : IF n \in left' THEN mstate'[n] = "PREPARE_SHUTDOWN"
                            ELSE mstate'[n] \in {"SHUTDOWN", "STOPPED"}
      BY <2>1, <2>2 DEF Leaving, TypeOK
  <2>4. work' = work \/ work' = [work EXCEPT ![m] = Work("unregister", 1)]
      BY <1>3 DEF _onShutdown
  <2>5. Work("unregister", 1).for = "unregister"
      BY DEF Work
  <2>6. OnlyWork({"nothing", "shutdown", "unregister"})'
      BY <2>4, <2>5 DEF Leaving, OnlyWork, TypeOK
  <2>7. Leaving'
      BY <2>1, <2>3, <2>6 DEF Leaving, OnlyQueued
  <2>8. Advances
      BY <2>2, RankValues DEF Advances, TypeOK
  <2> QED
      BY <2>7, <2>8 DEF Phase
<1>4. CASE Dispatch
    BY <1>0, <1>2, <1>3, <1>4, HandlersOfEvent DEF PostStartup
<1>5. ASSUME NEW m \in Managers, PostResult(m)
      PROVE  Phase' /\ Advances
  <2>1. /\ OnlyWork({"nothing", "shutdown", "unregister"})'
        /\ OnlyQueued({"SHUTDOWN_RESULT", "UNREGISTER_RESULT"})'
      BY <1>5, ResultsStayOf DEF Leaving, ResultType
  <2>2. UNCHANGED <<shutdownEvent, mstate, loopVars, kernelVars>>
      BY <1>5, ResultPosted
  <2>3. Leaving'
      BY <2>1, <2>2 DEF Leaving
  <2> QED
      BY <2>2, <2>3 DEF Phase, Advances
<1>6. CASE LoopBegin \/ LoopEnd \/ WaitInterrupted \/ WaitTimeout
    BY <1>0, <1>6 DEF LoopBegin, LoopEnd, WaitInterrupted, WaitTimeout
<1>7. CASE shutdown
    BY <1>7, CallTested DEF Phase
<1>8. CASE PostShutdown
    BY <1>8, CallPosted DEF Leaving
<1> QED
    BY <1>1, <1>4, <1>5, <1>6, <1>7, <1>8 DEF Next

LEMMA GoneNext ==
    ASSUME TypeOK, TimeoutMeansEvent, ~disorder', EntryInv, Gone,
           [Next]_vars
    PROVE  Phase' /\ Advances
<1> USE DEF kernelVars, managerVars, queueVars, loopVars, callVars
<1> DEFINE Types == {"SHUTDOWN_RESULT", "UNREGISTER_RESULT"}
           Fors == {"nothing", "shutdown", "unregister"}
<1>1. ASSUME UNCHANGED <<shutdownCalled, shutdownEvent, mstate>>,
             pc' # "postStartup",
             current'.type \in {"none"} \cup Types,
             OnlyQueued(Types)', OnlyWork(Fors)'
      PROVE  Phase' /\ Advances
    BY <1>1 DEF Phase, Gone, Advances
<1>2. CASE LoopBegin \/ LoopEnd \/ WaitInterrupted \/ DispatchEnd
           \/ UNCHANGED vars
  <2>1. /\ UNCHANGED <<shutdownCalled, shutdownEvent, mstate, events, work>>
        /\ pc' # "postStartup" /\ current' \in {current, NoEvent}
      BY <1>2
      DEF LoopBegin, LoopEnd, WaitInterrupted, DispatchEnd, vars, Gone
  <2> QED
      BY <1>1, <2>1, NoEventType DEF Gone, OnlyQueued, OnlyWork
<1>3. CASE WaitTimeout
  <2>1. /\ pc' = "dispatch"
        /\ UNCHANGED <<shutdownEvent, kernelVars, managerVars>>
      BY <1>3, TakenFromQueue DEF Gone
  <2>2. current'.type \in Types /\ OnlyQueued(Types)'
      BY <1>3, TakenOf DEF Gone
  <2>3. OnlyWork(Fors)'
      BY <2>1 DEF Gone, OnlyWork
  <2> QED
      BY <1>1, <2>1, <2>2, <2>3
<1>4. ASSUME NEW m \in Managers, onShutdownResult(m)
      PROVE  Phase' /\ Advances
  <2>1. mstate[m] # "PREPARE_SHUTDOWN"
      BY DEF Gone
  <2>2. UNCHANGED <<shutdownCalled, shutdownEvent, mstate, events, work, pc,
                    current>>
      BY <1>4, <2>1 DEF onShutdownResult, Turn
  <2> QED
      BY <1>1, <2>2 DEF Gone, OnlyQueued, OnlyWork
<1>5. ASSUME NEW m \in Managers, onUnregisterResult(m)
      PROVE  Phase' /\ Advances
  <2>1. /\ mstate' = [mstate EXCEPT ![m] = "STOPPED"]
        /\ UNCHANGED <<shutdownCalled, shutdownEvent, events, work, pc,
                       current>>
      BY <1>5 DEF onUnregisterResult, unregisterWithKernel, Turn
  <2>2. Gone'
      BY <2>1 DEF Gone, OnlyQueued, OnlyWork, TypeOK
  <2>3. mstate[m] \in {"SHUTDOWN", "STOPPED"}
      BY DEF Gone
  <2>4. Advances
      BY <2>1, <2>3, RankValues DEF Advances, TypeOK
  <2> QED
      BY <2>2, <2>4 DEF Phase
<1>6. CASE Dispatch
    BY <1>2, <1>4, <1>5, <1>6, HandlersOfEvent DEF Gone, PostStartup
<1>7. ASSUME NEW m \in Managers, PostResult(m)
      PROVE  Phase' /\ Advances
  <2>1. OnlyWork(Fors)' /\ OnlyQueued(Types)'
      BY <1>7, ResultsStayOf DEF Gone, ResultType
  <2>2. UNCHANGED <<shutdownEvent, mstate, loopVars, kernelVars>>
      BY <1>7, ResultPosted
  <2> QED
      BY <1>1, <2>1, <2>2 DEF Gone
<1>8. CASE shutdown
    BY <1>8, CallTested DEF Phase
<1>9. CASE PostShutdown
    BY <1>9, CallPosted DEF Gone
<1> QED
    BY <1>2, <1>3, <1>6, <1>7, <1>8, <1>9 DEF Next

(* The preparation.  A manager that is not ready yet holds the barrier; the *)
(* last signal finds no result on the way and no manager at work.           *)
LEMMA LastSignal ==
    ASSUME TypeOK, Preparing, NEW m \in Managers, m \in left,
           left' = left \ {m},
           signalIsReadyForStartup(m),
           mstate' = [mstate EXCEPT ![m] = "PREPARE_STARTUP"],
           UNCHANGED <<registry, shutdownEvent, readyForShutdown,
                       shutdownCalled, events, work, current>>,
           pc = "dispatch"
    PROVE  Phase'
<1>1. readyForStartup' = [readyForStartup EXCEPT ![m] = TRUE]
    BY DEF signalIsReadyForStartup
<1>2. NotShuttingDown'
    BY DEF Preparing, NotShuttingDown
<1>3. SignalsOnce'
  <2>1. \A n \in left' : /\ ~readyForStartup'[n]
                         /\ work'[n] = NoWork
                         /\ \A i \in 1..Len(events') : events'[i].mgr # n
      BY <1>1 DEF Preparing, SignalsOnce, TypeOK
  <2>2. \A i \in 1..Len(events') : /\ events'[i].mgr \in Managers
                                   /\ ~readyForStartup'[events'[i].mgr]
                                   /\ work'[events'[i].mgr] = NoWork
      BY <1>1 DEF Preparing, SignalsOnce, TypeOK
  <2>3. \A n \in Managers : readyForStartup'[n] => work'[n] = NoWork
      BY <1>1 DEF Preparing, SignalsOnce, TypeOK
  <2> QED
      BY <2>1, <2>2, <2>3 DEF Preparing, SignalsOnce
<1>4. \A n \in Managers \ left' : mstate'[n] = "PREPARE_STARTUP"
    BY DEF Preparing, Moves, AllAre, TypeOK
<1>5. CASE \A n \in Managers : readyForStartup'[n]
  <2>1. left' = {}
      BY <1>3, <1>5 DEF SignalsOnce, TypeOK
  <2>2. \A i \in 1..Len(events') : FALSE
      BY <1>3, <1>5 DEF SignalsOnce
  <2>3. events' = <<>>
      BY <2>2 DEF TypeOK
  <2>4. \A n \in Managers : work'[n] = NoWork
      BY <1>3, <1>5 DEF SignalsOnce
  <2>5. running' /\ pc' = "postStartup"
      BY <1>5 DEF signalIsReadyForStartup, Preparing, NotShuttingDown
  <2>6. \A n \in Managers : mstate'[n] = "PREPARE_STARTUP"
      BY <1>4, <2>1
  <2>7. ~shutdownCalled'
      BY DEF Preparing
  <2> QED
      BY <1>2, <2>1, <2>3, <2>4, <2>5, <2>6, <2>7
      DEF Phase, Opening, NobodyWorks, AllAre
<1>6. CASE \E n \in Managers : ~readyForStartup'[n]
  <2>1. ~running' /\ pc' = "dispatch"
      BY <1>6 DEF signalIsReadyForStartup, Preparing, NotShuttingDown
  <2>2. /\ OnlyQueued({"STARTUP_RESULT"})'
        /\ OnlyWork({"nothing", "startup"})'
        /\ \A n \in Managers : work'[n].results \in {0, 1}
        /\ ~shutdownCalled'
      BY DEF Preparing, OnlyQueued, OnlyWork
  <2>3. CASE Moves("PREPARE_STARTUP", "STOPPED", "PREPARE_STARTUP")
    <3>1. Moves("PREPARE_STARTUP", "STOPPED", "PREPARE_STARTUP")'
        BY <2>1, <2>3 DEF Moves, TypeOK
    <3> QED
        BY <1>2, <1>3, <1>6, <2>1, <2>2, <3>1 DEF Phase, Preparing
  <2>4. CASE /\ AllAre("PREPARE_STARTUP")
             /\ current.type = "STARTUP_RESULT" /\ left \subseteq {current.mgr}
    <3>1. AllAre("PREPARE_STARTUP")'
        BY <2>4 DEF AllAre, TypeOK
    <3>2. current'.type = "STARTUP_RESULT" /\ left' \subseteq {current'.mgr}
        BY <2>4
    <3> QED
        BY <1>2, <1>3, <1>6, <2>1, <2>2, <3>1, <3>2 DEF Phase, Preparing
  <2> QED
      BY <2>3, <2>4 DEF Preparing
<1> QED
    BY <1>5, <1>6

LEMMA PreparingNext ==
    ASSUME TypeOK, TimeoutMeansEvent, ~disorder', EntryInv, Preparing,
           [Next]_vars
    PROVE  Phase' /\ Advances
<1> USE DEF kernelVars, managerVars, queueVars, loopVars, callVars
<1>1. CASE /\ UNCHANGED <<registry, shutdownEvent, running, shutdownCalled,
                          events, left, managerVars>>
           /\ \/ UNCHANGED <<current, pc>>
              \/ /\ pc # "dispatch" /\ pc' \notin {"dispatch", "postStartup"}
                 /\ UNCHANGED current
              \/ pc' = "loop" /\ current' = NoEvent /\ left = {}
  <2>1. /\ NotShuttingDown' /\ ~running' /\ ~shutdownCalled'
        /\ OnlyQueued({"STARTUP_RESULT"})'
        /\ OnlyWork({"nothing", "startup"})'
        /\ \A m \in Managers : work'[m].results \in {0, 1}
        /\ \E m \in Managers : ~readyForStartup'[m]
        /\ SignalsOnce'
      BY <1>1
      DEF Preparing, NotShuttingDown, OnlyQueued, OnlyWork, SignalsOnce
  <2>2. CASE Moves("PREPARE_STARTUP", "STOPPED", "PREPARE_STARTUP")
    <3>1. CASE UNCHANGED <<current, pc>>
      <4>1. Moves("PREPARE_STARTUP", "STOPPED", "PREPARE_STARTUP")'
          BY <1>1, <2>2, <3>1 DEF Moves
      <4> QED
          BY <1>1, <2>1, <4>1 DEF Phase, Preparing, Advances
    <3>2. CASE pc' = "loop" /\ current' = NoEvent /\ left = {}
      <4>1. AllAre("PREPARE_STARTUP")' /\ left' = {}
          BY <1>1, <2>2, <3>2 DEF Moves, AllAre
      <4> QED
          BY <1>1, <2>1, <3>2, <4>1 DEF Phase, Preparing, Advances
    <3> QED
        BY <1>1, <2>2, <3>1, <3>2 DEF Moves
  <2>3. CASE /\ AllAre("PREPARE_STARTUP")
             /\ pc # "postStartup"
             /\ \/ current = NoEvent /\ left = {}
                \/ /\ current.type = "STARTUP_RESULT"
                   /\ left \subseteq {current.mgr}
    <3>1. AllAre("PREPARE_STARTUP")' /\ pc' # "postStartup"
        BY <1>1, <2>3 DEF AllAre
    <3>2. \/ current' = NoEvent /\ left' = {}
          \/ current'.type = "STARTUP_RESULT" /\ left' \subseteq {current'.mgr}
        BY <1>1, <2>3
    <3> QED
        BY <1>1, <2>1, <3>1, <3>2 DEF Phase, Preparing, Advances
  <2> QED
      BY <2>2, <2>3 DEF Preparing
<1>2. CASE LoopBegin \/ LoopEnd \/ WaitInterrupted \/ DispatchEnd
           \/ UNCHANGED vars
    BY <1>1, <1>2
    DEF LoopBegin, LoopEnd, WaitInterrupted, DispatchEnd, vars, Preparing
<1>3. CASE WaitTimeout
  <2>1. /\ events # <<>> /\ current' = Head(events) /\ events' = Tail(events)
        /\ left' = IF Head(events).mgr = None THEN registry
                   ELSE {Head(events).mgr}
        /\ pc = "wait" /\ pc' = "dispatch"
        /\ UNCHANGED <<shutdownEvent, kernelVars, managerVars>>
      BY <1>3, TakenFromQueue DEF Preparing, NotShuttingDown
  <2>2. PICK n \in Managers : n = Head(events).mgr
      BY <2>1 DEF Preparing, SignalsOnce, TypeOK
  <2>3. left' = {n} /\ current'.mgr = n
      BY <2>1, <2>2, KernelConstants
  <2>4. /\ current'.type = "STARTUP_RESULT"
        /\ OnlyQueued({"STARTUP_RESULT"})'
      BY <1>3, TakenOf DEF Preparing, NotShuttingDown
  <2>5. /\ events[1].mgr = n /\ Len(events) \in Nat \ {0}
        /\ Len(events') = Len(events) - 1
        /\ \A i \in 1..Len(events') : events'[i] = events[i + 1]
      BY <2>1, <2>2 DEF TypeOK
  <2>6. SignalsOnce'
    <3>1. /\ ~readyForStartup'[n] /\ work'[n] = NoWork
          /\ \A i \in 1..Len(events') : events'[i].mgr # n
        BY <2>1, <2>5 DEF Preparing, SignalsOnce
    <3>2. \A i \in 1..Len(events') : /\ events'[i].mgr \in Managers
                                     /\ ~readyForStartup'[events'[i].mgr]
                                     /\ work'[events'[i].mgr] = NoWork
        BY <2>1, <2>5 DEF Preparing, SignalsOnce
    <3>3. \A i, j \in 1..Len(events') :
              events'[i].mgr = events'[j].mgr => i = j
        BY <2>5 DEF Preparing, SignalsOnce
    <3>4. \A m \in Managers : readyForStartup'[m] => work'[m] = NoWork
        BY <2>1 DEF Preparing, SignalsOnce
    <3> QED
        BY <2>3, <3>1, <3>2, <3>3, <3>4 DEF SignalsOnce
  <2>7. AllAre("PREPARE_STARTUP")'
      BY <2>1 DEF Preparing, Moves, AllAre
  <2>8. /\ NotShuttingDown' /\ ~running' /\ ~shutdownCalled'
        /\ OnlyWork({"nothing", "startup"})'
        /\ \A m \in Managers : work'[m].results \in {0, 1}
        /\ \E m \in Managers : ~readyForStartup'[m]
      BY <2>1 DEF Preparing, NotShuttingDown, OnlyWork
  <2>9. Preparing'
      BY <2>1, <2>3, <2>4, <2>6, <2>7, <2>8 DEF Preparing
  <2> QED
      BY <2>1, <2>9 DEF Phase, Advances
<1>4. ASSUME NEW m \in left \cap Managers, _onPrepareStartup(m),
             current.type = "PREPARE_STARTUP"
      PROVE  Phase' /\ Advances
  <2>1. /\ pc = "dispatch" /\ left' = left \ {m}
        /\ mstate' = [mstate EXCEPT ![m] = "PREPARE_STARTUP"]
        /\ UNCHANGED <<registry, shutdownEvent, readyForShutdown,
                       shutdownCalled, events, current>>
      BY <1>4 DEF _onPrepareStartup, Turn
  <2>2. Moves("PREPARE_STARTUP", "STOPPED", "PREPARE_STARTUP")
      BY <1>4, NoEventType DEF Preparing
  <2>3. Advances
      BY <2>1, <2>2 DEF Advances, Moves, TypeOK
  <2>4. CASE signalIsReadyForStartup(m) /\ UNCHANGED work
      BY <2>1, <2>3, <2>4, LastSignal
  <2>5. CASE /\ work' = [work EXCEPT ![m] = Work("startup", 1)]
             /\ UNCHANGED <<readyForStartup, running, pc>>
    <3>1. Work("startup", 1).for = "startup" /\ Work("startup", 1).results = 1
        BY DEF Work
    <3>2. SignalsOnce'
        BY <2>1, <2>5 DEF Preparing, SignalsOnce, TypeOK
    <3>3. Moves("PREPARE_STARTUP", "STOPPED", "PREPARE_STARTUP")'
        BY <2>1, <2>2, <2>5 DEF Moves, TypeOK
    <3>4. /\ OnlyWork({"nothing", "startup"})'
          /\ \A n \in Managers : work'[n].results \in {0, 1}
        BY <2>5, <3>1 DEF Preparing, OnlyWork, TypeOK
    <3>5. /\ NotShuttingDown' /\ ~running' /\ ~shutdownCalled'
          /\ OnlyQueued({"STARTUP_RESULT"})'
          /\ \E n \in Managers : ~readyForStartup'[n]
        BY <2>1, <2>5 DEF Preparing, NotShuttingDown, OnlyQueued
    <3> QED
        BY <2>3, <3>2, <3>3, <3>4, <3>5 DEF Phase, Preparing
  <2> QED
      BY <1>4, <2>4, <2>5 DEF _onPrepareStartup
<1>5. ASSUME NEW m \in left \cap Managers, onStartupResult(m),
             current.type = "STARTUP_RESULT"
      PROVE  Phase' /\ Advances
  <2>1. /\ pc = "dispatch" /\ left' = left \ {m}
        /\ signalIsReadyForStartup(m)
        /\ UNCHANGED <<registry, shutdownEvent, readyForShutdown, mstate,
                       shutdownCalled, events, current, work>>
      BY <1>5 DEF onStartupResult, Turn
  <2>2. mstate[m] = "PREPARE_STARTUP"
      BY <1>5 DEF Preparing, Moves, AllAre, Event
  <2>3. mstate' = [mstate EXCEPT ![m] = "PREPARE_STARTUP"]
      BY <2>1, <2>2 DEF TypeOK
  <2>4. Phase'
      BY <2>1, <2>3, LastSignal
  <2> QED
      BY <2>1, <2>4 DEF Advances
<1>6. CASE Dispatch
  <2>1. current.type \in {"PREPARE_STARTUP", "STARTUP_RESULT", "none"}
      BY NoEventType DEF Preparing, Moves, Event
  <2>2. pc # "postStartup"
      BY DEF Preparing, Moves
  <2> QED
      BY <1>2, <1>4, <1>5, <1>6, <2>1, <2>2, HandlersOfEvent DEF PostStartup
<1>7. ASSUME NEW m \in Managers, PostResult(m)
      PROVE  Phase' /\ Advances
  <2>1. work[m].for = "startup" /\ work[m] # NoWork
      BY <1>7, ResultPosted DEF Preparing, OnlyWork
  <2>2. work' = [work EXCEPT ![m] = NoWork]
    <3>1. work[m].results \in {0, 1} /\ work[m].results > 0
        BY <1>7 DEF Preparing, PostResult
    <3> QED
        BY <1>7, <3>1, ResultPosted
  <2>3. UNCHANGED <<shutdownEvent, mstate, readyForStartup, readyForShutdown,
                    loopVars, kernelVars>>
      BY <1>7, ResultPosted
  <2>4. PICK e : events' = Append(events, e) /\ e.mgr = m
    <3>1. \E last \in BOOLEAN :
              events' = Append(events, Event(ResultType[work[m].for], m, last))
        BY <1>7, ResultPosted
    <3> QED
        BY <3>1 DEF Event
  <2>5. /\ OnlyWork({"nothing", "startup"})'
        /\ OnlyQueued({"STARTUP_RESULT"})'
      BY <1>7, ResultsStayOf DEF Preparing, ResultType
  <2>6. /\ Len(events) \in Nat /\ Len(events') = Len(events) + 1
        /\ events'[Len(events) + 1].mgr = m
        /\ \A i \in 1..Len(events) : events'[i] = events[i]
      BY <2>4 DEF TypeOK
  <2>7. ~readyForStartup[m] /\ m \notin left
      BY <2>1 DEF Preparing, SignalsOnce
  <2>8. \A i \in 1..Len(events) : events[i].mgr # m
      BY <2>1 DEF Preparing, SignalsOnce
  <2>9. SignalsOnce'
    <3>1. \A n \in left' : /\ ~readyForStartup'[n]
                           /\ work'[n] = NoWork
                           /\ \A i \in 1..Len(events') : events'[i].mgr # n
        BY <2>2, <2>3, <2>6, <2>7 DEF Preparing, SignalsOnce, TypeOK
    <3>2. \A i \in 1..Len(events') : /\ events'[i].mgr \in Managers
                                     /\ ~readyForStartup'[events'[i].mgr]
                                     /\ work'[events'[i].mgr] = NoWork
        BY <2>2, <2>3, <2>6, <2>7 DEF Preparing, SignalsOnce, TypeOK
    <3>3. \A i, j \in 1..Len(events') :
              events'[i].mgr = events'[j].mgr => i = j
        BY <2>6, <2>8 DEF Preparing, SignalsOnce
    <3>4. \A n \in Managers : readyForStartup'[n] => work'[n] = NoWork
        BY <2>2, <2>3 DEF Preparing, SignalsOnce, TypeOK
    <3> QED
        BY <3>1, <3>2, <3>3, <3>4 DEF SignalsOnce
  <2>10. \A n \in Managers : work'[n].results \in {0, 1}
    <3>1. NoWork.results = 0
        BY DEF NoWork, Work
    <3> QED
        BY <2>2, <3>1 DEF Preparing, TypeOK
  <2>11. /\ NotShuttingDown' /\ ~running' /\ ~shutdownCalled'
         /\ \E n \in Managers : ~readyForStartup'[n]
      BY <2>3 DEF Preparing, NotShuttingDown
  <2>12. \/ Moves("PREPARE_STARTUP", "STOPPED", "PREPARE_STARTUP")'
         \/ /\ AllAre("PREPARE_STARTUP")'
            /\ pc' # "postStartup"
            /\ \/ current' = NoEvent /\ left' = {}
               \/ /\ current'.type = "STARTUP_RESULT"
                  /\ left' \subseteq {current'.mgr}
      BY <2>3 DEF Preparing, Moves, AllAre
  <2>13. Preparing'
      BY <2>5, <2>9, <2>10, <2>11, <2>12 DEF Preparing
  <2> QED
      BY <2>3, <2>13 DEF Phase, Advances
<1>8. CASE shutdown
    BY <1>8, CallTested DEF Phase
<1>9. CASE PostShutdown
    BY <1>9, CallPosted DEF Preparing
<1> QED
    BY <1>2, <1>3, <1>6, <1>7, <1>8, <1>9 DEF Next

(* A call passes the test alone while the kernel runs, and running is       *)
(* reset only after its event has been handled.                             *)
LEMMA EntryNext ==
    ASSUME TypeOK, ~disorder', EntryInv, Phase, [Next]_vars
    PROVE  EntryInv'
<1> USE DEF kernelVars, managerVars, queueVars, loopVars, callVars
<1>1. CASE shutdown
  <2>1. /\ UNCHANGED <<running, shutdownCalled>>
        /\ \/ entered' = entered
           \/ /\ running /\ ~shutdownCalled /\ entered' = entered + 1
              /\ ~(entered > 0)
      BY <1>1 DEF shutdown
  <2> QED
      BY <2>1 DEF EntryInv
<1>2. CASE PostShutdown
    BY <1>2 DEF PostShutdown, EntryInv, TypeOK
<1>3. CASE /\ UNCHANGED <<entered, shutdownCalled>>
           /\ running => running' \/ shutdownCalled
    BY <1>3 DEF EntryInv
<1>4. CASE LoopBegin \/ LoopEnd \/ WaitInterrupted \/ WaitTimeout
           \/ DispatchEnd \/ PostStartup \/ UNCHANGED vars
           \/ \E m \in Managers : PostResult(m)
  <2>1. UNCHANGED <<entered, shutdownCalled, running>>
      BY <1>4
      DEF LoopBegin, LoopEnd, WaitInterrupted, WaitTimeout, DispatchEnd,
          PostStartup, PostResult, vars
  <2> QED
      BY <1>3, <2>1
<1>5. ASSUME NEW m \in left \cap Managers,
             \/ _onPrepareStartup(m) \/ onStartupResult(m) \/ _onStartup(m)
             \/ _onShutdown(m) \/ onUnregisterResult(m)
      PROVE  EntryInv'
    BY <1>3, <1>5
    DEF _onPrepareStartup, onStartupResult, signalIsReadyForStartup, _onStartup,
        _onShutdown, onUnregisterResult
<1>6. ASSUME NEW m \in left \cap Managers, pc = "dispatch",
             current.type \in {"PREPARE_SHUTDOWN", "SHUTDOWN_RESULT"},
             _onPrepareShutdown(m) \/ onShutdownResult(m)
      PROVE  EntryInv'
  <2>1. shutdownCalled
      BY <1>6, NoEventType
      DEF Phase, Fresh, Preparing, Opening, Open, Starting, Started, Closing,
          Closed, Leaving, Gone, Moves, Event
  <2>2. UNCHANGED <<entered, shutdownCalled>>
      BY <1>6 DEF _onPrepareShutdown, onShutdownResult
  <2> QED
      BY <1>3, <2>1, <2>2
<1> QED
    BY <1>1, <1>2, <1>4, <1>5, <1>6, HandlersOfEvent DEF Next

LEMMA PhaseNext ==
    ASSUME TypeOK, TimeoutMeansEvent, PhaseInv, [Next]_vars
    PROVE  PhaseInv' /\ (disorder' \/ Advances)
<1>1. disorder => disorder'
  <2> USE DEF kernelVars, managerVars, queueVars, loopVars, callVars
  <2> QED
      BY DEF Next, Dispatch, vars, LoopBegin, LoopEnd, WaitInterrupted,
         WaitTimeout, DispatchEnd, PostStartup, _onPrepareStartup,
         onStartupResult, _onStartup, _onPrepareShutdown, onShutdownResult,
         _onShutdown, onUnregisterResult, shutdown, PostShutdown, PostResult
<1>2. CASE disorder'
    BY <1>2 DEF PhaseInv
<1>3. CASE ~disorder'
  <2>1. EntryInv /\ Phase
      BY <1>1, <1>3 DEF PhaseInv
  <2>2. EntryInv'
      BY <1>3, <2>1, EntryNext
  <2>3. Phase' /\ Advances
      BY <1>3, <2>1, FreshNext, PreparingNext, OpeningNext, OpenNext,
         StartingNext, StartedNext, ClosingNext, ClosedNext, LeavingNext,
         GoneNext
      DEF Phase
  <2> QED
      BY <2>2, <2>3 DEF PhaseInv
<1> QED
    BY <1>2, <1>3

(* Every manager goes through its states one after the other and never      *)
(* back, for any set of managers, whichever of them get ready, or leave,    *)
(* later, and with calls of shutdown() at any time.  From a call on that    *)
(* passes the test of shutdown() together with another one, or posts its    *)
(* event before the startup event, nothing is claimed.                      *)
THEOREM StatesInOrder == Spec => StatesAdvance
<1>1. Init => PhaseInv
  <2>1. Init => EntryInv /\ Fresh
      BY DEF Init, EntryInv, Fresh, NotShuttingDown, NobodyWorks, AllAre
  <2> QED
      BY <2>1 DEF PhaseInv, Phase
<1>2. TypeOK /\ TimeoutMeansEvent /\ PhaseInv /\ [Next]_vars => PhaseInv'
    BY PhaseNext
<1> DEFINE A == \A m \in Managers :
                  ~disorder' /\ mstate[m] # "STOPPED" /\ mstate'[m] # mstate[m]
                    => \/ Rank[mstate'[m]] = Rank[mstate[m]] + 1
                       \/ mstate'[m] = "STOPPED" /\ mstate[m] = "PREPARE_SHUTDOWN"
<1>3. TypeOK /\ TimeoutMeansEvent /\ PhaseInv /\ [Next]_vars => [A]_vars
    BY PhaseNext DEF Advances
<1>4. Spec => [][A]_vars
    BY <1>1, <1>2, <1>3, TypeCorrect, NoNullEvent, PTL DEF Spec
<1> QED
    BY <1>4 DEF StatesAdvance
=============================================================================
