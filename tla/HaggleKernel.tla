---------------------------- MODULE HaggleKernel ----------------------------
(***************************************************************************)
(* The kernel's main loop, its event queue, and the life of the managers    *)
(* (HaggleKernel.cpp, EventQueue.h, Manager.cpp).                           *)
(*                                                                          *)
(* The kernel thread takes events from a queue and calls the managers'      *)
(* handlers; other threads add events.  Startup and shutdown are barriers:  *)
(* every manager is told to prepare, signals when it is ready (at once, or  *)
(* after work that other threads do for it), and when the last one is ready *)
(* all of them are started, or shut down.  A manager leaves the registry    *)
(* when it is done, and the loop ends with the last one.                    *)
(*                                                                          *)
(* The events that are modelled have no delay, and the heap orders events   *)
(* by time: the queue is first-in first-out.                                *)
(***************************************************************************)
EXTENDS Naturals, Sequences

CONSTANTS
    Managers,
    AsyncStartup,     \* those that get ready for startup later (a data store
                      \* query, the generation of a certificate)
    AsyncShutdown,    \* those that get ready for shutdown later (data objects
                      \* to send, threads to end)
    AsyncUnregister,  \* those that unregister after onShutdown() returned
    None,             \* no manager
    MaxResults,       \* bound: results of a manager's work before shutdown
    MaxCalls          \* bound: calls of shutdown()

ASSUME KernelConstants ==
    /\ AsyncStartup \subseteq Managers
    /\ AsyncShutdown \subseteq Managers
    /\ AsyncUnregister \subseteq Managers
    /\ None \notin Managers
    /\ Managers # {}
    /\ MaxResults \in Nat \ {0}
    /\ MaxCalls \in Nat

VARIABLES
    registry,          \* the registered managers
    events,            \* the heap of the EventQueue
    shutdownEvent,     \* EventQueue::shutdownEvent
    raised,            \* EventQueue::signal
    running,           \* HaggleKernel::running
    shutdownCalled,    \* HaggleKernel::shutdownCalled
    calls,             \* history: number of shutdown() calls
    entered,           \* calls of shutdown() that have passed its test
    disorder,          \* history: two of them at a time, or one whose event
                       \* was posted before the startup event
    pc,                \* where the kernel thread is
    timeout,           \* how long it waits: "zero", or "none" (no limit)
    current,           \* the public event that is being dispatched
    left,              \* the managers it still has to be given to
    mstate,            \* Manager::state
    readyForStartup,   \* Manager::readyForStartup
    readyForShutdown,  \* Manager::readyForShutdown
    work               \* what other threads still do for a manager

queueVars == <<events, shutdownEvent, raised>>
managerVars == <<mstate, readyForStartup, readyForShutdown, work>>
callVars == <<calls, entered, disorder>>
kernelVars == <<registry, running, shutdownCalled, callVars>>
loopVars == <<pc, timeout, current, left>>
vars == <<registry, events, shutdownEvent, raised, running, shutdownCalled,
          calls, entered, disorder, pc, timeout, current, left, mstate, readyForStartup,
          readyForShutdown, work>>

Work(for, n) == [for |-> for, results |-> n]

NoWork == Work("nothing", 0)

Event(type, m, last) == [type |-> type, mgr |-> m, last |-> last]

NoEvent == Event("none", None, TRUE)

(* The state in which run() has started the data store and posted the first *)
(* event; init() of every manager has registered it.                        *)
Init ==
    /\ registry = Managers
    /\ events = <<Event("PREPARE_STARTUP", None, TRUE)>>
    /\ shutdownEvent = FALSE
    /\ raised = TRUE
    /\ running = FALSE
    /\ shutdownCalled = FALSE
    /\ calls = 0 /\ entered = 0 /\ disorder = FALSE
    /\ pc = "loop"
    /\ timeout = "none"
    /\ current = NoEvent
    /\ left = {}
    /\ mstate = [m \in Managers |-> "STOPPED"]
    /\ readyForStartup = [m \in Managers |-> FALSE]
    /\ readyForShutdown = [m \in Managers |-> FALSE]
    /\ work = [m \in Managers |-> NoWork]

-----------------------------------------------------------------------------
(* Seeded fault: the signal is not raised.                                  *)
addEventQuietly(e) == events' = Append(events, e) /\ UNCHANGED raised

(***************************************************************************)
(* The event queue                                                          *)
(***************************************************************************)
addEvent(e) == events' = Append(events, e) /\ raised' = TRUE

enableShutdownEvent == shutdownEvent' = TRUE /\ raised' = TRUE

(* Seeded fault: an empty queue is treated like a due event.                *)
getNextEventTimeAlwaysDue ==
    /\ raised' = FALSE
    /\ timeout' = "zero"

(* The signal is lowered and the queue inspected under one lock, which is   *)
(* also the lock of addEvent.                                               *)
getNextEventTime ==
    /\ raised' = FALSE
    /\ timeout' = IF shutdownEvent \/ events # <<>> THEN "zero" ELSE "none"

-----------------------------------------------------------------------------
(***************************************************************************)
(* The main loop                                                            *)
(***************************************************************************)
LoopBegin ==
    /\ pc = "loop"
    /\ registry # {}
    /\ pc' = "wait"
    /\ getNextEventTime
    /\ UNCHANGED <<events, shutdownEvent, current, left, kernelVars,
                   managerVars>>

(* The loop ends when no manager is registered.                             *)
LoopEnd ==
    /\ pc = "loop"
    /\ registry = {}
    /\ pc' = "exited"
    /\ UNCHANGED <<timeout, current, left, queueVars, kernelVars, managerVars>>

(* Watch::wait returns because the signal is raised, a socket is readable   *)
(* or select failed: no event is processed in this round.                   *)
WaitInterrupted ==
    /\ pc = "wait"
    /\ pc' = "loop"
    /\ UNCHANGED <<timeout, current, left, queueVars, kernelVars, managerVars>>

(* Watch::wait times out: getNextEvent.  The shutdown event goes before     *)
(* everything in the heap.  A public event is given to the managers that    *)
(* are registered now.                                                      *)
WaitTimeout ==
    /\ pc = "wait"
    /\ timeout = "zero"
    /\ ~raised
    /\ pc' = "dispatch"
    /\ IF shutdownEvent
       THEN /\ shutdownEvent' = FALSE
            /\ raised' = FALSE
            /\ current' = Event("SHUTDOWN", None, TRUE)
            /\ left' = registry
            /\ UNCHANGED events
       ELSE /\ current' = Head(events)
            /\ left' = IF Head(events).mgr = None THEN registry
                       ELSE {Head(events).mgr}
            /\ events' = Tail(events)
            /\ UNCHANGED <<shutdownEvent, raised>>
    /\ UNCHANGED <<timeout, kernelVars, managerVars>>

(* Seeded fault: the event is not forgotten.                                *)
DispatchEndKeeps ==
    /\ pc = "dispatch"
    /\ left = {}
    /\ pc' = "loop"
    /\ UNCHANGED <<timeout, current, left, queueVars, kernelVars, managerVars>>

(* Every manager has had the event.                                         *)
DispatchEnd ==
    /\ pc = "dispatch"
    /\ left = {}
    /\ pc' = "loop"
    /\ current' = NoEvent
    /\ UNCHANGED <<timeout, left, queueVars, kernelVars, managerVars>>

(* One manager's turn in the dispatch of an event of the given type.  The   *)
(* registry is ordered by address: any order.                               *)
Turn(m, type) ==
    /\ pc = "dispatch"
    /\ m \in left
    /\ current.type = type
    /\ left' = left \ {m}
    /\ UNCHANGED <<timeout, current>>

-----------------------------------------------------------------------------
(***************************************************************************)
(* Startup                                                                  *)
(***************************************************************************)

(* Seeded fault: only the signalling manager is asked.                      *)
signalIsReadyForStartupAlone(m) ==
    /\ readyForStartup' = [readyForStartup EXCEPT ![m] = TRUE]
    /\ running' = TRUE
    /\ pc' = "postStartup"

(* signalIsReadyForStartup of the manager and of the kernel: the last one   *)
(* sets running, and then posts the startup event (PostStartup).            *)
signalIsReadyForStartup(m) ==
    /\ readyForStartup' = [readyForStartup EXCEPT ![m] = TRUE]
    /\ IF \A n \in registry : readyForStartup'[n]
       THEN running' = TRUE /\ pc' = "postStartup"
       ELSE UNCHANGED <<running, pc>>

PostStartup ==
    /\ pc = "postStartup"
    /\ pc' = "dispatch"
    /\ addEvent(Event("STARTUP", None, TRUE))
    /\ UNCHANGED <<shutdownEvent, timeout, current, left, kernelVars,
                   managerVars>>

_onPrepareStartup(m) ==
    /\ Turn(m, "PREPARE_STARTUP")
    /\ mstate' = [mstate EXCEPT ![m] = "PREPARE_STARTUP"]
    /\ \/ /\ m \notin AsyncStartup
          /\ signalIsReadyForStartup(m)
          /\ UNCHANGED work
       \/ /\ m \in AsyncStartup
          /\ work' = [work EXCEPT ![m] = Work("startup", 1)]
          /\ UNCHANGED <<readyForStartup, running, pc>>
    /\ UNCHANGED <<registry, shutdownCalled, callVars, readyForShutdown,
                   queueVars>>

(* Seeded fault: the manager does not signal that it is ready.              *)
onStartupResultSilent(m) ==
    /\ Turn(m, "STARTUP_RESULT")
    /\ UNCHANGED <<pc, readyForStartup, kernelVars, mstate, readyForShutdown,
                   work, queueVars>>

(* The result of the work before startup reaches the manager.               *)
onStartupResult(m) ==
    /\ Turn(m, "STARTUP_RESULT")
    /\ signalIsReadyForStartup(m)
    /\ UNCHANGED <<registry, shutdownCalled, callVars, mstate, readyForShutdown,
                   work, queueVars>>

(* onStartup() runs in state STARTUP, and the manager is RUNNING after it.  *)
_onStartup(m) ==
    /\ Turn(m, "STARTUP")
    /\ mstate' = [mstate EXCEPT ![m] = "RUNNING"]
    /\ UNCHANGED <<pc, readyForStartup, readyForShutdown, work, kernelVars,
                   queueVars>>

-----------------------------------------------------------------------------
(***************************************************************************)
(* Shutdown                                                                 *)
(***************************************************************************)

(* Seeded fault: an earlier call is forgotten.                              *)
shutdownAgain ==
    /\ calls < MaxCalls
    /\ pc # "exited"
    /\ calls' = calls + 1
    /\ IF running
       THEN entered' = entered + 1 /\ disorder' = (disorder \/ entered > 0)
       ELSE UNCHANGED <<entered, disorder>>
    /\ UNCHANGED <<registry, running, shutdownCalled, queueVars, loopVars,
                   managerVars>>

(* HaggleKernel::shutdown: a call before the kernel is running, or after    *)
(* another call, does nothing.  It comes from a signal handler, from other  *)
(* threads (the resource monitor, Java) and from handlers of the kernel     *)
(* thread, at any time and without a lock.                                  *)
shutdown ==
    /\ calls < MaxCalls
    /\ pc # "exited"
    /\ calls' = calls + 1
    /\ IF running /\ ~shutdownCalled
       THEN entered' = entered + 1 /\ disorder' = (disorder \/ entered > 0)
       ELSE UNCHANGED <<entered, disorder>>
    /\ UNCHANGED <<registry, running, shutdownCalled, queueVars, loopVars,
                   managerVars>>

(* The rest of a call that passed the test.                                 *)
PostShutdown ==
    /\ entered > 0
    /\ pc # "exited"
    /\ entered' = entered - 1
    /\ shutdownCalled' = TRUE
    /\ addEvent(Event("PREPARE_SHUTDOWN", None, TRUE))
    /\ disorder' = (disorder \/ pc = "postStartup")
    /\ UNCHANGED <<registry, running, calls, shutdownEvent, loopVars,
                   managerVars>>

(* Seeded fault: only the signalling manager is asked.                      *)
signalIsReadyForShutdownAlone(m) ==
    /\ readyForShutdown' = [readyForShutdown EXCEPT ![m] = TRUE]
    /\ running' = FALSE
    /\ enableShutdownEvent

(* signalIsReadyForShutdown of the manager and of the kernel.               *)
signalIsReadyForShutdown(m) ==
    /\ readyForShutdown' = [readyForShutdown EXCEPT ![m] = TRUE]
    /\ IF \A n \in registry : readyForShutdown'[n]
       THEN running' = FALSE /\ enableShutdownEvent
       ELSE UNCHANGED <<running, shutdownEvent, raised>>

_onPrepareShutdown(m) ==
    /\ Turn(m, "PREPARE_SHUTDOWN")
    /\ mstate' = [mstate EXCEPT ![m] = "PREPARE_SHUTDOWN"]
    /\ \/ signalIsReadyForShutdown(m) /\ UNCHANGED work
       \/ /\ m \in AsyncShutdown
          /\ \E n \in 1..MaxResults :
                 work' = [work EXCEPT ![m] = Work("shutdown", n)]
          /\ UNCHANGED <<readyForShutdown, running, shutdownEvent, raised>>
    /\ UNCHANGED <<pc, registry, events, shutdownCalled, callVars,
                   readyForStartup>>

(* A result of the work before shutdown reaches the manager, which looks at *)
(* its state first.  It is ready after the last result or, if it waits for  *)
(* some of the results only (ApplicationManager::onSendResult), earlier;    *)
(* it then signals again at each later result.                              *)
onShutdownResult(m) ==
    /\ Turn(m, "SHUTDOWN_RESULT")
    /\ \/ /\ mstate[m] = "PREPARE_SHUTDOWN"
          /\ signalIsReadyForShutdown(m)
       \/ /\ mstate[m] # "PREPARE_SHUTDOWN" \/ ~current.last
          /\ UNCHANGED <<readyForShutdown, running, shutdownEvent, raised>>
    /\ UNCHANGED <<pc, registry, events, shutdownCalled, callVars, mstate,
                   readyForStartup, work>>

(* Seeded fault: the manager stays in the registry.                         *)
unregisterWithNobody(m) ==
    /\ mstate' = [mstate EXCEPT ![m] = "STOPPED"]
    /\ UNCHANGED registry

unregisterWithKernel(m) ==
    /\ mstate' = [mstate EXCEPT ![m] = "STOPPED"]
    /\ registry' = registry \ {m}

_onShutdown(m) ==
    /\ Turn(m, "SHUTDOWN")
    /\ \/ unregisterWithKernel(m) /\ UNCHANGED work
       \/ /\ m \in AsyncUnregister
          /\ mstate' = [mstate EXCEPT ![m] = "SHUTDOWN"]
          /\ work' = [work EXCEPT ![m] = Work("unregister", 1)]
          /\ UNCHANGED registry
    /\ UNCHANGED <<pc, running, shutdownCalled, callVars, readyForStartup,
                   readyForShutdown, queueVars>>

(* The last thing a manager waited for after onShutdown() has happened.     *)
onUnregisterResult(m) ==
    /\ Turn(m, "UNREGISTER_RESULT")
    /\ unregisterWithKernel(m)
    /\ UNCHANGED <<pc, running, shutdownCalled, callVars, readyForStartup,
                   readyForShutdown, work, queueVars>>

-----------------------------------------------------------------------------
(***************************************************************************)
(* The other threads: the data store, protocols, connectivities, helpers.   *)
(* Each result reaches the manager as an event.                             *)
(***************************************************************************)
ResultType == [startup    |-> "STARTUP_RESULT",
               shutdown   |-> "SHUTDOWN_RESULT",
               unregister |-> "UNREGISTER_RESULT"]

PostResult(m) ==
    /\ work[m].results > 0
    /\ LET last == work[m].results = 1 IN
        /\ addEvent(Event(ResultType[work[m].for], m, last))
        /\ work' = [work EXCEPT ![m] =
                       IF last THEN NoWork ELSE Work(@.for, @.results - 1)]
    /\ UNCHANGED <<shutdownEvent, mstate, readyForStartup, readyForShutdown,
                   loopVars, kernelVars>>

-----------------------------------------------------------------------------
Dispatch ==
    \/ DispatchEnd
    \/ PostStartup
    \/ \E m \in Managers :
        \/ _onPrepareStartup(m)
        \/ onStartupResult(m)
        \/ _onStartup(m)
        \/ _onPrepareShutdown(m)
        \/ onShutdownResult(m)
        \/ _onShutdown(m)
        \/ onUnregisterResult(m)

Next ==
    \/ LoopBegin
    \/ LoopEnd
    \/ WaitInterrupted
    \/ WaitTimeout
    \/ Dispatch
    \/ shutdown
    \/ PostShutdown
    \/ \E m \in Managers : PostResult(m)

Spec == Init /\ [][Next]_vars

(* The kernel thread is scheduled, and the work that was handed to other    *)
(* threads gets done.  The wait is interrupted whenever the signal is       *)
(* raised, and a socket is not readable in every round, so a timeout that   *)
(* is possible again and again happens.                                     *)
FairSpec ==
    /\ Spec
    /\ WF_vars(LoopBegin \/ LoopEnd \/ Dispatch)
    /\ WF_vars(WaitInterrupted /\ raised)
    /\ SF_vars(WaitTimeout)
    /\ \A m \in Managers : WF_vars(PostResult(m))

-----------------------------------------------------------------------------
PublicTypes == {"PREPARE_STARTUP", "STARTUP", "PREPARE_SHUTDOWN"}
ResultTypes == {"STARTUP_RESULT", "SHUTDOWN_RESULT", "UNREGISTER_RESULT"}

States == {"STOPPED", "PREPARE_STARTUP", "RUNNING", "PREPARE_SHUTDOWN",
           "SHUTDOWN"}

QueuedEvents ==
    [type : PublicTypes, mgr : {None}, last : {TRUE}]
    \cup [type : ResultTypes, mgr : Managers, last : BOOLEAN]

Works ==
    {NoWork} \cup [for : {"startup", "shutdown", "unregister"},
                   results : 1..MaxResults]

TypeOK ==
    /\ registry \subseteq Managers
    /\ events \in Seq(QueuedEvents)
    /\ shutdownEvent \in BOOLEAN
    /\ raised \in BOOLEAN
    /\ running \in BOOLEAN
    /\ shutdownCalled \in BOOLEAN
    /\ calls \in 0..MaxCalls
    /\ entered \in 0..calls
    /\ disorder \in BOOLEAN
    /\ pc \in {"loop", "wait", "dispatch", "postStartup", "exited"}
    /\ timeout \in {"zero", "none"}
    /\ current \in QueuedEvents \cup {NoEvent, Event("SHUTDOWN", None, TRUE)}
    /\ left \subseteq Managers
    /\ mstate \in [Managers -> States]
    /\ readyForStartup \in [Managers -> BOOLEAN]
    /\ readyForShutdown \in [Managers -> BOOLEAN]
    /\ work \in [Managers -> Works]
    /\ current # NoEvent <=> pc \in {"dispatch", "postStartup"}

-----------------------------------------------------------------------------
(* The kernel thread does not wait without limit while there is an event:   *)
(* the signal of an event that was added after the queue was inspected is   *)
(* still raised.                                                            *)
NeverSleepsBesideEvent ==
    pc = "wait" /\ timeout = "none" /\ ~raised =>
        events = <<>> /\ ~shutdownEvent

(* The kernel thread does not time out for an event that is not there:      *)
(* getNextEvent would use the NULL that an empty heap returns.              *)
TimeoutMeansEvent ==
    pc = "wait" /\ timeout = "zero" => events # <<>> \/ shutdownEvent

(* onStartup() is called "when all managers have signaled that they are     *)
(* prepared for startup" (Manager.h:83).                                    *)
StartupBarrier ==
    (\E m \in Managers : mstate[m] = "RUNNING")
        => \A n \in Managers : readyForStartup[n]

(* onShutdown() is called "when all managers have signaled that they are    *)
(* prepared for shutdown" (Manager.h:100): until then every manager stays   *)
(* registered and runs its essential services.                              *)
ShutdownBarrier ==
    registry # Managers \/ (\E m \in Managers : mstate[m] = "SHUTDOWN")
        => \A n \in Managers : readyForShutdown[n]

(* The order of the states; a manager starts and ends STOPPED.              *)
Rank == [STOPPED |-> 5, PREPARE_STARTUP |-> 1, RUNNING |-> 2,
         PREPARE_SHUTDOWN |-> 3, SHUTDOWN |-> 4]

(* A manager goes through its states one after the other and never back: a  *)
(* second signal of readiness or a later call of shutdown() starts nobody   *)
(* again, and no manager that is being shut down is asked to prepare for    *)
(* it.  This is so unless two calls of shutdown() pass its test together or *)
(* one gets between the last signal of readiness and the startup event.     *)
StatesAdvance ==
    [][\A m \in Managers :
          ~disorder' /\ mstate[m] # "STOPPED" /\ mstate'[m] # mstate[m]
              => \/ Rank[mstate'[m]] = Rank[mstate[m]] + 1
                 \/ mstate'[m] = "STOPPED" /\ mstate[m] = "PREPARE_SHUTDOWN"
      ]_vars

(* When all managers have signalled that they are ready, the kernel starts  *)
(* up: every manager gets to run, with the same exception.                  *)
StartupCompletes ==
    <>(disorder \/ \A m \in Managers : mstate[m] = "RUNNING")

(* A shutdown that was initiated runs to its end: "When all managers have   *)
(* unregistered, the kernel will itself exit" (HaggleKernel.h:156).         *)
ShutdownCompletes == shutdownCalled ~> (pc = "exited")

(* It does when the calls of shutdown() came one at a time and not before   *)
(* the startup event.                                                       *)
OrderlyShutdownCompletes == shutdownCalled ~> (pc = "exited" \/ disorder)
=============================================================================
