----------------------------- MODULE Forwarding -----------------------------
(***************************************************************************)
(* The life of a forwarding module (ForwardingManager.cpp,                  *)
(* ForwarderAsynchronous.cpp, ForwarderProphet.cpp): created by the         *)
(* manager, given the state saved in the repository, started as a thread,   *)
(* fed with tasks, told to quit, joined, deleted, and its state saved.      *)
(*                                                                          *)
(* Three threads take part: the kernel thread (all handlers; it blocks in   *)
(* quit(), which joins), the module's thread, and the data store's.  The    *)
(* data store executes all waiting inserts before a read.  A configuration  *)
(* can take the module away or bring a new one at any time, and a shutdown  *)
(* can come as soon as the kernel is running.  After a shutdown the process *)
(* may be started again, with the repository it left.                       *)
(*                                                                          *)
(* The routing information base is the number of updates it has seen: 0 is  *)
(* the empty table, for which nothing is saved.                             *)
(***************************************************************************)
EXTENDS Naturals, Sequences

CONSTANTS
    MaxUpdates,   \* bound: contacts and routing information
    MaxConfigs,   \* bound: configurations
    MaxStarts     \* bound: starts of the process

ASSUME ForwardingConstants ==
    MaxUpdates \in Nat /\ MaxConfigs \in Nat /\ MaxStarts \in Nat \ {0}

VARIABLES
    state,       \* the manager's state
    module,      \* forwardingModule: "null", "set", or "deleted" and not reset
    thread,      \* the module's thread: "none", "running" or "over"
    eventType,   \* the event type the module was created with
    taskQ,       \* the module's task queue
    rib,         \* the module's routing information base
    interest,    \* whether the manager handles NODE_CONTACT_NEW
    kernel,      \* the kernel thread: "loop", or "join" inside quit()
    running,     \* the kernel's flag of this name
    ready,       \* readyForStartup and readyForShutdown, as a set
    others,      \* the same of all other managers
    events,      \* the kernel's event queue, the events modelled here
    shutdownCalled, \* the kernel's flag of this name
    shutdownEvent, \* whether the shutdown event is enabled; it goes first
    inserts,     \* the data store's waiting insertRepository tasks
    reads,       \* the number of its waiting readRepository tasks
    repository,  \* the saved state
    updates, configs, starts,
    learned,     \* history: updates given to a module that can save them
    raced,       \* history: state was restored beside a running thread, and
    dangled      \*   a deleted module was used, since the last start

managerVars == <<state, module, eventType, interest, ready>>
threadVars == <<thread, taskQ, rib>>
kernelVars == <<kernel, running, others, events, shutdownCalled, shutdownEvent>>
storeVars == <<inserts, reads, repository>>
counters == <<updates, configs, starts>>
history == <<learned, raced, dangled>>
vars == <<managerVars, threadVars, kernelVars, storeVars, counters, history>>

States == {"stopped", "prepare_startup", "running", "prepare_shutdown",
           "down", "gone"}

Event(type, value) == [type |-> type, value |-> value]

(* The kernel thread takes the next event only when no handler blocks it.   *)
Idle == kernel = "loop" /\ state \notin {"down", "gone"}

Dispatch(type) ==
    /\ Idle /\ ~shutdownEvent
    /\ events # <<>> /\ Head(events).type = type

-----------------------------------------------------------------------------
(* Startup.                                                                 *)

(* init_derived: the kernel has the module from the beginning.              *)
Init ==
    /\ state = "stopped"
    /\ module = "set" /\ thread = "none" /\ eventType = "module"
    /\ taskQ = <<>> /\ rib = 0 /\ interest = TRUE
    /\ kernel = "loop" /\ running = FALSE /\ ready = {} /\ others = {}
    /\ events = <<>> /\ shutdownCalled = FALSE /\ shutdownEvent = FALSE
    /\ inserts = <<>> /\ reads = 0 /\ repository = 0
    /\ updates = 0 /\ configs = 0 /\ starts = 1
    /\ learned = 0 /\ raced = FALSE /\ dangled = FALSE

(* Manager::signalIsReadyForStartup and the kernel's: the last one to be    *)
(* ready generates the event.                                               *)
signalIsReadyForStartup(queue) ==
    /\ ready' = ready \cup {"startup"}
    /\ IF "startup" \in others
       THEN running' = TRUE /\ events' = Append(queue, Event("STARTUP", 0))
       ELSE events' = queue /\ UNCHANGED running

onPrepareStartup ==
    /\ state = "stopped"
    /\ state' = "prepare_startup"
    /\ reads' = IF module = "null" THEN reads ELSE reads + 1
    /\ UNCHANGED <<module, eventType, interest, ready, threadVars, kernelVars,
                   inserts, repository, counters, history>>

(* Seeded fault: without a module the callback returns early.               *)
onRepositoryDataSilent ==
    /\ Dispatch("repository")
    /\ IF module = "set" /\ state = "prepare_startup"
       THEN signalIsReadyForStartup(Tail(events))
       ELSE events' = Tail(events) /\ UNCHANGED <<ready, running>>
    /\ thread' = IF module = "set" /\ thread = "none" THEN "running" ELSE thread
    /\ UNCHANGED <<state, module, eventType, interest, taskQ, rib, kernel,
                   others, shutdownEvent, shutdownCalled, storeVars, counters, history>>

(* The saved state is put into the module, which is started then.  start()  *)
(* does nothing when the module has a thread already.                       *)
onRepositoryData ==
    /\ Dispatch("repository")
    /\ rib' = IF module # "null" /\ Head(events).value > 0
              THEN Head(events).value ELSE rib
    /\ thread' = IF module = "set" /\ thread = "none" THEN "running" ELSE thread
    /\ raced' = (raced \/ (module = "set" /\ thread = "running"
                             /\ Head(events).value > 0))
    /\ dangled' = (dangled \/ module = "deleted")
    /\ IF state \in {"stopped", "prepare_startup"}
       THEN signalIsReadyForStartup(Tail(events))
       ELSE events' = Tail(events) /\ UNCHANGED <<ready, running>>
    /\ UNCHANGED <<state, module, eventType, interest, taskQ, kernel, others,
                   shutdownEvent, shutdownCalled, storeVars, counters, learned>>

onStartup ==
    /\ Dispatch("STARTUP")
    /\ state' = "running" /\ events' = Tail(events)
    /\ UNCHANGED <<module, eventType, interest, ready, threadVars, kernel,
                   running, others, shutdownEvent, shutdownCalled, storeVars, counters, history>>

-----------------------------------------------------------------------------
(* The running manager gives tasks to its module.                           *)

(* The queue is closed from quit() on, but then the kernel thread is in     *)
(* join().  A pointer that was not reset is used like any other.            *)
Give(tasks) ==
    /\ updates < MaxUpdates /\ updates' = updates + 1
    /\ taskQ' = IF module = "set" THEN taskQ \o tasks ELSE taskQ
    /\ learned' = IF module = "set" /\ eventType = "module"
                  THEN learned + 1 ELSE learned
    /\ dangled' = (dangled \/ module = "deleted")
    /\ UNCHANGED <<managerVars, thread, rib, kernelVars, storeVars, configs,
                   starts, raced>>

Started == state \in {"prepare_startup", "running"}

onNewNeighbor ==
    /\ Idle /\ ~shutdownEvent
    /\ interest /\ Started
    /\ Give(<<"update", "GENERATE_ROUTING_INFO">>)

onEndNeighbor ==
    /\ Idle /\ ~shutdownEvent
    /\ state # "stopped"
    /\ Give(<<"update">>)

(* The filter that routing information comes by is removed at the shutdown. *)
onRoutingInformation ==
    /\ Idle /\ ~shutdownEvent
    /\ Started
    /\ Give(<<"update">>)

(* The module's thread takes one task after the other, out of the plain     *)
(* retrieve() of GenericQueue, which can miss a wakeup: it may also sleep   *)
(* beside a task for as long as it likes.                                   *)
runUpdate ==
    /\ thread = "running" /\ taskQ # <<>> /\ Head(taskQ) = "update"
    /\ rib' = rib + 1 /\ taskQ' = Tail(taskQ)
    /\ UNCHANGED <<managerVars, thread, kernelVars, storeVars, counters,
                   history>>

(* An event of the module's type reaches the manager; one of another type   *)
(* reaches nobody.                                                          *)
ToManager(type, value) ==
    events' = IF eventType = "module" THEN Append(events, Event(type, value))
              ELSE events

runRoutingInfo ==
    /\ thread = "running" /\ taskQ # <<>>
    /\ Head(taskQ) = "GENERATE_ROUTING_INFO"
    /\ ToManager("ROUTING_INFO", 0) /\ taskQ' = Tail(taskQ)
    /\ UNCHANGED <<managerVars, thread, rib, kernel, running, others,
                   shutdownEvent, shutdownCalled, storeVars, counters, history>>

(* QUIT: the state goes to the manager in the event, and the thread ends.   *)
runQuit ==
    /\ thread = "running" /\ taskQ # <<>> /\ Head(taskQ) = "QUIT"
    /\ ToManager("QUIT", rib)
    /\ taskQ' = Tail(taskQ) /\ thread' = "over"
    /\ UNCHANGED <<managerVars, rib, kernel, running, others, shutdownEvent,
                   shutdownCalled, storeVars, counters, history>>

(* The routing information is sent (addToSendList and DATAOBJECT_SEND, see  *)
(* Contacts), or not.                                                       *)
onRoutingInfoComplete ==
    /\ Dispatch("ROUTING_INFO")
    /\ events' = Tail(events)
    /\ dangled' = (dangled \/ module = "deleted")
    /\ UNCHANGED <<managerVars, threadVars, kernel, running, others,
                   shutdownEvent, shutdownCalled, storeVars, counters, learned, raced>>

-----------------------------------------------------------------------------
(* The end of a module.                                                     *)

(* Seeded fault: quit() closes the queue before it inserts the task.        *)
quitClosed == kernel' = "join" /\ UNCHANGED taskQ

(* quit() of a running module: insert, close, join.  The rest of            *)
(* setForwardingModule(NULL) is joined.                                     *)
quit == kernel' = "join" /\ taskQ' = Append(taskQ, "QUIT")

(* A module that is gone: its queue and its table go with it.               *)
Delete == module' = "null" /\ thread' = "none" /\ taskQ' = <<>> /\ rib' = 0

(* Seeded fault: the module is deleted and its thread not waited for.       *)
joinedAtOnce ==
    /\ kernel = "join"
    /\ module' = "null" /\ taskQ' = taskQ
    /\ kernel' = "loop"
    /\ UNCHANGED <<state, eventType, interest, ready, thread, rib, running,
                   others, events, shutdownEvent, shutdownCalled, storeVars, counters, history>>

joined ==
    /\ kernel = "join" /\ thread = "over"
    /\ Delete
    /\ kernel' = "loop"
    /\ UNCHANGED <<state, eventType, interest, ready, running, others, events,
                   shutdownEvent, shutdownCalled, storeVars, counters, history>>

(* setForwardingModule(NULL)                                                *)
unsetForwardingModule ==
    /\ dangled' = (dangled \/ module = "deleted")
    /\ IF module = "set" /\ thread = "running"
       THEN quit /\ UNCHANGED <<module, thread, rib>>
       ELSE Delete /\ UNCHANGED kernel

(* setForwardingModule(new ForwarderProphet(this)): the default event type  *)
(* is none, and the state is asked for.                                     *)
setProphet ==
    /\ module' = "set" /\ thread' = "none" /\ eventType' = "invalid"
    /\ taskQ' = <<>> /\ rib' = 0 /\ interest' = TRUE
    /\ reads' = reads + 1

Configure ==
    /\ Idle /\ ~shutdownEvent /\ state # "stopped"
    /\ configs < MaxConfigs /\ configs' = configs + 1

(* protocol="noForward" and "noResolution"; with the name of the module     *)
(* that is set, and with an unknown name, nothing happens.                  *)
onConfigNone(deRegisterEvents) ==
    /\ Configure
    /\ unsetForwardingModule
    /\ interest' = (interest /\ ~deRegisterEvents)
    /\ UNCHANGED <<state, eventType, ready, running, others, events,
                   shutdownEvent, shutdownCalled, storeVars, updates, starts, learned, raced>>

(* protocol="Prophet" when no module is set: asking a deleted one for its   *)
(* name is a use of it, and the module stays.                               *)
onConfigProphet ==
    /\ Configure
    /\ module # "set"
    /\ dangled' = (dangled \/ module = "deleted")
    /\ IF module = "null"
       THEN setProphet
       ELSE UNCHANGED <<module, thread, eventType, taskQ, rib, interest, reads>>
    /\ UNCHANGED <<state, ready, kernelVars, inserts, repository, updates,
                   starts, learned, raced>>

-----------------------------------------------------------------------------
(* Shutdown.                                                                *)

(* HaggleKernel::shutdown, from another thread: an event once it runs.      *)
shutdown ==
    /\ running /\ ~shutdownCalled
    /\ shutdownCalled' = TRUE
    /\ events' = Append(events, Event("PREPARE_SHUTDOWN", 0))
    /\ UNCHANGED <<managerVars, threadVars, kernel, running, others,
                   shutdownEvent, storeVars, counters, history>>

(* Manager::signalIsReadyForShutdown and the kernel's.                      *)
signalIsReadyForShutdown ==
    /\ ready' = ready \cup {"shutdown"}
    /\ IF "shutdown" \in others
       THEN running' = FALSE /\ shutdownEvent' = TRUE
       ELSE UNCHANGED <<running, shutdownEvent>>

(* Seeded fault: the manager does not wait for the module's state.          *)
onPrepareShutdownHasty ==
    /\ Dispatch("PREPARE_SHUTDOWN")
    /\ events' = Tail(events) /\ state' = "prepare_shutdown"
    /\ unsetForwardingModule /\ signalIsReadyForShutdown
    /\ UNCHANGED <<eventType, interest, others, shutdownCalled, storeVars,
                   counters, learned, raced>>

(* A running module is told to quit, and the manager is ready when it has   *)
(* its state; another is deleted and stays set; without one the manager is  *)
(* ready.                                                                   *)
onPrepareShutdown ==
    /\ Dispatch("PREPARE_SHUTDOWN")
    /\ events' = Tail(events) /\ state' = "prepare_shutdown"
    /\ IF module = "set" /\ thread = "running"
       THEN /\ unsetForwardingModule
            /\ UNCHANGED <<ready, running, shutdownEvent>>
       ELSE /\ module' = IF module = "set" THEN "deleted" ELSE module
            /\ signalIsReadyForShutdown
            /\ UNCHANGED <<threadVars, kernel, dangled>>
    /\ UNCHANGED <<eventType, interest, others, shutdownCalled, storeVars,
                   counters, learned, raced>>

(* FWD_TASK_QUIT: the entries are saved, and only then is the manager ready.*)
onQuitComplete ==
    /\ Dispatch("QUIT")
    /\ events' = Tail(events)
    /\ inserts' = IF Head(events).value > 0
                  THEN Append(inserts, Head(events).value) ELSE inserts
    /\ IF state = "prepare_shutdown"
       THEN signalIsReadyForShutdown
       ELSE UNCHANGED <<ready, running, shutdownEvent>>
    /\ UNCHANGED <<state, module, eventType, interest, threadVars, kernel,
                   others, shutdownCalled, reads, repository, counters,
                   history>>

(* The shutdown event goes before all others, and ends the kernel's loop.   *)
onShutdown ==
    /\ Idle /\ shutdownEvent
    /\ state' = "down"
    /\ UNCHANGED <<module, eventType, interest, ready, threadVars, kernelVars,
                   storeVars, counters, history>>

(* main() deletes the manager when the data store has stopped.  A module    *)
(* that is still there is made to quit and deleted.                         *)
Destroy ==
    /\ state = "down" /\ inserts = <<>> /\ reads = 0
    /\ state' = "gone"
    /\ dangled' = (dangled \/ module = "deleted")
    /\ Delete
    /\ UNCHANGED <<eventType, interest, ready, kernelVars, storeVars, counters,
                   learned, raced>>

Restart ==
    /\ state = "gone" /\ starts < MaxStarts /\ starts' = starts + 1
    /\ state' = "stopped"
    /\ module' = "set" /\ thread' = "none" /\ eventType' = "module"
    /\ taskQ' = <<>> /\ rib' = 0 /\ interest' = TRUE
    /\ kernel' = "loop" /\ running' = FALSE /\ ready' = {} /\ others' = {}
    /\ events' = <<>> /\ shutdownCalled' = FALSE /\ shutdownEvent' = FALSE
    /\ inserts' = <<>> /\ reads' = 0
    /\ raced' = FALSE /\ dangled' = FALSE
    /\ UNCHANGED <<repository, updates, configs, learned>>

-----------------------------------------------------------------------------
(* The rest of the process.                                                 *)

(* The data store's thread: inserts go before reads.                        *)
_insertRepository ==
    /\ inserts # <<>>
    /\ repository' = Head(inserts) /\ inserts' = Tail(inserts)
    /\ UNCHANGED <<managerVars, threadVars, kernelVars, reads, counters,
                   history>>

_readRepository ==
    /\ inserts = <<>> /\ reads > 0
    /\ reads' = reads - 1
    /\ events' = Append(events, Event("repository", repository))
    /\ UNCHANGED <<managerVars, threadVars, kernel, running, others,
                   shutdownEvent, shutdownCalled, inserts, repository, counters,
                   history>>

(* All other managers are ready.                                            *)
OthersReadyForStartup ==
    /\ state = "prepare_startup" /\ "startup" \notin others
    /\ others' = others \cup {"startup"}
    /\ IF "startup" \in ready
       THEN running' = TRUE /\ events' = Append(events, Event("STARTUP", 0))
       ELSE UNCHANGED <<running, events>>
    /\ UNCHANGED <<managerVars, threadVars, kernel, shutdownEvent,
                   shutdownCalled, storeVars, counters, history>>

OthersReadyForShutdown ==
    /\ state = "prepare_shutdown" /\ "shutdown" \notin others
    /\ others' = others \cup {"shutdown"}
    /\ IF "shutdown" \in ready
       THEN running' = FALSE /\ shutdownEvent' = TRUE
       ELSE UNCHANGED <<running, shutdownEvent>>
    /\ UNCHANGED <<managerVars, threadVars, kernel, events, shutdownCalled,
                   storeVars, counters, history>>

Handle ==
    \/ onPrepareStartup \/ onRepositoryData \/ onStartup
    \/ onRoutingInfoComplete \/ onPrepareShutdown \/ onQuitComplete
    \/ onShutdown \/ joined \/ Destroy

Run == runUpdate \/ runRoutingInfo \/ runQuit

Store == _insertRepository \/ _readRepository

Environment ==
    \/ onNewNeighbor \/ onEndNeighbor \/ onRoutingInformation
    \/ \E deRegister \in BOOLEAN : onConfigNone(deRegister)
    \/ onConfigProphet \/ shutdown \/ Restart

Next ==
    \/ Handle \/ Run \/ Store \/ Environment
    \/ OthersReadyForStartup \/ OthersReadyForShutdown

(* The kernel's and the data store's threads run, and the other managers    *)
(* become ready.  Contacts, configurations, a shutdown and a restart need   *)
(* not come, and nothing makes the module's thread take its tasks: plain    *)
(* retrieve() can miss the last wakeup (GenericQueue), and close() is none. *)
Spec ==
    /\ Init /\ [][Next]_vars
    /\ WF_vars(Handle) /\ WF_vars(Store)
    /\ WF_vars(OthersReadyForStartup) /\ WF_vars(OthersReadyForShutdown)

-----------------------------------------------------------------------------
(* Properties.                                                              *)

EventTypes == {"repository", "STARTUP", "ROUTING_INFO", "PREPARE_SHUTDOWN",
               "QUIT"}

TypeOK ==
    /\ state \in States
    /\ module \in {"null", "set", "deleted"}
    /\ thread \in {"none", "running", "over"}
    /\ eventType \in {"module", "invalid"}
    /\ taskQ \in Seq({"update", "GENERATE_ROUTING_INFO", "QUIT"})
    /\ rib \in Nat /\ interest \in BOOLEAN
    /\ kernel \in {"loop", "join"} /\ running \in BOOLEAN
    /\ ready \subseteq {"startup", "shutdown"}
    /\ others \subseteq {"startup", "shutdown"}
    /\ events \in Seq([type : EventTypes, value : Nat])
    /\ shutdownEvent \in BOOLEAN /\ shutdownCalled \in BOOLEAN
    /\ inserts \in Seq(Nat) /\ reads \in Nat /\ repository \in Nat
    /\ updates \in 0..MaxUpdates /\ configs \in 0..MaxConfigs
    /\ starts \in 1..MaxStarts
    /\ learned \in Nat /\ raced \in BOOLEAN /\ dangled \in BOOLEAN

(* While the thread runs, the manager's pointer is to its module: quit()    *)
(* waits for the thread.                                                    *)
ThreadHasModule == thread = "running" => module = "set"

(* A module is used safely: it is never deleted under its thread, which     *)
(* quit() waits for; the saved state is put into it before the thread is    *)
(* started, so its table has one user at a time; and it is not used once it *)
(* was deleted, for the manager is ready for startup only when its module   *)
(* runs and a shutdown finds it running (onRepositoryData,                  *)
(* onPrepareShutdown, setForwardingModule).  The last two hold only for the *)
(* module of the start: when a configuration has replaced it, two reads may *)
(* be under way, and the shutdown may come before the answer.               *)
ModuleIsUsedSafely ==
    /\ ThreadHasModule
    /\ eventType = "module" => ~raced /\ ~dangled

(* What the module learned before the shutdown is in the repository when    *)
(* the process ends: QUIT comes after all tasks, its event carries the      *)
(* state, the manager is not ready before it has handed it to the data      *)
(* store, and the data store ends with an empty queue.  The next start      *)
(* continues from there.  This is so only as long as no configuration has   *)
(* touched the module (configs = 0): the state of one that a configuration  *)
(* takes away or brings may be lost.                                        *)
LearnedIsSaved == state = "gone" /\ configs = 0 => repository = learned

(* The module's thread missed its last wakeup, in plain retrieve(), and     *)
(* sleeps beside its tasks for good.                                        *)
SleepsForGood == <>[](thread = "running" /\ taskQ # <<>>)

(* Every start is completed, whether or not the module is still there when  *)
(* its state arrives (onRepositoryData signals in every case), unless a     *)
(* configuration makes the kernel thread join a thread that sleeps for      *)
(* good.                                                                    *)
StartupCompletes ==
    SleepsForGood \/ (state = "prepare_startup" ~> state = "running")

(* Every shutdown is completed, with the module of the start or with none:  *)
(* QUIT is the last task, its event makes the manager ready, and the join   *)
(* ends.  Two things stop a shutdown for good: a thread that sleeps beside  *)
(* its QUIT, which quit() joins and close() does not wake; and a module     *)
(* brought by a configuration, which has no event type to report with.      *)
ShutdownCompletes ==
    \/ SleepsForGood
    \/ state = "prepare_shutdown" ~> (state = "gone" \/ eventType = "invalid")

(* "Always send the callback to ensure the manager is notified that the     *)
(* module is done.": every shutdown is completed in which the module's      *)
(* thread gets to its QUIT.                                                 *)
ManagerIsNotified ==
    SleepsForGood \/ (state = "prepare_shutdown" ~> state = "gone")
=============================================================================
