--------------------------- MODULE ProtocolManager ---------------------------
(***************************************************************************)
(* The protocol manager and the life of its protocols (ProtocolManager.cpp, *)
(* Protocol.cpp, Thread.cpp).                                               *)
(*                                                                          *)
(* The kernel thread runs one event handler at a time.  A handler that      *)
(* calls into a protocol whose own thread is running is split where that    *)
(* thread can come in between: "todo" holds the calls the current handler   *)
(* still has to make, and the next event is taken when it is empty.         *)
(* Every sender and receiver protocol has a thread of its own, a send queue *)
(* (GenericQueue) and the flags the two threads share.  A server protocol   *)
(* has no thread; the kernel thread accepts its clients.                    *)
(*                                                                          *)
(* A send request asks for one data object to be sent to one neighbour; its *)
(* outcome is an EVENT_TYPE_DATAOBJECT_SEND_SUCCESSFUL or _FAILURE event,   *)
(* the verdict.  Using or freeing memory the wrong way is recorded in "bad" *)
(* and ends the behaviour, for nothing can be said of the program after it. *)
(***************************************************************************)
EXTENDS Naturals, Sequences, FiniteSets, SequencesExt

CONSTANTS
    Senders, Receivers, Servers,   \* the protocol objects that can be created
    Peers,                         \* neighbours, each with one interface
    DObjs,                         \* data objects
    None,                          \* no peer, no data object
    MaxRequests,                   \* bound: send requests
    MaxDowns,                      \* bound: interface-down events
    MaxMixed,                      \* bound: send requests beside an accepted client
    PROT_CONNECTION_ATTEMPTS,      \* connect attempts before giving up
    MaxErrors,                     \* errors in a row that are tolerated
    MayShutDown                    \* whether Haggle is shut down

Clients == Senders \cup Receivers
Protocols == Clients \cup Servers

ASSUME ProtocolConstants ==
    /\ Senders \cap Receivers = {} /\ Clients \cap Servers = {}
    /\ None \notin Peers /\ None \notin DObjs
    /\ MaxRequests \in Nat /\ MaxDowns \in Nat
    /\ MaxMixed \in 0..MaxRequests
    /\ PROT_CONNECTION_ATTEMPTS \in Nat \ {0} /\ MaxErrors \in Nat
    /\ MayShutDown \in BOOLEAN

VARIABLES
    state,       \* Manager::state of the protocol manager
    registry,    \* protocol_registry
    events,      \* the manager's events in the kernel's event queue
    todo,        \* what the running handler still has to do
    killer,      \* the ProtocolKiller thread
    obj,         \* the Protocol objects
    thr,         \* their threads
    requested,   \* history: send requests per data object
    verdict,     \* history: verdicts per data object
    downs,       \* number of interface-down events
    bad          \* memory errors

vars == <<state, registry, events, todo, killer, obj, thr, requested, verdict,
          downs, bad>>

kernelVars == <<state, registry, events, todo, killer>>
historyVars == <<requested, verdict, downs, bad>>

NoObject == [life |-> "none", mode |-> "IDLE", isRegistered |-> FALSE,
             q |-> <<>>, closed |-> FALSE, peer |-> None, unregistered |-> 0]

NoThread == [pc |-> "none", state |-> "STOPPED", exitSignal |-> FALSE,
             detached |-> FALSE, connected |-> FALSE, cur |-> None,
             numerr |-> 0, tries |-> 0]

Init ==
    /\ state = "RUNNING"
    /\ registry = {}
    /\ events = <<>>
    /\ todo = <<>>
    /\ killer = "none"
    /\ obj = [p \in Protocols |-> NoObject]
    /\ thr = [p \in Protocols |-> NoThread]
    /\ requested = [d \in DObjs |-> 0]
    /\ verdict = [d \in DObjs |-> 0]
    /\ downs = 0
    /\ bad = {}

-----------------------------------------------------------------------------
(***************************************************************************)
(* Events and calls                                                         *)
(***************************************************************************)
Event(type, p, d, t) == [type |-> type, prot |-> p, dObj |-> d, peer |-> t]
Call(op, p, d) == [op |-> op, prot |-> p, dObj |-> d]

addEvent(e) == events' = Append(events, e)

(* The kernel thread is between two handlers.                               *)
KernelIdle == todo = <<>> /\ bad = {}

Deliver(type) ==
    /\ KernelIdle
    /\ events # <<>>
    /\ Head(events).type = type

NextCall(op) ==
    /\ todo # <<>> /\ bad = {}
    /\ Head(todo).op = op

Verdict(d) == verdict' = [verdict EXCEPT ![d] = @ + 1]

Occurrences(d, s) == Cardinality({i \in 1..Len(s) : s[i] = d})

(* One call per protocol of a set, in some order.                           *)
Calls(op, S) ==
    LET order == SetToSeq(S)
    IN  [i \in 1..Cardinality(S) |-> Call(op, order[i], None)]

(* Nothing is left of the thread, or it never existed.                      *)
ThreadGone(p) == thr[p].pc \in {"none", "exited"}

isRunning(p) == thr[p].state = "RUNNING"

(* unregisterWithKernel leaves the manager in state STOPPED.  It no longer  *)
(* gets public events and sockets; its private events are still delivered.  *)
Registered == state # "STOPPED"

(* getState() > MANAGER_STATE_RUNNING, the test of registerProtocol: the    *)
(* states are ordered and STOPPED is the lowest.                            *)
RefusesProtocols == state \in {"PREPARE_SHUTDOWN", "SHUTDOWN"}

(* A client was accepted: then at most MaxMixed send requests are made.     *)
Accepted == \E p \in Receivers : obj[p].life # "none"

-----------------------------------------------------------------------------
(***************************************************************************)
(* Send requests                                                            *)
(***************************************************************************)

(* Another manager raises EVENT_TYPE_DATAOBJECT_SEND.                       *)
RequestSend(d, t) ==
    /\ bad = {}
    /\ requested[d] < IF Accepted THEN MaxMixed ELSE MaxRequests
    /\ requested' = [requested EXCEPT ![d] = @ + 1]
    /\ addEvent(Event("SEND", None, d, t))
    /\ UNCHANGED <<state, registry, todo, killer, obj, thr, verdict, downs,
                   bad>>

(* The request is put at the end of the event queue once more, so that      *)
(* other managers can still change the data object.                         *)
onSendDataObject ==
    /\ Deliver("SEND")
    /\ Registered
    /\ events' = Append(Tail(events),
                        [Head(events) EXCEPT !.type = "SEND_ACTUAL"])
    /\ UNCHANGED <<state, registry, todo, killer, obj, thr, historyVars>>

(* A public event that no registered manager is interested in.              *)
sendUnheard ==
    /\ Deliver("SEND")
    /\ ~Registered
    /\ events' = Tail(events)
    /\ UNCHANGED <<state, registry, todo, killer, obj, thr, historyVars>>

(* The sender protocols getSenderProtocol can find for a neighbour.         *)
Usable(t) ==
    {p \in registry \cap Senders :
        obj[p].peer = t /\ obj[p].mode \notin {"DONE", "GARBAGE"}}

(* A protocol that can still be used is found in the registry ...           *)
SendFound ==
    /\ Deliver("SEND_ACTUAL")
    /\ LET e == Head(events) IN
        \E p \in Usable(e.peer) :
            todo' = <<Call("sendDataObject", p, e.dObj)>>
    /\ events' = Tail(events)
    /\ UNCHANGED <<state, registry, killer, obj, thr, historyVars>>

(* ... or a new one is created, initialised and registered ...              *)
SendCreate ==
    /\ Deliver("SEND_ACTUAL")
    /\ ~RefusesProtocols
    /\ LET e == Head(events) IN
        /\ Usable(e.peer) = {}
        /\ \E p \in Senders :
            /\ obj[p].life = "none"
            /\ obj' = [obj EXCEPT ![p] =
                          [NoObject EXCEPT !.life = "live", !.peer = e.peer,
                                           !.isRegistered = TRUE]]
            /\ registry' = registry \cup {p}
            /\ todo' = <<Call("sendDataObject", p, e.dObj)>>
    /\ events' = Tail(events)
    /\ UNCHANGED <<state, killer, thr, historyVars>>

(* ... or the neighbour has no interface that is up, there is no local      *)
(* interface for it, the new protocol cannot be initialised, or it is       *)
(* refused (and deleted) because the manager is shutting down.              *)
SendImpossible ==
    /\ Deliver("SEND_ACTUAL")
    /\ Verdict(Head(events).dObj)
    /\ events' = Tail(events)
    /\ UNCHANGED <<state, registry, todo, killer, obj, thr, requested, downs,
                   bad>>

(* Protocol::sendDataObject, up to the test of the protocol's mode.         *)
sendDataObject ==
    /\ NextCall("sendDataObject")
    /\ LET p == Head(todo).prot
           d == Head(todo).dObj
       IN  IF obj[p].mode \in {"DONE", "GARBAGE"}
           THEN /\ Verdict(d)
                /\ todo' = Tail(todo)
           ELSE /\ todo' = <<Call("insert", p, d)>> \o Tail(todo)
                /\ UNCHANGED verdict
    /\ UNCHANGED <<state, registry, events, killer, obj, thr, requested,
                   downs, bad>>

(* The unique insert compares QueueElement pointers, and the element was    *)
(* just allocated: it is never found in the queue.                          *)
AlreadyQueued(p, d) == FALSE

(* startTxRx creates the thread if the protocol never had one.              *)
startTxRx(p) ==
    thr' = IF thr[p].pc = "none"
           THEN [thr EXCEPT ![p].pc = "begin", ![p].state = "RUNNING"]
           ELSE thr

(* Seeded fault: a refused insert is not reported.                          *)
insertAndStartSilent ==
    /\ NextCall("insert")
    /\ LET p == Head(todo).prot
           d == Head(todo).dObj
       IN  IF obj[p].closed
           THEN UNCHANGED <<obj, thr>>
           ELSE obj' = [obj EXCEPT ![p].q = Append(@, d)] /\ startTxRx(p)
    /\ todo' = Tail(todo)
    /\ UNCHANGED <<state, registry, events, killer, historyVars>>

(* The rest of sendDataObject: q->insert(qe, true) and startTxRx.           *)
insertAndStart ==
    /\ NextCall("insert")
    /\ LET p == Head(todo).prot
           d == Head(todo).dObj
       IN  IF obj[p].closed \/ AlreadyQueued(p, d)
           THEN Verdict(d) /\ UNCHANGED <<obj, thr>>
           ELSE /\ obj' = [obj EXCEPT ![p].q = Append(@, d)]
                /\ startTxRx(p)
                /\ UNCHANGED verdict
    /\ todo' = Tail(todo)
    /\ UNCHANGED <<state, registry, events, killer, requested, downs, bad>>

-----------------------------------------------------------------------------
(***************************************************************************)
(* Registration and removal                                                 *)
(***************************************************************************)

(* A server accepts a client: a receiver protocol is created, announces     *)
(* itself with an event and starts its thread.                              *)
acceptClient ==
    /\ KernelIdle
    /\ Registered
    /\ \E s \in registry \cap Servers : obj[s].mode = "LISTENING"
    /\ \A d \in DObjs : requested[d] <= MaxMixed
    /\ \E p \in Receivers, t \in Peers :
        /\ obj[p].life = "none"
        /\ obj' = [obj EXCEPT ![p] =
                      [NoObject EXCEPT !.life = "live", !.peer = t,
                                       !.isRegistered = TRUE]]
        /\ thr' = [thr EXCEPT ![p].pc = "begin", ![p].state = "RUNNING",
                              ![p].connected = TRUE]
        /\ addEvent(Event("ADD", p, None, None))
    /\ UNCHANGED <<state, registry, todo, killer, historyVars>>

(* A local interface comes up: getServerProtocol creates the server unless  *)
(* there is one, whatever its mode.                                         *)
onLocalInterfaceUp ==
    /\ KernelIdle
    /\ state = "RUNNING"
    /\ registry \cap Servers = {}
    /\ \E s \in Servers :
        /\ obj[s].life = "none"
        /\ obj' = [obj EXCEPT ![s] =
                      [NoObject EXCEPT !.life = "live", !.mode = "LISTENING",
                                       !.isRegistered = TRUE]]
        /\ registry' = registry \cup {s}
    /\ UNCHANGED <<state, events, todo, killer, thr, historyVars>>

(* registerProtocol: a manager that is shutting down stops the protocol     *)
(* instead.                                                                 *)
onAddProtocolEvent ==
    /\ Deliver("ADD")
    /\ LET p == Head(events).prot IN
        IF RefusesProtocols
        THEN /\ todo' = <<Call("shutdown", p, None), Call("join", p, None)>>
             /\ UNCHANGED <<registry, obj>>
        ELSE /\ registry' = registry \cup {p}
             /\ obj' = [obj EXCEPT ![p].isRegistered = TRUE]
             /\ UNCHANGED todo
    /\ events' = Tail(events)
    /\ UNCHANGED <<state, killer, thr, historyVars>>

(* Seeded fault: the protocol stays in the registry.                        *)
onDeleteProtocolEventKeeps ==
    /\ Deliver("DELETE")
    /\ LET p == Head(events).prot IN
        IF obj[p].life = "deleted"
        THEN bad' = bad \cup {"used after delete"} /\ UNCHANGED todo
        ELSE /\ todo' = <<Call("join", p, None), Call("delete", p, None),
                         Call("checkShutdown", p, None)>>
             /\ UNCHANGED bad
    /\ events' = Tail(events)
    /\ UNCHANGED <<state, registry, killer, obj, thr, requested, verdict,
                   downs>>

(* The handler reads the protocol's id before anything else.                *)
onDeleteProtocolEvent ==
    /\ Deliver("DELETE")
    /\ LET p == Head(events).prot IN
        IF obj[p].life = "deleted"
        THEN /\ bad' = bad \cup {"used after delete"}
             /\ UNCHANGED <<registry, todo>>
        ELSE /\ registry' = registry \ {p}
             /\ todo' = IF p \in registry
                        THEN <<Call("join", p, None), Call("delete", p, None),
                               Call("checkShutdown", p, None)>>
                        ELSE todo
             /\ UNCHANGED bad
    /\ events' = Tail(events)
    /\ UNCHANGED <<state, killer, obj, thr, requested, verdict, downs>>

(* Seeded fault: the join does not wait for the thread.                     *)
joinAtOnce ==
    /\ NextCall("join")
    /\ todo' = Tail(todo)
    /\ UNCHANGED <<state, registry, events, killer, obj, thr, historyVars>>

(* Thread::join blocks the kernel thread until the protocol's thread ended. *)
join ==
    /\ NextCall("join")
    /\ LET p == Head(todo).prot IN
        /\ ThreadGone(p)
        /\ thr' = IF thr[p].pc = "none" THEN thr
                  ELSE [thr EXCEPT ![p].state = "JOINED"]
    /\ todo' = Tail(todo)
    /\ UNCHANGED <<state, registry, events, killer, obj, historyVars>>

(* Protocol::closeAndClearQueue: every data object that is still queued     *)
(* gets a FAILURE verdict.                                                  *)
closeAndClearQueue(p, life) ==
    /\ verdict' = [d \in DObjs |-> verdict[d] + Occurrences(d, obj[p].q)]
    /\ obj' = [obj EXCEPT ![p].closed = TRUE, ![p].q = <<>>, ![p].life = life]

(* ~Protocol and the destructors of its bases: the queue and the Thread     *)
(* object go with the protocol.                                             *)
destroy(p) ==
    /\ closeAndClearQueue(p, "deleted")
    /\ bad' = IF ThreadGone(p) THEN bad
              ELSE bad \cup {"deleted under a live thread"}

deleteProtocol ==
    /\ NextCall("delete")
    /\ destroy(Head(todo).prot)
    /\ todo' = Tail(todo)
    /\ UNCHANGED <<state, registry, events, killer, thr, requested, downs>>

(* Seeded fault: the last protocol does not end the shutdown.               *)
checkShutdownNever ==
    /\ NextCall("checkShutdown")
    /\ todo' = Tail(todo)
    /\ UNCHANGED <<state, registry, events, killer, obj, thr, historyVars>>

(* The end of onDeleteProtocolEvent: the last protocol of a manager that    *)
(* shuts down takes the manager with it (unregisterWithKernel).             *)
checkShutdown ==
    /\ NextCall("checkShutdown")
    /\ state' = IF state = "SHUTDOWN" /\ registry = {}
                THEN "STOPPED" ELSE state
    /\ todo' = Tail(todo)
    /\ UNCHANGED <<registry, events, killer, obj, thr, historyVars>>

-----------------------------------------------------------------------------
(***************************************************************************)
(* Protocol::shutdown, called by the kernel thread                          *)
(***************************************************************************)
shutdown ==
    /\ NextCall("shutdown")
    /\ LET p == Head(todo).prot IN
        /\ obj' = [obj EXCEPT ![p].mode = "DONE"]
        /\ todo' = <<Call(IF isRunning(p) THEN "cancel" ELSE "testRegistered",
                          p, None)>> \o Tail(todo)
    /\ UNCHANGED <<state, registry, events, killer, thr, historyVars>>

(* Seeded fault: cancel only marks the thread.                              *)
cancelUnheard ==
    /\ NextCall("cancel")
    /\ thr' = [thr EXCEPT ![Head(todo).prot].state = "CANCELLED"]
    /\ todo' = Tail(todo)
    /\ UNCHANGED <<state, registry, events, killer, obj, historyVars>>

(* Thread::cancel                                                           *)
cancel ==
    /\ NextCall("cancel")
    /\ LET p == Head(todo).prot IN
        thr' = IF isRunning(p)
               THEN [thr EXCEPT ![p].state = "CANCELLED",
                                ![p].exitSignal = TRUE]
               ELSE thr
    /\ todo' = Tail(todo)
    /\ UNCHANGED <<state, registry, events, killer, obj, historyVars>>

testRegistered ==
    /\ NextCall("testRegistered")
    /\ LET p == Head(todo).prot IN
        todo' = IF obj[p].isRegistered
                THEN <<Call("unregister", p, None)>> \o Tail(todo)
                ELSE Tail(todo)
    /\ UNCHANGED <<state, registry, events, killer, obj, thr, historyVars>>

(* unregisterWithManager after its test of isRegistered.                    *)
unregister(p) ==
    /\ obj' = [obj EXCEPT ![p].isRegistered = FALSE, ![p].unregistered = @ + 1]
    /\ addEvent(Event("DELETE", p, None, None))

unregisterByKernel ==
    /\ NextCall("unregister")
    /\ unregister(Head(todo).prot)
    /\ todo' = Tail(todo)
    /\ UNCHANGED <<state, registry, killer, thr, historyVars>>

(* The interface of a neighbour goes down: its client protocols are shut    *)
(* down.                                                                    *)
onNeighborInterfaceDown(t) ==
    /\ KernelIdle
    /\ Registered
    /\ downs < MaxDowns
    /\ downs' = downs + 1
    /\ todo' = Calls("shutdown", {p \in registry \cap Clients : obj[p].peer = t})
    /\ UNCHANGED <<state, registry, events, killer, obj, thr, requested,
                   verdict, bad>>

(* The local interface goes down: every protocol on it is shut down.        *)
onLocalInterfaceDown ==
    /\ KernelIdle
    /\ Registered
    /\ downs < MaxDowns
    /\ downs' = downs + 1
    /\ todo' = Calls("shutdown", registry)
    /\ UNCHANGED <<state, registry, events, killer, obj, thr, requested,
                   verdict, bad>>

-----------------------------------------------------------------------------
(***************************************************************************)
(* Shutdown of the manager                                                  *)
(***************************************************************************)
onPrepareShutdown ==
    /\ MayShutDown
    /\ KernelIdle
    /\ state = "RUNNING"
    /\ state' = "PREPARE_SHUTDOWN"
    /\ todo' = Calls("shutdown", registry \cap Servers)
    /\ UNCHANGED <<registry, events, killer, obj, thr, historyVars>>

(* EVENT_TYPE_SHUTDOWN, once every manager is ready for it.                 *)
onShutdown ==
    /\ KernelIdle
    /\ state = "PREPARE_SHUTDOWN"
    /\ IF registry = {}
       THEN state' = "STOPPED" /\ UNCHANGED <<todo, killer>>
       ELSE /\ state' = "SHUTDOWN"
            /\ todo' = Calls("shutdown", registry)
            /\ killer' = "sleeping"
    /\ UNCHANGED <<registry, events, obj, thr, historyVars>>

(* The killer thread wakes up after 15 seconds, whatever is still           *)
(* registered and whichever threads still run.                              *)
killerExpires ==
    /\ killer = "sleeping" /\ bad = {}
    /\ killer' = "done"
    /\ addEvent(Event("SHUTDOWN_TIMEOUT", None, None, None))
    /\ UNCHANGED <<state, registry, todo, obj, thr, historyVars>>

onProtocolShutdownTimeout ==
    /\ Deliver("SHUTDOWN_TIMEOUT")
    /\ todo' = Calls("kill", registry)
    /\ state' = IF registry = {} THEN state ELSE "STOPPED"
    /\ registry' = {}
    /\ events' = Tail(events)
    /\ UNCHANGED <<killer, obj, thr, historyVars>>

(* Whatever is still registered after the timeout is removed: a protocol    *)
(* whose thread is RUNNING is detached and cancelled and its queue cleared; *)
(* any other is deleted.                                                    *)
killProtocol ==
    /\ NextCall("kill")
    /\ LET p == Head(todo).prot IN
        IF isRunning(p)
        THEN /\ thr' = [thr EXCEPT ![p].detached = TRUE,
                                   ![p].state = "CANCELLED",
                                   ![p].exitSignal = TRUE]
             /\ closeAndClearQueue(p, "live")
             /\ UNCHANGED bad
        ELSE destroy(p) /\ UNCHANGED thr
    /\ todo' = Tail(todo)
    /\ UNCHANGED <<state, registry, events, killer, requested, downs>>

-----------------------------------------------------------------------------
(***************************************************************************)
(* The thread of a protocol: Protocol::run inside Thread::runloop           *)
(***************************************************************************)
At(p, pc) == thr[p].pc = pc /\ bad = {}

ShouldStop(p) == obj[p].mode \in {"DONE", "GARBAGE"} \/ thr[p].exitSignal

runBegin(p) ==
    /\ At(p, "begin")
    /\ obj' = [obj EXCEPT ![p].mode = "IDLE"]
    /\ thr' = [thr EXCEPT ![p].pc = "loop"]
    /\ UNCHANGED <<kernelVars, historyVars>>

(* The loop's condition.  retrieve() sees at once that the queue holds an   *)
(* element; otherwise it waits.                                             *)
runLoop(p) ==
    /\ At(p, "loop")
    /\ thr' = [thr EXCEPT ![p].pc =
                  IF ShouldStop(p) THEN "done"
                  ELSE IF ~thr[p].connected THEN "connect"
                  ELSE IF obj[p].q # <<>> THEN "take" ELSE "wait"]
    /\ UNCHANGED <<obj, kernelVars, historyVars>>

connectSuccess(p) ==
    /\ At(p, "connect")
    /\ thr' = [thr EXCEPT ![p].pc = "loop", ![p].connected = TRUE]
    /\ UNCHANGED <<obj, kernelVars, historyVars>>

(* A fatal error ends the protocol; so does the last allowed attempt, which *)
(* also closes the queue.  After any other attempt it sleeps and retries.   *)
connectFailure(p, fatal) ==
    /\ At(p, "connect")
    /\ LET last == thr[p].tries + 1 = PROT_CONNECTION_ATTEMPTS IN
        /\ obj' = IF fatal THEN [obj EXCEPT ![p].mode = "DONE"]
                  ELSE IF last
                  THEN [obj EXCEPT ![p].mode = "DONE", ![p].closed = TRUE]
                  ELSE obj
        /\ thr' = [thr EXCEPT ![p].pc = "loop",
                              ![p].tries = IF fatal THEN @ ELSE @ + 1]
    /\ UNCHANGED <<kernelVars, historyVars>>

(* waitForEvent hands out the head of the queue.                            *)
takeElement(p) ==
    /\ \/ At(p, "take")
       \/ At(p, "wait") /\ ~thr[p].exitSignal
    /\ obj[p].q # <<>>
    /\ obj' = [obj EXCEPT ![p].q = Tail(@)]
    /\ thr' = [thr EXCEPT ![p].pc = "sending", ![p].cur = Head(obj[p].q)]
    /\ UNCHANGED <<kernelVars, historyVars>>

(* sendDataObjectNow succeeded or the peer rejected the data object, which  *)
(* counts as success.                                                       *)
sendSuccess(p) ==
    /\ At(p, "sending")
    /\ Verdict(thr[p].cur)
    /\ thr' = [thr EXCEPT ![p].pc = "loop", ![p].cur = None, ![p].numerr = 0]
    /\ UNCHANGED <<obj, kernelVars, requested, downs, bad>>

(* The send failed.  After a plain error the protocol carries on; if the    *)
(* peer closed the connection, terminated the transfer, or the error is     *)
(* fatal, the queue is closed and the protocol is done.                     *)
sendFailure(p, carryOn) ==
    /\ At(p, "sending")
    /\ Verdict(thr[p].cur)
    /\ obj' = IF carryOn THEN obj
              ELSE [obj EXCEPT ![p].closed = TRUE, ![p].mode = "DONE"]
    /\ thr' = [thr EXCEPT ![p].pc = "loop", ![p].cur = None, ![p].numerr = 0]
    /\ UNCHANGED <<kernelVars, requested, downs, bad>>

(* Nothing happened for PROT_WAIT_TIME_BEFORE_DONE seconds, or the thread   *)
(* was told to exit.  The queue stays open.                                 *)
waitOver(p) ==
    /\ At(p, "wait")
    /\ obj' = [obj EXCEPT ![p].mode = "DONE"]
    /\ thr' = [thr EXCEPT ![p].pc = "loop", ![p].numerr = 0]
    /\ UNCHANGED <<kernelVars, historyVars>>

(* A data object arrived and was received.                                  *)
received(p) ==
    /\ At(p, "wait")
    /\ thr' = [thr EXCEPT ![p].pc = "loop", ![p].numerr = 0]
    /\ UNCHANGED <<obj, kernelVars, historyVars>>

(* The peer closed the connection while the protocol was receiving, or the  *)
(* receive failed for good.                                                 *)
receiveClosed(p) ==
    /\ At(p, "wait")
    /\ obj' = [obj EXCEPT ![p].closed = TRUE, ![p].mode = "DONE"]
    /\ thr' = [thr EXCEPT ![p].pc = "loop", ![p].numerr = 0]
    /\ UNCHANGED <<kernelVars, historyVars>>

(* A receive or a wait failed: too many failures in a row end the protocol. *)
waitError(p) ==
    /\ At(p, "wait")
    /\ obj' = IF thr[p].numerr > MaxErrors \/ thr[p].exitSignal
              THEN [obj EXCEPT ![p].closed = TRUE, ![p].mode = "DONE"]
              ELSE obj
    /\ thr' = [thr EXCEPT ![p].pc = "loop", ![p].numerr = @ + 1]
    /\ UNCHANGED <<kernelVars, historyVars>>

(* The end of run(): the connection is closed, and the counters of connect  *)
(* attempts and of errors, local variables, are gone.                       *)
runEnd(p) ==
    /\ At(p, "done")
    /\ obj' = [obj EXCEPT ![p].mode = "DONE"]
    /\ thr' = [thr EXCEPT ![p].pc = "lower", ![p].connected = FALSE,
                          ![p].numerr = 0, ![p].tries = 0]
    /\ UNCHANGED <<kernelVars, historyVars>>

(* Thread::runloop lowers the exit signal ...                               *)
lowerExitSignal(p) ==
    /\ At(p, "lower")
    /\ thr' = [thr EXCEPT ![p].pc = "cleanup", ![p].exitSignal = FALSE]
    /\ UNCHANGED <<obj, kernelVars, historyVars>>

(* ... and Thread::cleanup marks the thread and calls Protocol::cleanup,    *)
(* which makes the protocol garbage and unregisters it.                     *)
cleanupBegin(p) ==
    /\ At(p, "cleanup")
    /\ thr' = [thr EXCEPT ![p].pc = "garbage", ![p].state = "CLEANUP"]
    /\ UNCHANGED <<obj, kernelVars, historyVars>>

(* A detached protocol deletes itself here, and its Thread object with it.  *)
cleanupGarbage(p) ==
    /\ At(p, "garbage")
    /\ IF thr[p].detached
       THEN destroy(p) /\ UNCHANGED thr
       ELSE /\ obj' = [obj EXCEPT ![p].mode = "GARBAGE"]
            /\ thr' = [thr EXCEPT ![p].pc =
                          IF obj[p].isRegistered THEN "unregister" ELSE "stop"]
            /\ UNCHANGED <<verdict, bad>>
    /\ UNCHANGED <<kernelVars, requested, downs>>

(* Seeded fault: the thread ends without asking for its deletion.           *)
cleanupSilently(p) ==
    /\ At(p, "unregister")
    /\ obj' = [obj EXCEPT ![p].isRegistered = FALSE]
    /\ thr' = [thr EXCEPT ![p].pc = "stop"]
    /\ UNCHANGED <<kernelVars, historyVars>>

cleanupUnregister(p) ==
    /\ At(p, "unregister")
    /\ unregister(p)
    /\ thr' = [thr EXCEPT ![p].pc = "stop"]
    /\ UNCHANGED <<state, registry, todo, killer, historyVars>>

cleanupEnd(p) ==
    /\ At(p, "stop")
    /\ thr' = [thr EXCEPT ![p].pc = "exited", ![p].state = "STOPPED"]
    /\ UNCHANGED <<obj, kernelVars, historyVars>>

-----------------------------------------------------------------------------
Kernel ==
    \/ onSendDataObject
    \/ sendUnheard
    \/ SendFound
    \/ SendCreate
    \/ SendImpossible
    \/ sendDataObject
    \/ insertAndStart
    \/ onAddProtocolEvent
    \/ onDeleteProtocolEvent
    \/ join
    \/ deleteProtocol
    \/ checkShutdown
    \/ shutdown
    \/ cancel
    \/ testRegistered
    \/ unregisterByKernel
    \/ onProtocolShutdownTimeout
    \/ killProtocol

(* What reaches the manager from outside.                                   *)
Environment ==
    \/ \E d \in DObjs, t \in Peers : RequestSend(d, t)
    \/ acceptClient
    \/ onLocalInterfaceUp
    \/ \E t \in Peers : onNeighborInterfaceDown(t)
    \/ onLocalInterfaceDown
    \/ onPrepareShutdown

Thread(p) ==
    \/ runBegin(p)
    \/ runLoop(p)
    \/ connectSuccess(p)
    \/ \E fatal \in BOOLEAN : connectFailure(p, fatal)
    \/ takeElement(p)
    \/ sendSuccess(p)
    \/ \E carryOn \in BOOLEAN : sendFailure(p, carryOn)
    \/ waitOver(p)
    \/ received(p)
    \/ receiveClosed(p)
    \/ waitError(p)
    \/ runEnd(p)
    \/ lowerExitSignal(p)
    \/ cleanupBegin(p)
    \/ cleanupGarbage(p)
    \/ cleanupUnregister(p)
    \/ cleanupEnd(p)

Next ==
    \/ Kernel
    \/ Environment
    \/ onShutdown
    \/ killerExpires
    \/ \E p \in Clients : Thread(p)

Spec == Init /\ [][Next]_vars

(* The kernel thread and the protocol threads are scheduled, every blocking *)
(* call of a protocol thread has a timeout, and the other managers become   *)
(* ready for shutdown.                                                      *)
FairSpec ==
    /\ Spec
    /\ WF_vars(Kernel)
    /\ WF_vars(onShutdown)
    /\ \A p \in Clients : WF_vars(Thread(p))

-----------------------------------------------------------------------------
EventTypes == {"SEND", "SEND_ACTUAL", "ADD", "DELETE", "SHUTDOWN_TIMEOUT"}

CallNames == {"sendDataObject", "insert", "join", "delete", "checkShutdown",
              "shutdown", "cancel", "testRegistered", "unregister", "kill"}

Locations == {"none", "begin", "loop", "connect", "take", "wait", "sending",
              "done", "lower", "cleanup", "garbage", "unregister", "stop",
              "exited"}

TypeOK ==
    /\ state \in {"RUNNING", "PREPARE_SHUTDOWN", "SHUTDOWN", "STOPPED"}
    /\ registry \subseteq Protocols
    /\ events \in Seq([type : EventTypes, prot : Protocols \cup {None},
                       dObj : DObjs \cup {None}, peer : Peers \cup {None}])
    /\ todo \in Seq([op : CallNames, prot : Protocols,
                     dObj : DObjs \cup {None}])
    /\ killer \in {"none", "sleeping", "done"}
    /\ obj \in [Protocols ->
                  [life : {"none", "live", "deleted"},
                   mode : {"IDLE", "LISTENING", "DONE", "GARBAGE"},
                   isRegistered : BOOLEAN, q : Seq(DObjs), closed : BOOLEAN,
                   peer : Peers \cup {None}, unregistered : Nat]]
    /\ thr \in [Protocols ->
                  [pc : Locations,
                   state : {"STOPPED", "RUNNING", "CANCELLED", "CLEANUP",
                            "JOINED"},
                   exitSignal : BOOLEAN, detached : BOOLEAN,
                   connected : BOOLEAN, cur : DObjs \cup {None},
                   numerr : Nat, tries : 0..PROT_CONNECTION_ATTEMPTS]]
    /\ requested \in [DObjs -> 0..MaxRequests]
    /\ verdict \in [DObjs -> Nat]
    /\ downs \in 0..MaxDowns
    /\ bad \subseteq {"used after delete", "deleted under a live thread"}

-----------------------------------------------------------------------------
(* Where a send request for d can be before its verdict: in an event or in  *)
(* a call that names d, in the hands of a thread, or in a queue.            *)
Naming(d, s) == {i \in 1..Len(s) : s[i].dObj = d}

Sending(d) == {p \in Clients : thr[p].cur = d}

Waiting(d) ==
    UNION {{p} \X {i \in 1..Len(obj[p].q) : obj[p].q[i] = d} : p \in Clients}

Pending(d) ==
    Cardinality(Naming(d, events)) + Cardinality(Naming(d, todo))
    + Cardinality(Sending(d)) + Cardinality(Waiting(d))

(* Every send request is in exactly one place or has had exactly one        *)
(* verdict: whatever the protocol does meanwhile (times out, fails, is shut *)
(* down, is deleted with data objects in its queue), no verdict is lost and *)
(* none is given twice.                                                     *)
OneVerdictPerRequest ==
    Registered => \A d \in DObjs : requested[d] = Pending(d) + verdict[d]

(* A protocol that is found in the registry has not been deleted.           *)
RegistryIsLive == \A p \in registry : obj[p].life = "live"

(* A Protocol object is never deleted while its thread still executes its   *)
(* methods.  ProtocolManager.cpp:266-269 says so of the shutdown timeout:   *)
(* "We are not going to join with these threads, so we detach", and "In     *)
(* detached state, the protocol will delete itself once it stops running."  *)
NoDeleteUnderLiveThread == "deleted under a live thread" \notin bad

(* Before the shutdown timeout fires, the kernel thread deletes a protocol  *)
(* only when nothing of its thread is left, whichever way the thread ends   *)
(* and whoever shuts the protocol down: every delete comes after a join.    *)
JoinedBeforeTimeout == killer # "done" => NoDeleteUnderLiveThread

(* A protocol asks for its deletion once: unregisterWithManager guards      *)
(* against "Trying to unregister protocol %s twice" (Protocol.cpp:1289).    *)
UnregisteredOnce == \A p \in Clients : obj[p].unregistered <= 1

(* Every send request gets its verdict: whenever some are open, a time      *)
(* comes when none is.                                                      *)
EveryRequestAnswered ==
    \A d \in DObjs :
        (verdict[d] < requested[d]) ~>
            (verdict[d] = requested[d] \/ ~Registered \/ bad # {})

(* No handler blocks the kernel thread for good, not even in the join of a  *)
(* protocol's thread.                                                       *)
KernelResumes == (todo # <<>>) ~> (todo = <<>> \/ bad # {})

(* A shutdown is completed: the manager unregisters with the kernel, with   *)
(* or without the timeout.                                                  *)
ShutdownCompletes ==
    (state = "PREPARE_SHUTDOWN") ~> (state = "STOPPED" \/ bad # {})
=============================================================================
