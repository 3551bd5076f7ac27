------------------------------ MODULE DataStore ------------------------------
(***************************************************************************)
(* The data store (DataStore.cpp, SQLDataStore.cpp) and the data manager's  *)
(* Bloom filter (DataManager.cpp) that has to agree with it.                *)
(*                                                                          *)
(* The kernel thread hands tasks to the data store thread over a sorted     *)
(* list, under a mutex and with a condition variable.  Every API function   *)
(* is one critical section (lock, insert, signal, unlock), so it is one     *)
(* action; the thread's critical sections are actions as well, and          *)
(* cond.wait() ends in two of them: being woken and getting the mutex back. *)
(* The thread alone touches the database, so a task is executed in one      *)
(* step.  Its results are events, which the kernel thread handles later.    *)
(*                                                                          *)
(* The process can be shut down and started again, and it can crash at any  *)
(* point: the database stays, everything else is gone.  Filters are the     *)
(* sets they stand for.                                                     *)
(***************************************************************************)
EXTENDS Naturals, Sequences, FiniteSets

CONSTANTS
    PlainObjects,     \* data objects that are no node descriptions
    Descriptions,     \* data objects that are node descriptions
    Nodes,            \* the nodes they describe, and that queries are about
    nodeOf,           \* the node a description describes
    createTime,       \* the create time of a description
    None,             \* nothing
    MaxClock,         \* bound: the values of the clock
    MaxCalls,         \* bound: data objects, timers and calls from outside
    MaxStarts,        \* bound: starts of the process
    MAX_AGED,         \* DATASTORE_MAX_DATAOBJECTS_AGED_AT_ONCE
    KeepOnAging,      \* keepInBloomfilterOnAging
    MayCrash          \* whether the process may crash

DataObjects == PlainObjects \cup Descriptions

ASSUME StoreConstants ==
    /\ PlainObjects \cap Descriptions = {}
    /\ nodeOf \in [Descriptions -> Nodes]
    /\ createTime \in [Descriptions -> Nat]
    /\ None \notin DataObjects \cup Nodes
    /\ MaxClock \in Nat /\ MaxCalls \in Nat /\ MaxStarts \in Nat
    /\ MAX_AGED \in Nat \ {0} /\ MayCrash \in BOOLEAN
    /\ KeepOnAging \in BOOLEAN

VARIABLES
    taskQ,      \* the task queue
    pc,         \* where the data store thread is
    task,       \* the task it executes, or NoTask
    cancelled,  \* whether its Thread was cancelled
    stored,     \* table dataobjects
    saved,      \* table repository: the data manager's saved filter
    localBF,    \* the data manager's counting filter
    verifying,  \* data objects between their INCOMING and VERIFIED events
    aging,      \* the aging timers that run: delayed events of the kernel
    kernel,     \* how far the process is
    events,     \* the kernel's event queue, as far as the data store fills it
    clock,      \* the wall clock
    calls, starts,
    kept,       \* history: deleted, but to be kept in the filter
    refused,    \* history: found bad, with its entry left in the filter
    announced,  \* history: NEW was raised and the object not deleted since
    twice,      \* history: NEW was raised for an announced data object
    intact      \* history: no crash so far

threadVars == <<pc, task, cancelled>>
tables == <<stored, saved>>
managerVars == <<localBF, verifying, aging>>
counters == <<clock, calls, starts>>
history == <<kept, refused, announced, twice, intact>>
vars == <<taskQ, threadVars, tables, managerVars, kernel, events, counters,
          history>>

-----------------------------------------------------------------------------
(* Tasks and the queue.                                                     *)

High == {"INSERT_DATAOBJECT", "DELETE_DATAOBJECT", "DELETE_DATAOBJECT_BY_ID",
         "INSERT_REPOSITORY", "DELETE_REPOSITORY"}
Medium == {"DATAOBJECT_QUERY", "READ_REPOSITORY"}
Low == {"AGE_DATAOBJECTS", "EXIT"}

priority(type) == IF type \in High THEN 0 ELSE IF type \in Medium THEN 1 ELSE 2

(* arg is the data object, the node, or the filter to be saved; keep is     *)
(* boolParameter; timestamp is read from the clock under the mutex.         *)
Task(type, arg, keep) ==
    [type |-> type, arg |-> arg, keep |-> keep, timestamp |-> clock]

Before(t, u) ==
    \/ priority(t.type) < priority(u.type)
    \/ priority(t.type) = priority(u.type) /\ t.timestamp < u.timestamp

(* No task in hand.                                                         *)
NoTask == [type |-> "none", arg |-> None, keep |-> FALSE, timestamp |-> 0]

(* The place of t in list l: before the first element it precedes.          *)
Place(t, l) ==
    IF \E i \in 1..Len(l) : Before(t, l[i])
    THEN CHOOSE i \in 1..Len(l) :
            /\ Before(t, l[i])
            /\ \A j \in 1..(i - 1) : ~Before(t, l[j])
    ELSE Len(l) + 1

InsertAt(l, p, t) ==
    [i \in 1..(Len(l) + 1) |->
        IF i < p THEN l[i] ELSE IF i = p THEN t ELSE l[i - 1]]

Insert(t) == taskQ' = InsertAt(taskQ, Place(t, taskQ), t)

(* Seeded fault: the task is queued and the thread not signalled.           *)
submitQuietly(type, arg, keep) ==
    /\ Insert(Task(type, arg, keep))
    /\ UNCHANGED pc

(* Insert and cond.signal(), which wakes the thread if it waits.            *)
submit(type, arg, keep) ==
    /\ Insert(Task(type, arg, keep))
    /\ pc' = IF pc = "waiting" THEN "woken" ELSE pc

-----------------------------------------------------------------------------
(* The kernel thread.                                                       *)

Running == kernel \in {"starting", "running"}

(* What comes from outside is bounded: data objects, timers, and the calls  *)
(* of other managers.                                                       *)
Input ==
    /\ calls < MaxCalls
    /\ calls' = calls + 1
    /\ UNCHANGED <<clock, starts>>

(* The handlers of other managers, which unregister in the same round of    *)
(* the event loop as the data manager.                                      *)
Call == kernel = "running" /\ Input

(* A data object comes in.  A known one is marked as a duplicate, which the *)
(* security manager drops; this is no step of the model.  Neighbours and    *)
(* applications are heard after the startup barrier, which the repository   *)
(* queries of other managers hold up until the filter has been read.        *)
onIncomingDataObject(d) ==
    /\ kernel = "running" /\ Input
    /\ d \notin localBF
    /\ localBF' = localBF \cup {d}
    /\ verifying' = verifying \cup {d}
    /\ kept' = kept \ {d} /\ refused' = refused \ {d}
    /\ UNCHANGED <<taskQ, threadVars, tables, aging, kernel, events, announced,
                   twice, intact>>

(* The security manager has verified it, and the data manager its data.     *)
onVerifiedDataObject(d) ==
    /\ kernel = "running" /\ d \in verifying
    /\ submit("INSERT_DATAOBJECT", d, FALSE)
    /\ verifying' = verifying \ {d}
    /\ UNCHANGED <<task, cancelled, tables, localBF, aging, kernel, events,
                   counters, history>>

(* Its signature or its data is bad: it is dropped by the security manager  *)
(* or by the data helper, which raise no event for it.  The branches of     *)
(* onVerifiedDataObject that would take it out of the filter are not        *)
(* reached: its entry stays.                                                *)
onBadDataObject(d) ==
    /\ kernel = "running" /\ d \in verifying
    /\ verifying' = verifying \ {d}
    /\ refused' = refused \cup {d}
    /\ UNCHANGED <<taskQ, threadVars, tables, localBF, aging, kernel, events,
                   counters, kept, announced, twice, intact>>

(* An application deletes a data object, by its identifier.                 *)
deleteDataObjectById(d, keep) ==
    /\ Call
    /\ submit("DELETE_DATAOBJECT_BY_ID", d, keep)
    /\ UNCHANGED <<task, cancelled, tables, managerVars, kernel, events,
                   history>>

(* The node manager deletes an old node description, or its own, and always *)
(* asks for it to be kept in the filter.                                    *)
deleteDataObject(d) ==
    /\ Call
    /\ d \in Descriptions
    /\ submit("DELETE_DATAOBJECT", d, TRUE)
    /\ UNCHANGED <<task, cancelled, tables, managerVars, kernel, events,
                   history>>

(* The forwarding manager asks for data objects for a node ...              *)
doDataObjectQuery(n) ==
    /\ Call
    /\ submit("DATAOBJECT_QUERY", n, FALSE)
    /\ UNCHANGED <<task, cancelled, tables, managerVars, kernel, events,
                   history>>

Cancelled(n, t) == t.type = "DATAOBJECT_QUERY" /\ t.arg = n

(* ... and drops its queries when the node goes away: the others keep their *)
(* order (g numbers them).  Nothing tells a thread that was woken for one   *)
(* that it is dropped.                                                      *)
cancelDataObjectQueries(n) ==
    /\ kernel = "running"
    /\ \E i \in 1..Len(taskQ) : Cancelled(n, taskQ[i])
    /\ LET Left == {i \in 1..Len(taskQ) : ~Cancelled(n, taskQ[i])}
       IN  \E g \in [1..Cardinality(Left) -> Left] :
              /\ \A i, j \in DOMAIN g : i < j => g[i] < g[j]
              /\ taskQ' = [k \in DOMAIN g |-> taskQ[g[k]]]
    /\ UNCHANGED <<threadVars, tables, managerVars, kernel, events, counters,
                   history>>

(* A configuration that changes the aging starts it.  (init_derived calls   *)
(* onAgedDataObjects(NULL) for that, which returns at once; so does         *)
(* onAging() once shutdown() was called, which is no step here.)            *)
onConfig ==
    /\ Call
    /\ submit("AGE_DATAOBJECTS", None, KeepOnAging)
    /\ UNCHANGED <<task, cancelled, tables, managerVars, kernel, events,
                   history>>

(* An aging timer expires.  Nothing comes of it once shutdown() was called, *)
(* which it may be at any time.                                             *)
onAging ==
    /\ kernel = "running" /\ aging > 0 /\ Input
    /\ \/ submit("AGE_DATAOBJECTS", None, KeepOnAging)
       \/ UNCHANGED <<taskQ, pc>>
    /\ aging' = aging - 1
    /\ UNCHANGED <<task, cancelled, tables, localBF, verifying, kernel, events,
                   history>>

(* The wall clock is set back.  (That it advances needs no step: a later    *)
(* time and the same time give a new task the same place.)                  *)
setClockBack ==
    /\ Running /\ taskQ # <<>> /\ clock > 0 /\ calls < MaxCalls
    /\ clock' = clock - 1 /\ calls' = calls + 1
    /\ UNCHANGED <<taskQ, threadVars, tables, managerVars, kernel, events,
                   starts, history>>

-----------------------------------------------------------------------------
(* Events from the data store.                                              *)

Event(type, objs, flag) == [type |-> type, objs |-> objs, flag |-> flag]

Handle(type) ==
    /\ Running
    /\ events # <<>> /\ Head(events).type = type
    /\ events' = Tail(events)

(* The saved filter, if there is one, replaces the filter.  The entry that  *)
(* is then deleted is "Local Bloomfilter"; it was saved as "Bloomfilter".   *)
onGetLocalBF ==
    /\ Handle("GET_LOCAL_BF")
    /\ IF Head(events).flag
       THEN /\ localBF' = Head(events).objs
            /\ submit("DELETE_REPOSITORY", None, FALSE)
       ELSE UNCHANGED <<localBF, taskQ, pc>>
    /\ kernel' = "running"
    /\ UNCHANGED <<task, cancelled, tables, verifying, aging, counters, history>>

(* flag is isDuplicate().                                                   *)
onInsertedDataObject ==
    /\ Handle("INSERTED")
    /\ IF Head(events).flag
       THEN UNCHANGED <<announced, twice>>
       ELSE /\ announced' = announced \cup Head(events).objs
            /\ twice' = (twice \/ Head(events).objs \cap announced # {})
    /\ UNCHANGED <<taskQ, threadVars, tables, managerVars, kernel, counters,
                   kept, refused, intact>>

(* Seeded fault: the flag of the event is not looked at.                    *)
RemovedFromFilterAlways(e) == e.objs

(* flag is keepInBloomfilter.                                               *)
RemovedFromFilter(e) == IF e.flag THEN {} ELSE e.objs \ Descriptions

onDeletedDataObject ==
    /\ Handle("DELETED")
    /\ localBF' = localBF \ RemovedFromFilter(Head(events))
    /\ announced' = announced \ Head(events).objs
    /\ kept' = IF Head(events).flag THEN kept \cup Head(events).objs ELSE kept
    /\ UNCHANGED <<taskQ, threadVars, tables, verifying, aging, kernel,
                   counters, refused, twice, intact>>

(* A full batch is followed by another at once, a smaller one by the timer, *)
(* and after shutdown() neither.                                            *)
onAgedDataObjects ==
    /\ Handle("AGED")
    /\ \/ /\ Cardinality(Head(events).objs) >= MAX_AGED
          /\ submit("AGE_DATAOBJECTS", None, KeepOnAging)
          /\ UNCHANGED aging
       \/ /\ Cardinality(Head(events).objs) < MAX_AGED
          /\ aging' = aging + 1
          /\ UNCHANGED <<taskQ, pc>>
       \/ UNCHANGED <<aging, taskQ, pc>>
    /\ UNCHANGED <<task, cancelled, tables, localBF, verifying, kernel,
                   counters, history>>

-----------------------------------------------------------------------------
(* Shutdown, restart and crash.                                             *)

(* DataManager::onShutdown.  Its handlers are not called after that.        *)
onShutdown ==
    /\ kernel = "running"
    /\ submit("INSERT_REPOSITORY", localBF, FALSE)
    /\ kernel' = "unregistered"
    /\ UNCHANGED <<task, cancelled, tables, managerVars, events, counters,
                   history>>

(* The end of HaggleKernel::run(): stop() cancels the thread, queues an     *)
(* EXIT task in hookCancel() and joins.                                     *)
cancel ==
    /\ kernel = "unregistered"
    /\ cancelled' = TRUE
    /\ kernel' = "cancelling"
    /\ UNCHANGED <<taskQ, pc, task, tables, managerVars, events, counters,
                   history>>

hookCancel ==
    /\ kernel = "cancelling"
    /\ submit("EXIT", None, FALSE)
    /\ kernel' = "joining"
    /\ UNCHANGED <<task, cancelled, tables, managerVars, events, counters,
                   history>>

join ==
    /\ kernel = "joining" /\ pc = "exited"
    /\ kernel' = "down"
    /\ UNCHANGED <<taskQ, threadVars, tables, managerVars, events, counters,
                   history>>

FirstTask == [type |-> "READ_REPOSITORY", arg |-> None, keep |-> FALSE,
              timestamp |-> MaxClock]

(* A new process: the data manager's init asks for the saved filter.        *)
NewProcess ==
    /\ taskQ' = <<FirstTask>>
    /\ pc' = "ready" /\ task' = NoTask /\ cancelled' = FALSE
    /\ localBF' = {} /\ verifying' = {} /\ aging' = 0
    /\ kernel' = "starting" /\ events' = <<>>
    /\ kept' = {} /\ refused' = {} /\ announced' = announced \cap stored
    /\ clock' = MaxClock

restart ==
    /\ kernel = "down" /\ starts < MaxStarts
    /\ NewProcess
    /\ starts' = starts + 1
    /\ UNCHANGED <<tables, calls, twice, intact>>

crash ==
    /\ kernel # "down" /\ starts < MaxStarts
    /\ MayCrash \/ pc = "dead"
    /\ NewProcess
    /\ starts' = starts + 1
    /\ intact' = FALSE
    /\ UNCHANGED <<tables, calls, twice>>

-----------------------------------------------------------------------------
(* The data store thread: run().                                            *)

TakeFront ==
    /\ pc' = "busy"
    /\ task' = Head(taskQ)
    /\ taskQ' = Tail(taskQ)

runTake ==
    /\ pc = "ready" /\ taskQ # <<>>
    /\ TakeFront
    /\ UNCHANGED <<cancelled, tables, managerVars, kernel, events, counters,
                   history>>

(* Seeded fault: the thread ends as soon as it was cancelled.               *)
runExitAtOnce ==
    /\ pc = "ready" /\ cancelled
    /\ pc' = "exited"
    /\ UNCHANGED <<taskQ, task, cancelled, tables, managerVars, kernel, events,
                   counters, history>>

runExit ==
    /\ pc = "ready" /\ taskQ = <<>> /\ cancelled
    /\ pc' = "exited"
    /\ UNCHANGED <<taskQ, task, cancelled, tables, managerVars, kernel, events,
                   counters, history>>

runWait ==
    /\ pc = "ready" /\ taskQ = <<>> /\ ~cancelled
    /\ pc' = "waiting"
    /\ UNCHANGED <<taskQ, task, cancelled, tables, managerVars, kernel, events,
                   counters, history>>

(* pthread_cond_wait() may return without a signal.                         *)
wakeSpuriously ==
    /\ pc = "waiting"
    /\ pc' = "woken"
    /\ UNCHANGED <<taskQ, task, cancelled, tables, managerVars, kernel, events,
                   counters, history>>

(* After cond.wait() the queue is not looked at again: the front of an      *)
(* empty list is no task.  The list is empty after a spurious wakeup, or    *)
(* when the queries the thread was signalled for were cancelled before it   *)
(* got the mutex.                                                           *)
runWoken ==
    /\ pc = "woken"
    /\ IF taskQ # <<>>
       THEN TakeFront
       ELSE pc' = "dead" /\ UNCHANGED <<task, taskQ>>
    /\ UNCHANGED <<cancelled, tables, managerVars, kernel, events, counters,
                   history>>

-----------------------------------------------------------------------------
(* What the tasks do.                                                       *)

Executing(type) ==
    /\ pc = "busy" /\ task.type = type
    /\ pc' = "ready" /\ task' = NoTask

Post(es) == events' = events \o es

(* Seeded fault: a duplicate is not marked.                                 *)
_insertDataObjectUnmarked ==
    /\ Executing("INSERT_DATAOBJECT")
    /\ task.arg \in PlainObjects
    /\ stored' = stored \cup {task.arg}
    /\ Post(<<Event("INSERTED", {task.arg}, FALSE)>>)
    /\ UNCHANGED <<taskQ, cancelled, saved, managerVars, kernel, counters,
                   history>>

_insertDataObject ==
    /\ Executing("INSERT_DATAOBJECT")
    /\ task.arg \in PlainObjects
    /\ stored' = stored \cup {task.arg}
    /\ Post(<<Event("INSERTED", {task.arg}, task.arg \in stored)>>)
    /\ UNCHANGED <<taskQ, cancelled, saved, managerVars, kernel, counters,
                   history>>

(* The stored descriptions of the node that d describes.                    *)
SameNode(d) == {s \in stored \cap Descriptions : nodeOf[s] = nodeOf[d]}

(* Seeded fault: the create times are not compared.                         *)
NewestAlways(d) == TRUE

Newest(d) == \A s \in SameNode(d) : createTime[s] < createTime[d]

(* Older descriptions of the same node are deleted and reported; if one is  *)
(* as new, this one is ignored, without a callback.                         *)
_insertNodeDescription ==
    /\ Executing("INSERT_DATAOBJECT")
    /\ task.arg \in Descriptions
    /\ LET d == task.arg IN
       IF Newest(d)
       THEN /\ stored' = (stored \ SameNode(d)) \cup {d}
            /\ Post((IF SameNode(d) = {} THEN <<>>
                     ELSE <<Event("DELETED", SameNode(d), FALSE)>>)
                    \o <<Event("INSERTED", {d}, FALSE)>>)
       ELSE UNCHANGED <<stored, events>>
    /\ UNCHANGED <<taskQ, cancelled, saved, managerVars, kernel, counters,
                   history>>

(* Seeded fault: the deletion is not reported.                              *)
_deleteDataObjectByIdSilently ==
    /\ Executing("DELETE_DATAOBJECT_BY_ID")
    /\ stored' = stored \ {task.arg}
    /\ UNCHANGED <<taskQ, cancelled, saved, managerVars, kernel, events, counters,
                   history>>

(* Reported only if it was there.                                           *)
_deleteDataObjectById ==
    /\ Executing("DELETE_DATAOBJECT_BY_ID")
    /\ stored' = stored \ {task.arg}
    /\ IF task.arg \in stored
       THEN Post(<<Event("DELETED", {task.arg}, task.keep)>>)
       ELSE UNCHANGED events
    /\ UNCHANGED <<taskQ, cancelled, saved, managerVars, kernel, counters,
                   history>>

(* Reported whether it was there or not.                                    *)
_deleteDataObject ==
    /\ Executing("DELETE_DATAOBJECT")
    /\ stored' = stored \ {task.arg}
    /\ Post(<<Event("DELETED", {task.arg}, task.keep)>>)
    /\ UNCHANGED <<taskQ, cancelled, saved, managerVars, kernel, counters,
                   history>>

(* Which data objects are old and match no filter is open; at most a batch  *)
(* of them goes.                                                            *)
_ageDataObjects ==
    /\ Executing("AGE_DATAOBJECTS")
    /\ \E old \in SUBSET stored :
          /\ Cardinality(old) <= MAX_AGED
          /\ stored' = stored \ old
          /\ Post(<<Event("DELETED", old, task.keep), Event("AGED", old, TRUE)>>)
    /\ UNCHANGED <<taskQ, cancelled, saved, managerVars, kernel, counters,
                   history>>

_readRepository ==
    /\ Executing("READ_REPOSITORY")
    /\ Post(<<Event("GET_LOCAL_BF", saved.filter, saved.present)>>)
    /\ UNCHANGED <<taskQ, cancelled, tables, managerVars, kernel, counters,
                   history>>

_insertRepository ==
    /\ Executing("INSERT_REPOSITORY")
    /\ saved' = [present |-> TRUE, filter |-> task.arg]
    /\ UNCHANGED <<taskQ, cancelled, stored, managerVars, kernel, events,
                   counters, history>>

(* A query, whose result concerns other managers and which is skipped once  *)
(* the thread was cancelled; the deletion of an entry that does not exist;  *)
(* EXIT, which does nothing, so that the tasks behind it are still done.    *)
_doNothingHere ==
    /\ \/ Executing("DATAOBJECT_QUERY")
       \/ Executing("DELETE_REPOSITORY")
       \/ Executing("EXIT")
    /\ UNCHANGED <<taskQ, cancelled, tables, managerVars, kernel, events,
                   counters, history>>
-----------------------------------------------------------------------------
Init ==
    /\ taskQ = <<FirstTask>>
    /\ pc = "ready" /\ task = NoTask /\ cancelled = FALSE
    /\ stored = {} /\ saved = [present |-> FALSE, filter |-> {}]
    /\ localBF = {} /\ verifying = {} /\ aging = 0
    /\ kernel = "starting" /\ events = <<>>
    /\ clock = MaxClock /\ calls = 0 /\ starts = 1
    /\ kept = {} /\ refused = {} /\ announced = {} /\ twice = FALSE
    /\ intact = TRUE

Thread ==
    \/ runTake \/ runExit \/ runWait \/ runWoken
    \/ _insertDataObject \/ _insertNodeDescription
    \/ _deleteDataObjectById \/ _deleteDataObject \/ _ageDataObjects
    \/ _readRepository \/ _insertRepository \/ _doNothingHere

DataManager ==
    \/ \E d \in DataObjects :
          \/ onIncomingDataObject(d)
          \/ onVerifiedDataObject(d)
          \/ onBadDataObject(d)
    \/ onGetLocalBF \/ onInsertedDataObject \/ onDeletedDataObject
    \/ onAgedDataObjects \/ onAging \/ onConfig
    \/ onShutdown

Callers ==
    \/ \E d \in DataObjects, keep \in BOOLEAN : deleteDataObjectById(d, keep)
    \/ \E d \in DataObjects : deleteDataObject(d)
    \/ \E n \in Nodes : doDataObjectQuery(n) \/ cancelDataObjectQueries(n)

stop == cancel \/ hookCancel \/ join

Next ==
    \/ Thread \/ wakeSpuriously
    \/ DataManager
    \/ Callers
    \/ stop
    \/ setClockBack \/ restart \/ crash

Spec == Init /\ [][Next]_vars

(* The thread is scheduled, and the kernel thread gets through stop().  No  *)
(* wakeup is owed to a waiting thread but that of a signal.                 *)
FairSpec == Spec /\ WF_vars(Thread) /\ WF_vars(stop)

-----------------------------------------------------------------------------
(* Properties.                                                              *)

Tasks == [type : High \cup Medium \cup Low,
          arg : DataObjects \cup Nodes \cup {None} \cup SUBSET DataObjects,
          keep : BOOLEAN, timestamp : Nat]
Events == [type : {"GET_LOCAL_BF", "INSERTED", "DELETED", "AGED"},
           objs : SUBSET DataObjects, flag : BOOLEAN]

(* Every variable keeps its type.                                           *)
TypeOK ==
    /\ taskQ \in Seq(Tasks) /\ task \in Tasks \cup {NoTask}
    /\ pc \in {"ready", "waiting", "woken", "busy", "exited", "dead"}
    /\ cancelled \in BOOLEAN
    /\ stored \subseteq DataObjects
    /\ saved \in [present : BOOLEAN, filter : SUBSET DataObjects]
    /\ localBF \subseteq DataObjects /\ verifying \subseteq DataObjects
    /\ aging \in Nat
    /\ kernel \in {"starting", "running", "unregistered", "cancelling",
                   "joining", "down"}
    /\ events \in Seq(Events)
    /\ clock \in Nat /\ calls \in Nat /\ starts \in Nat
    /\ kept \subseteq DataObjects /\ refused \subseteq DataObjects
    /\ announced \subseteq DataObjects
    /\ twice \in BOOLEAN /\ intact \in BOOLEAN

(* The list is sorted by priority and, within a priority, by the time of    *)
(* the request: the thread takes the most urgent and oldest task.           *)
MostUrgentFirst ==
    \A i, j \in 1..Len(taskQ) : i < j => ~Before(taskQ[j], taskQ[i])

(* The thread never sleeps beside a task, nor beside a cancellation whose   *)
(* EXIT task is not still to come: every insert signals it under the mutex  *)
(* under which it looked (DataStore::run, hookCancel).  That it finds a task *)
(* when it wakes up is not claimed: run() does not look (runWoken).         *)
WaitIsSafe ==
    pc = "waiting" => taskQ = <<>> /\ (cancelled => kernel = "cancelling")

(* There is one description per node, whatever the order in which they      *)
(* come in, are deleted and expire.                                         *)
OneDescriptionPerNode ==
    \A d, e \in stored \cap Descriptions : nodeOf[d] = nodeOf[e] => d = e

(* A description gives way to a newer one of its node only, and never stays *)
(* beside it (_insertNodeDescription).                                      *)
NewerReplaces ==
    \A d \in stored \cap Descriptions, e \in (stored' \ stored) \cap Descriptions :
        nodeOf[d] = nodeOf[e] => d \notin stored' /\ createTime[d] < createTime[e]

DescriptionsGetNewer == [][NewerReplaces]_vars

(* What is stored is in the filter, also after a shutdown and restart, with *)
(* tasks that are executed after the filter was saved: a neighbour's copy   *)
(* is refused.                                                              *)
StoredIsKnown == intact /\ kernel = "running" => stored \subseteq localBF

Inserting(d) ==
    \/ task.type = "INSERT_DATAOBJECT" /\ task.arg = d
    \/ \E i \in 1..Len(taskQ) :
          taskQ[i].type = "INSERT_DATAOBJECT" /\ taskQ[i].arg = d

(* What is in the filter is stored or on its way into the store, or its     *)
(* deletion is on its way to the filter, or it was deleted to be kept in    *)
(* the filter, or this copy of it was found bad: no other data object is    *)
(* refused.  (For a bad one the entry stays, against the comments in        *)
(* onVerifiedDataObject: a good copy is refused as well.)                   *)
KnownIsHeld ==
    starts = 1 => \A d \in localBF \cap PlainObjects :
        \/ d \in stored \cup verifying \cup kept \cup refused
        \/ Inserting(d)
        \/ \E i \in 1..Len(events) :
              events[i].type = "DELETED" /\ d \in events[i].objs

(* A data object is announced as new once, as long as it is not deleted:    *)
(* not for a second copy, and not after a crash that lost the filter.       *)
AnnouncedOnce == ~twice

(* stop() returns, and has executed what was accepted before it, although   *)
(* the thread may be cancelled before it gets to it: at the end the list    *)
(* holds at most the EXIT task, and the saved filter is the last one.  It   *)
(* may also crash: by itself, or in the thread's take from an empty list.   *)
StopCompletes ==
    (kernel = "cancelling") ~>
        \/ /\ kernel = "down"
           /\ \A i \in 1..Len(taskQ) : taskQ[i].type = "EXIT"
           /\ saved = [present |-> TRUE, filter |-> localBF]
        \/ kernel = "starting"
        \/ pc = "dead"
=============================================================================
