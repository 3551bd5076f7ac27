# A TLA+ verification project for Haggle

Haggle is a content-centric, opportunistic networking architecture: devices
that meet exchange *data objects* (an XML metadata header and an optional
body), and each keeps what its applications or its neighbours may be
interested in. This directory holds TLA+ modules that model the core of the
Haggle kernel (`src/src/hagglekernel`) and of its runtime library
(`src/src/libcpphaggle`), TLC configurations that check them on small instances,
and TLAPS proofs of the most important results for every value of the
constants. `PROJECT.json` relates every definition to source lines, every run
to the properties it checks, and every property to a seeded fault that breaks
it.

    tlc -config transfer.cfg MCDataTransfer      # one run
    tlapm HaggleKernelProofs.tla                 # one module of proofs

Paths below are relative to `src/src/` unless they start with `src/`.

## 1. The system and its parts

One process, `haggle`. The **kernel thread** runs `HaggleKernel::run()`, an
event loop; **managers** are objects whose handlers the loop calls, one at a
time, so managers do not race with each other. What does race is everything
that has a thread of its own: each **protocol** (a connection to a neighbour),
the **data store**, and the helper threads of the forwarding, security and data
managers. They talk to the kernel thread through the event queue, and get their
work through thread-safe queues.

| part | state it keeps | operations | correct when |
|---|---|---|---|
| `GenericQueue` (libcpphaggle) | list, mutex, signal, closed flag | insert, two overloads of retrieve, close | FIFO; an element wakes the retriever; nothing is taken from an empty list |
| `Signal`, `Watch`, `Mutex`, `Thread` | pipe and flag; fd sets; thread state machine | raise/lower, wait, lock/unlock, start/cancel/join/detach | a raised signal is not missed; a thread object is not destroyed under its thread |
| `EventQueue`, `Heap` | heap of events, shutdown flag, signal | addEvent, getNextEventTime, getNextEvent | the loop sleeps only beside an empty queue and never takes an event that is not there |
| `HaggleKernel` | registry of managers, running/shutdownCalled flags, watched sockets | run, register/unregister, readiness barriers, shutdown | startup and shutdown are barriers over all managers and complete |
| `Manager` | state, readiness flags | `_on*` handlers, signalIsReady*, unregisterWithKernel | goes once through its states, in order |
| `ProtocolManager` | protocol registry, killer thread | send requests, add/delete events, interface up/down, shutdown with timeout | every send request gets one verdict; a protocol is deleted once, after its thread; shutdown completes |
| `Protocol` (`ProtocolSocket`, `ProtocolTCP`, ...) | mode, flags, send queue, socket, buffer | run loop, sendDataObject, sendDataObjectNow, receiveDataObject, shutdown, cleanup | see ProtocolManager; a transfer ends, and its result is true |
| `DataManager` | counting Bloom filter, helper thread | incoming, verified, inserted, deleted data objects, send results, aging | the filter tells neighbours what the node has, also after deletions, aging and a restart; a data object is accepted and announced once |
| `SecurityManager` | keys, certificates, helper thread | verify and sign data objects, certificates | nothing unverified reaches the store at the levels that require it |
| `DataStore`/`SQLDataStore` | priority task queue; SQLite tables | insert, delete, age, query, repository, node and filter tasks; exit | the thread misses no task and ends; one, the newest, description per node; nothing accepted is lost by stop() |
| `ForwardingManager`, `Forwarder*`, Prophet | pending queries, module with its thread, metrics | neighbour and node updates, module tasks, delegates | the module is used by one thread at a time, what it learned is saved, startup and shutdown complete, it hears of every neighbour |
| `NodeManager`/`NodeStore` | known nodes and neighbours, retries | contacts, node descriptions | an interface has one record; every interface finds a node; the best information wins |
| `ConnectivityManager`/`InterfaceStore` | interfaces with parents and aging policies | interface reports, aging | an interface goes with its parent and is reported up and down once |
| `ApplicationManager` | registered applications, sent data objects | registration, control messages, shutdown notice | every application is told of the shutdown before it completes |
| `Bloomfilter` (`utils/`) | bit array, 16-bit counters | add, remove, has, merge | no false negatives |
| `ResourceManager`, `DebugManager`, `BenchmarkManager` | little | platform readings, debug output | - |
| `DataObject`, `Metadata`, `Attribute`, `Address`, `Interface`, `Utility` | values | XML, hashing, parsing | - |
| libhaggle, applications | clients of the kernel over a local socket | - | - |

How they interact. Protocol threads, helpers and the data store post events;
managers post events to each other; the kernel thread inserts into the
protocols' send queues and joins their threads; protocol threads read and write
this node's Bloom filter, which the data manager replaces. A send request goes
`DATAOBJECT_SEND` -> protocol manager -> a protocol's queue -> its thread ->
`SEND_SUCCESSFUL` or `SEND_FAILURE`. A received data object goes protocol thread
-> `INCOMING` -> data manager, and `RECEIVED` -> security manager -> `VERIFIED`
-> data manager -> data store.

What is hard here, and therefore what the properties are about: wakeups that
are lost between a list and a signal; the kernel thread joining threads that
may need it; objects deleted by one thread while another is in their methods;
verdicts given twice or never when a protocol dies with a non-empty queue;
barriers that open too early, twice or never; a filter that is tested, extended
and replaced by different threads; answers of one transfer taken for another's;
timeouts that race with what they bound; a store and a filter that must agree
over deletions, a restart and a crash; answers of the data store that are old
when they arrive; a module that is replaced while its saved state is on the
way. `PROJECT.json` lists these as
"hazards", each at its line.

## 2. Modules

| module | models | role |
|---|---|---|
| `AbstractQueue` | what `GenericQueue` promises | atomic FIFO queue that may be closed |
| `GenericQueue` | `GenericQueue.h` with `Signal`, `Mutex`, `Watch::wait` | one action per step another thread can observe; refines `AbstractQueue` |
| `GenericQueueProofs` | - | theorems about `GenericQueue` |
| `HaggleKernel` | `HaggleKernel.cpp`, `EventQueue.h`, `Manager.cpp` | the loop, the barriers, the life of the managers |
| `HaggleKernelProofs` | - | theorems about `HaggleKernel` |
| `ProtocolManager` | `ProtocolManager.cpp`, the life of `Protocol.cpp`, `Thread.cpp` | kernel handlers interleaved with protocol threads |
| `ProtocolManagerProofs` | - | theorems about `ProtocolManager` |
| `DataStore` | `DataStore.cpp`, `SQLDataStore.cpp` (data objects, repository), `DataManager.cpp` (filter, aging, saved state) | task queue and thread, the filter beside the table, stop, restart and crash |
| `DataStoreProofs` | - | theorems about `DataStore` |
| `Forwarding` | `ForwardingManager.cpp` (module, saved state), `ForwarderAsynchronous.cpp`, `ForwarderProphet.cpp` | the life of a forwarding module across configurations, shutdown and restart |
| `ForwardingProofs` | - | theorems about `Forwarding` |
| `Contacts` | `ConnectivityManager.cpp`, `InterfaceStore.cpp`, `NodeManager.cpp`, `NodeStore.cpp`, nodes in `SQLDataStore.cpp`, contacts in `ForwardingManager.cpp` | a peer whose interfaces come and go while the data store is asked about it |
| `ContactsProofs` | - | theorems about `Contacts` |
| `DataTransfer` | transfers in `Protocol.cpp`; `DataManager.cpp`, `SecurityManager.cpp`, `DataObject.cpp`, the insert of the data store | from a neighbour's send to this node's data store |
| `DataTransferProofs` | - | theorems about `DataTransfer` |
| `MC*` | - | the module TLC is run on |

Definitions named "Seeded fault" are variants of the definition that follows
them, with one plausible mistake. They are no part of a specification: each
replaces its original once, to show that a property is able to fail.

### GenericQueue

`lst`, `raised`, `isClosed` and `mutex` are the members of the class; `pc`, `arg`,
`timeout`, `result` and `exit` are the threads inside `insert()` and `retrieve()`;
`accepted` and `taken` are history, the elements that were pushed and those that were
taken. `InsertLock`, `InsertRefuse`/`InsertAdmit`,
`InsertPush`, `InsertRaise` and `InsertReturn` are the lines of `insert()`;
`Retrieve*` those of `retrieve()`. `Overload` says which overload the consumer
calls: `"watchable"` (lines 192-245, used by `ProtocolSocket` with its socket) or
`"plain"` (lines 136-177, used by the helper threads). They differ in the code:
the plain one unlocks the mutex a second time after its synchronized block (line
153), an action of its own, `RetrieveStrayUnlock`. A default POSIX mutex is freed
by an unlock whoever holds it. List and signal operations are atomic; where the
second unlock lets two threads into the critical section the real ones race, so
nothing is claimed of the plain overload but types: `queue_lost_wakeup` shows
that it fails already with atomic operations. `WaitOutcomes` lists what
`Watch::wait()` can return.

### HaggleKernel

The kernel thread's loop is `LoopBegin` (lower the signal and look at the
queue), `WaitInterrupted` or `WaitTimeout` (select), `Turn` (the handlers of the
managers for the event in hand, one manager after the other) and `LoopEnd`.
`PostResult` is any thread that works for a manager and reports with a private
event. A manager is described by what its readiness depends on: `AsyncStartup`
(security and forwarding manager), `AsyncShutdown` (application and forwarding
manager), `AsyncUnregister` (protocol manager). `shutdown()` is called by main's
signal handler, by Java, an application or the resource manager, at any moment;
it is two steps, the test of `running` and `shutdownCalled` (`shutdown`) and the rest
(`PostShutdown`), for no lock joins them, and the kernel thread's own
`running = true` and the posting of STARTUP are two steps as well. `disorder` is
history: two calls have passed the test, or one has posted its event between
those two steps. Events without a delay
are ordered by time, so the heap is a first-in first-out queue.

### ProtocolManager

The kernel thread runs one handler at a time; a handler that calls into a
protocol whose thread is live is split at the calls where that thread can come
in between (`todo`). `obj[p]` has the fields of a Protocol that two threads use
(mode, registered flag, send queue, closed flag), `thr[p]` its Thread object.
`Thread(p)` is `Protocol::run()` and `cleanup()`. Misuse of memory (delete under a
live thread, use after delete) is recorded in `bad` and ends the behaviour. A
transfer is one step here (`sendSuccess`, `sendFailure`, `received`), for what it
does to the life of the protocol is only its result; `DataTransfer` opens it.
`killerExpires` is the end of the 15 seconds, which can come at any time, whatever is
still registered and running.

### DataTransfer

Each connection has a sending end (`snd`, `sendDataObjectNow()` in the neighbour),
a receiving end (`rcv`, `receiveDataObject()` in this node) and two streams. The
streams carry headers, pieces of bodies and control messages; a receiver that
is in a body writes whatever comes next into the file, and one that expects a
header collects bytes until it meets the end of one (`putData()`). `bf` is
`thisNode`'s filter, `localBF` the data manager's. Each access to `bf` is atomic
because `NodeRef::operator->` returns a proxy that holds the node's lock to the
end of the expression; the test (line 820) and the addition (line 852) are two
accesses. Bloom filters are sets, without false positives. `TERMINATE` is handled
by the sender but sent by nobody. Each connection is used in one direction.
`SendError` is a PROT_EVENT_ERROR, possible at every stage of a send, after which
`run()` goes on with the same connection (`Protocol.cpp:1177`); a connection on which
one fell into a transfer that had begun is in `disturbed` (history) until it is made
anew. The two helper threads sleep in the plain `retrieve()`, so they may take what
is queued for them but nothing makes them.

### DataStore

The kernel thread and the data store thread share `taskQ` under one mutex. Every
API function is lock, insert, signal, unlock, so it is one action (`submit`);
`Place` and `InsertAt` are `TaskQueue::insert()`. The thread's `run()` is `runTake`,
`runExit`, `runWait` and `runWoken`: `cond.wait()` ends in two steps, being woken
and getting the mutex back, and in between queries can be cancelled
(`cancelDataObjectQueries`). It can also end without a signal (`wakeSpuriously`), as
`pthread_cond_wait` may. In both cases the thread does not look at the queue again
and takes the front of an empty list, which the model records as a thread that is
`"dead"`. Tasks are executed in one step, for the thread alone uses the database;
what they report are events that `DataManager`'s handlers take later. `localBF` is
the data manager's counting filter, taken as a set; `saved` is the filter in the
repository. `crash` can happen at any point: the tables stay and all else is
gone. `kernel` is how far the process is, from the start to `stop()`, whose steps
are `cancel`, `hookCancel` and `join`. That the clock advances needs no step; that
it is set back does, because the list is sorted by it. A copy whose signature or
data is bad (`onBadDataObject`) is dropped without an event and stays in the filter;
`refused` (history) remembers it. Aging begins with a configuration (`onConfig`), not
with the start: the call in `onGetLocalBF` that should begin it has no event and
returns at once. `aging` counts the timers that run, for every configured period
starts a chain of its own.

### Forwarding

`state` and `ready` are the manager's, `module` the pointer (`"deleted"` is one that
was not reset), `thread`, `taskQ` and `rib` the module's. The kernel thread blocks
in `quit()` (`kernel = "join"`) until the module's thread is over. The routing
information base is the number of updates it has seen. `inserts` and `reads` are
the data store's repository tasks; inserts have priority. `onConfigNone` and
`onConfigProphet` are `onConfig()` with the names it knows. `running`, `others`,
`shutdownEvent` are what this manager sees of the kernel's barriers, whose own
model is `HaggleKernel`. The module's thread sleeps in the plain `retrieve()` and may
stay there: it has no fairness.

### Contacts

Interfaces are shared objects, so they have numbers: whether one is up is a fact
about the object (`up`), and nodes, events and the interface store can refer to
different objects for the same interface. `node` is the heap of node objects,
`store` the node store, `known` whether the peer is in the node table. Events and
tasks are handled in their order. `report_interface` and `report_dead` are the
connectivity threads; `_retrieveNode` and `_insertNode` are the data store thread,
which changes the interfaces of a node that is in the node store (`createNode`).
`pending`, `delayed` and `linked` are what the forwarding manager makes of the
contacts. Whether the peer was met in an earlier life is open (`known` in `Init`).
A description has all interfaces of the peer, so `createNode` gives a node other
interface objects but no interface that it did not have; in the code it can add one
(`SQLDataStore.cpp:1518`). Node queries of other managers, which reach it as well
(lines 1733, 3245, 3310, 3717), are left out. `report_interface` and `report_dead` change
the interface store, the interface and the event queue in one step; in the code these
are three, and what is excluded is that another thread reports the same interface in
between. One connectivity thread reports an interface found and dead.

## 3. Runs

Passing runs (distinct states):

| run | instance | properties |
|---|---|---|
| `queue_watchable` (196k) | 2 producers, 2 elements, 3 inserts | mutual exclusion, signal = list, no take from empty, every element taken, refinement of `AbstractQueue` |
| `protocol` (163k) | 1 server, 1 sender with 2 requests or 1 accepted client, an interface that goes down, shutdown with timeout | one verdict per request, and it comes; the registry holds only live objects; every delete before the timeout is after a join; the kernel thread gets out of its joins; shutdown completes |
| `transfer` (627k) | 2 connections, 2 data objects (one without body), 2 sends, errors at every stage | one copy accepted, filter covers store, no mutual wait, acknowledged means received on an undisturbed connection, received is stored |
| `kernel_lifecycle` (252k) | 4 managers, one of each kind, 2 calls of `shutdown()` at any time | no missed and no null event, both barriers, states in order, startup and orderly shutdown complete |
| `datastore` (1.40M) | 1 data object, 2 descriptions of a node, 3 inputs, 2 starts, crashes | no missed task, filter and store agree, announced once, descriptions get newer, stop() completes |
| `forwarding` (125k) | 3 updates, 3 configurations, 2 starts | the module is used safely, what it learned is saved, startup and shutdown complete |
| `contacts` (540k) | 1 peer with 2 interfaces, 3 inputs | one record per interface, pending queries have their event, forwarding is told, interfaces find nodes |

What they show, property by property, is the comment over each property. The
ones a reviewer would argue about:

* `SignalMatchesList`: whenever nobody is in the critical section, the signal is
  raised exactly if the list is non-empty. Sleeping on the signal is therefore
  as good as sleeping on the list.
* `OneVerdictPerRequest`, `EveryRequestAnswered`: a send request gets exactly one
  verdict, whether the protocol sends it, dies with it in its queue, refuses it,
  is replaced, or there is no protocol for it.
* `NeverSleepsBesideEvent`, `TimeoutMeansEvent`: although the signal is lowered
  before the wait and other threads add events at any point, select() never waits
  without limit beside an event, and a timed-out wait always finds one.
* `JoinedBeforeTimeout`: before the shutdown timeout fires, every protocol is deleted
  after its thread was joined. At the timeout this is false (`protocol_timeout`).
* `StatesAdvance`, `OrderlyShutdownCompletes`: with `shutdown()` between any two
  statements of the kernel thread, managers go through their states in order and the
  shutdown ends, unless two calls pass the test together or one gets between the two
  steps of the startup (`disorder`). That the exception is needed shows `kernel_hasty`.
* `AckedWhenReceived`, `NoMutualWait`: as long as no send on a connection was given up
  half way, what becomes acknowledged was read completely and unchanged on that
  connection, and the two ends do not wait for each other over the length of the
  body, whatever else is refused, lost, broken or repeated. `transfer_error` shows
  what happens otherwise.
* `ReceivedIsStored`: a copy that was received and is no duplicate is stored, or lies in
  the task queue of a helper thread.
* `OneCopyAccepted`: two threads may accept the same data object, but only the
  copy whose INCOMING event comes first is verified and stored.
* `DataTransfer!StoredIsKnown`: replacing the filter never forgets a stored data
  object. `DataStore!StoredIsKnown` is the same for deletion, aging, shutdown and
  restart: deletions pass through the event queue, tasks are executed after the
  filter was saved, and still the restarted node's filter covers its table.
* `KnownIsHeld` is the other direction: the node refuses no data object that it
  neither has, nor gets, nor was asked to keep refusing, nor has found bad (a bad copy
  stays in the filter, so that no good one can follow). It speaks of the first
  start only, for a deletion that is under way at the shutdown leaves its trace in
  the saved filter (see below).
* `AnnouncedOnce`: applications hear of a data object once, also if the filter was
  lost in a crash and a neighbour sends it again: the table still knows it.
* `WaitIsSafe`: the thread does not sleep beside a task, nor, once it is cancelled,
  without the EXIT task being about to come.
* `StopCompletes`: whatever is queued when the thread is cancelled is executed
  before it ends, the saved filter included, though EXIT has the lowest priority
  and the cancellation and the task that wakes the thread are two steps. It says
  nothing of a thread that has read the front of an empty list.
* `ModuleIsUsedSafely`, `LearnedIsSaved`: the table of the module has one user at a
  time, and the next start finds all that was learned, though the state passes from
  the module's thread by an event to the manager, by a task to the data store, and
  back by a query and an event. `LearnedIsSaved` is about starts without a
  configuration.
* `Forwarding!StartupCompletes` and `ShutdownCompletes` except the behaviours in which the
  module's thread sleeps beside a task for ever (`SleepsForGood`), which the plain
  `retrieve()` permits: `quit()` then blocks the kernel thread for good.
* `NeighborIsTold`: a described neighbour can appear first in a NEW event, in an
  UPDATED event that replaces an undefined node, or because the data store thread
  gave a stored node other interfaces; in each case the forwarding module has heard
  of it or an event is queued that tells it. One case is excepted, for as long as it
  lasts (`ghost`): see the last list below.

### Where the code does not do what it says

Violation runs. Each checks one property that states what a comment or a
message of the repository says; TLC finds a behaviour that breaks it.

* `queue_lost_wakeup`: the second unlock of the plain `retrieve()` (line 153) lets
  an insert run inside the consumer's critical section. The consumer then waits
  without limit beside a queued element, with one producer only.
* `forwarding_config`: a module that a configuration brings is created without an
  event type (`ForwardingManager.cpp:1315`). The result of its QUIT reaches nobody,
  and the manager waits for it before it is ready for the shutdown.
* `protocol_timeout`: `isRunning()` is false for a thread that `onShutdown()` has cancelled
  and that has not ended. At the shutdown timeout such a protocol is not detached, as
  the comment says, but deleted under its thread (`ProtocolManager.cpp:267`).
* `transfer_error`: after an error in the middle of a send the connection stays open
  while the receiver still reads the body (`Protocol.cpp:1177`). The ACCEPT and the ACK of
  that data object answer for the next one, whose header went into the body; it counts
  as delivered. The messages carry the data object's id, and the sender does not look.
* `kernel_hasty`: `running` is set before STARTUP is posted (`HaggleKernel.cpp:263`). A
  `shutdown()` in between puts PREPARE_SHUTDOWN first, STARTUP resets the managers'
  states, and the kernel does not exit.

More behaviours of this kind are in the models as the code has them. They have no
configuration of their own; the constants given here, with the property as the only
one, reproduce them.

* `Contacts!BestInformation`, with `contacts.cfg`: the data store's answer about a second
  interface was given before a description was inserted and arrives after it. The
  described neighbour is replaced by an undefined node with one interface
  (`NodeManager.cpp:381`; the comment at line 331 says that the answer is awaited to have
  "the best information for the node").
* `ProtocolManager!UnregisteredOnce`, with `protocol.cfg`: `shutdown()` and
  `cleanup()` both pass the test of `isRegistered`; two delete events for one object.
* `DataTransfer!RejectMeansHeld`, with `transfer.cfg`: a data object enters the filter
  when it is accepted. If the transfer breaks it stays there; the next neighbour is
  rejected and counts the data object as delivered, and no copy exists
  (`Protocol.cpp:852`).
* `Contacts!NoQueryAfterEnd`, with `contacts.cfg`: a node can be announced by two NEW
  events, and its END event takes one entry out of `pendingQueryList`; the other
  makes a query after the node went away (comment at `ForwardingManager.cpp:832`).

Seen while modelling, without a property:

* Kernel and queues: a `shutdown()` before the kernel runs is dropped
  (`HaggleKernel.cpp:318`), while main counts it as the first interrupt; the
  "unique" insert of the send queue compares pointers of fresh elements
  (`GenericQueue.h:95`), so a data object can be queued twice for one peer;
  `registerProtocol` refuses states above RUNNING, and STOPPED, the state after
  unregistering, is below (`ProtocolManager.cpp:155`); both ends of a connection may
  start a send at once and read the other's header as an answer
  (`Protocol.cpp:1000`); a second copy that was marked duplicate is lost with the
  first one's transfer (`DataManager.cpp:476`).
* Data store: the thread takes the front of an empty list after a spurious wakeup, or
  when the only queued task was a query that was cancelled before it got the mutex
  (`DataStore.cpp:772`, `if` where a loop is needed); in the model `pc = "dead"` is reachable
  with `datastore.cfg`. A bad copy is never taken out of the filter, and the branches of
  `onVerifiedDataObject` that would do it are not reached (`SecurityManager.cpp:667` says
  why). Aging does not begin without a configuration, because
  `onAgedDataObjects(NULL)` returns at its first line (`DataManager.cpp:566`). The filter is
  saved as "Bloomfilter", and what is deleted after it
  was read is "Local Bloomfilter", so the saved filter stays, and a crash makes
  the next start begin with the filter of the last orderly shutdown; deletions
  under way, and data objects in verification, at the shutdown stay in the saved
  filter; `DataStore.cpp:866` says "Do not execute anymore tasks after this one.",
  but the thread ends only when the queue is empty; a description that is not
  newer is dropped without a callback; a deletion by reference is reported even
  if nothing was deleted; a crash between the insert and the NEW event loses the
  announcement; a configured aging period starts another chain of aging tasks.
* Forwarding: two reads are under way after a configuration took the module away
  and another brought one, and the second answer restores the state beside the
  running thread; `onPrepareShutdown` deletes a module that is not running and keeps
  the pointer (`ForwardingManager.cpp:207`). `ModuleIsUsedSafely` holds for the
  module of the start only, for these two reasons. The QUIT event of a removed
  module is lost if the shutdown completes first; a new module's read can come
  before the old one's save; an SQL error in a repository read gives no callback.
* Contacts: an answer that arrives after the interface went down adds a node
  without an interface that is up, and a late description sets an interface up
  that is gone; the DOWN event of an old interface object can take down the new
  one. A described node whose last interface was gone when the update that describes it
  was handled makes no contact (`onNodeUpdated`, `ForwardingManager.cpp:851`), stays in the
  node store, and becomes a neighbour again without an event through the interface that
  the data store gives it later. `NeighborIsTold` excepts this (`ghost`) until no described
  node is in the store.

### Bounds

All bounds are constants named in the modules. Three inserts are enough for an
insert to fall before, into and after a retrieve; two producers for one to
overtake the other. One sender with two requests reaches every state in which a
second request finds a protocol that is ending. An accepted client and a
sender do not meet in one behaviour of the run (`MaxMixed` 0), which keeps it small; the
proofs have no such bound. In
`HaggleKernel` the four managers are one of each kind of asynchrony and one with
none; two results per manager give one that arrives before and one after
readiness; two calls of `shutdown()` give the repeated and the concurrent one. In `DataTransfer` two
connections give the race for the filter, two sends a retry or a second data
object on the same connection, and a body in one piece suffices since a
connection can break before and after it. `MaxErrors` (3 in the code) is small to
reach the limit. In `DataStore` three inputs give an insertion, a deletion and a
query, timer or second copy in any order, with two starts for what a restart or a
crash makes of them, a configuration that starts the aging included; a batch of one data object (`MAX_AGED`) makes a full batch
happen. In `Forwarding` three configurations take the module away, bring one and
take that away too; three updates fall before, between and after. In `Contacts`
three inputs are both interfaces and a description, or an interface that comes
back and a description; that interfaces go down is not bounded.

Deadlock checking is off because every model stops legitimately when its bounds
are used up, the kernel has exited, or a memory error ended the behaviour; that
nothing stops early is the business of the liveness properties.

### Fairness

* `GenericQueue`: the consumer and a producer that is inside `insert()` are
  scheduled; nothing forces an insert to begin.
* `HaggleKernel`: the kernel thread is scheduled, a raised signal ends the wait,
  work handed to other threads is done; the timeout of select() has strong
  fairness, because a readable socket takes precedence over a due event in every
  round. The code does not bound this; it is listed as a hazard.
* `ProtocolManager`: threads are scheduled, and each blocking call of a protocol
  thread has a timeout (connect, 20 seconds on reads and writes, 10 seconds idle),
  so each step eventually happens.
* `DataTransfer`: the kernel thread takes the events that are queued and the data store
  the inserts. The security and the data helper sleep in the plain `retrieve()`, which can
  miss its last wakeup, so no fairness is assumed of them, and the ends of a connection
  need none.
* `DataStore`: the thread is scheduled when it has been woken (never spuriously), and the kernel thread gets through
  `stop()`; no input, event or shutdown is forced.
* `Forwarding`: the kernel thread and the data store's are scheduled, the module's, which
  sleeps in the plain `retrieve()`, is not assumed to be,
  and the other managers become ready, which `HaggleKernel` shows of them;
  contacts, configurations, shutdown and restart need not come.
* `Contacts`: the kernel thread, the data store thread and the kernel's timers run.
  Interfaces and descriptions need not come.

## 4. Proofs

All for arbitrary constants that satisfy the ASSUME of the module.

`GenericQueueProofs`. `TypeCorrect` holds for both overloads. For the watchable
overload, `Exclusion`, `SignalIsExact`, `TakesOnlyElements` and `Refinement`. The
inductive invariant `IInv` adds to the types: a thread is in its critical section
exactly if it owns the mutex (`LockOwner`); a raised signal means an element
unless the consumer is about to lower it, and an element means a raised signal
unless a producer is about to raise it; between seeing the signal and taking,
the element stays, for there is one consumer (`TakesAnElement`); and what
`insert()` tested still holds when it pushes (`CheckStillHolds`). The last is what
the refinement needs: the abstract insert is the push, the abstract retrieve is
the take, everything else stutters. For the plain overload `LockOwner` is false,
and `queue_lost_wakeup` shows what follows from that.

`HaggleKernelProofs`. `NoNullEvent` and `NoMissedEvent` rest on the fact that only
the kernel thread removes events, while others only add them and raise the
signal. `StartupIsABarrier` and `ShutdownIsABarrier` need strengthenings: the
barriers as checked speak of the managers' states, but a state changes because of
an event that was queued, or a result that is still to come; `StartupInv` and
`ShutdownInv` say of every trace of being past a barrier (queued event, event in
hand, pending work, shutdown flag, a manager that left) that all managers had
signalled. `IInv` is the conjunction, proved action by action in lemmas that
share what adding and taking an event do to the queue (`QueuedAfterAdd`,
`QueuedAfterTake`). `StatesInOrder` is about the order of steps, so its invariant
`PhaseInv` follows a life of the kernel through ten phases, from the queued
PREPARE_STARTUP to managers that have all left. Each phase says which public events
exist, in which state the managers are that have had the one in hand, and in which
those that wait for it; one lemma per phase shows where a step can lead. Two facts
matter: a manager signals readiness for startup once (`SignalsOnce`: it is not ready
while it is to be told, works, or its result is queued), so STARTUP is posted once and
finds everybody in PREPARE_STARTUP; and after the shutdown event nobody is in
PREPARE_SHUTDOWN, so that a late result enables no second one. Calls of `shutdown()`
come in between at any point; `EntryInv` says of one that has passed the test that
nothing was posted before it, and `PhaseInv` is `disorder` or a phase.

`ProtocolManagerProofs`. For any protocols, peers, data objects and bounds.
`RegistryLive`: a protocol can be named by an ADD event, be in the registry, be
condemned (the handler has a `delete` or `kill` of it to do) or be detached. `RegistryInv`
says that who is registered or announced is neither of the last two, and is announced
once; the handlers take a protocol out of the registry before they put its deletion on
their list. `JoinInv` says that a deletion is preceded by the join of the same protocol,
or its thread is gone, and gives `JoinedBeforeDelete`: until the shutdown timeout
fires, nothing is deleted under its thread. Afterwards it is false (`protocol_timeout`).
`OneVerdict` counts. A request is in an event, on the handler's list, in a queue or in a thread's hands, or it has its verdict; the counts are
cardinalities of sets of positions and protocols. `FirstTaken`, `LastAdded` and
`HeldChanges` say how each count changes when something is taken, added, or moved in one
protocol, and each action moves one request from one summand to another. The sets are
finite as part of the invariant (`VerdictInv`), not by an assumption: only what was
created is in them.

`DataTransferProofs`. `OneCopy` and `StoredKnown` rest on `CopyInv`. A copy is a winner
if its INCOMING event was handled without marking it as duplicate; the invariant says
that there is one winner per data object, that the data manager's filter has it, that a
RECEIVED event stands behind the INCOMING event of its copy, and that copies past the
duplicate test are winners. `AckReceived` needs what both ends of a connection and the
two directions between them look like at every moment: `LinkInv` is a disjunction of ten
phases (resting, offered, deciding, ..., streaming, confirmed), each with the exact
content of `back` and what `fwd` can hold. The point is `InSync`: what the receiver still
expects is what is on its way and what the sender has left to write; `BodiesMeet` is a
consequence. The invariant is claimed of connections that are not `disturbed`, with
errors possible at every stage of every send: one before the header is written leaves the
connection in phase, any other disturbs it until it is made anew.

`DataStoreProofs`. `TypeCorrect` needs to know of every queued task that its
argument is what its type wants (`GoodTasks`), for an execution uses it as such.
`SortedQueue`: insertion puts a task before the first one it precedes
(`PlaceFound`, by the least natural number of a set), which keeps the list sorted
since `Before` is a strict order (`InsertSorted`), and a cancellation keeps a part of
the list in its order (`CancelKeepsOrder`); the clock plays no role, for the
comparison is between what is stored in the tasks. `WaitSafe` needs `WaitInv`: the
thread is cancelled only inside `stop()`. Every step that submits does the same thing to
queue and thread (`Submitted`), so the cases are few. `OneDescription` and
`NewerDescriptions` follow from the three things a step can do to the table
(`StoredStep`). `OneAnnouncement`: in the sequence of what was announced and what is
queued, a reported deletion lies between any two announcements of a data object, and
after the last one if it is not stored (`Alternate`). For the filter, `StartInv` describes
the start: until the saved filter has been read nothing else is asked for, also no
aging. `KnownHeld`
then follows task by task. `StoredKnown` needs the stages of a data object: it is
being verified, queued for insertion, being inserted, stored, or its deletion is
reported; it is in one place only, and while it is in one it is in the filter
(`PlaceInv`). `SaveInv` carries this over a restart: the filter is saved once, after its
last change, and no queued task holds an older one.

`ForwardingProofs`. `UsedSafely` holds for any number of contacts, configurations
and starts. Three facts carry it. `ThreadInv`: the thread is over, or has QUIT in its
queue, only while the kernel thread is inside `quit()`, and then the module is still
there. `ReadyInv`: a shutdown is queued only after this manager was ready for
startup. `OnceInv`, for the module of the start: the repository is read once, its
answer comes while there is no thread, and the manager is ready only when the thread
runs; so the shutdown finds the module running and never leaves a deleted one set.
For a module that a configuration brings `OnceInv` is false, and the theorem claims
`ThreadHasModule` only. `LearnedSaved` follows a start through six phases (`Waiting`
for the saved state, `Working`, `Quitted`, `Handed` to the manager, `Saving`, `Ended`), each
with the place where the updates are. `Leads` says that the tasks in the queue lead from
the table to what was learned, by a function that gives the table before each of them, so
no induction over the queue is needed.

`ContactsProofs`. `OneRecord` and `PendingTimed` hold for every finite set of
interfaces. The model has a heap: events and tasks carry references to node objects
and interface objects that another thread may change. The invariant says that the
heap only grows, that every reference is to an object in it (`Refs`), and that a node
that was described has all interfaces of the peer, so the data store thread, when it
changes such an object in place (`createNode`), changes no set of interfaces and
cannot make two records overlap. `OneRecordPerInterface` is then preserved because
`NodeStore::update` removes all records that overlap with the new one.
`PendingHasTimer` is the count of pending entries being at most that of delayed
events, which every handler keeps. `TypeCorrect` is about the same invariant.
`NeighborTold` needs `ToldInv`, which speaks of every described node in the store rather
than of neighbours, and of the order in the event queue: the module has the contact and no
END event of a described node is queued, or an event that tells it is queued and no such
END event behind it, or an answer of the data store is to come, or it is a `ghost`; that
ends in the two handlers that take nodes out of the store.

Only model-checked is liveness: the prover has no rules for fairness or ENABLED. So
stay with TLC `EveryElementTaken`, `EveryRequestAnswered`, `KernelResumes`,
`ReceivedIsStored`, `StopCompletes`, `InterfaceFindsNode`, `OrderlyShutdownCompletes`, and
`StartupCompletes` and `ShutdownCompletes` in all modules that have them. Every invariant
and every action property of a passing run is proved;
`MutualExclusion`, `SignalMatchesList`, `NeverTakesFromEmpty` and the refinement for the
watchable overload, for they are false for the plain one.

## 5. Not modelled, and why

SQL, XML, cryptography, netlink/HCI and the platform back ends are libraries or
I/O; the models use what they report. About nine tenths of the lines of the
repository are the vendored sources of SQLite, libxml2 and OpenSSL under
`src/extlibs`, which are no part of the design. Choice of interface and protocol
type, logging, the Windows branches, UDP and media protocols, libhaggle and the
applications are left out. Within the modelled parts:

* `DataStore`: filters and the results of queries, data objects that are not
  persistent, SQL errors. Of the configuration only the start of the aging is there,
  and only while the node runs. The reset of the filter by a configured error rate or
  capacity (`DataManager.cpp:649-658`) is left out: it empties the filter beside a full
  table, and `StoredIsKnown` is then false.
* `Forwarding`: the arithmetic of the metrics (floating point), delegates and
  targets, the configuration task of the module.
* `Contacts`: sending of the own description and its retries, application and
  gateway nodes, the periodic query, blacklists, the known-interface cache, local
  interfaces as parents (that one goes is a reason for `report_dead`), more than one
  peer. A third party's description takes the path with a data store insert.
* `Bloomfilter`: filters are sets. What hashing adds are false positives, and the
  16-bit bins of the counting filter can wrap; neither is modelled.
* `ApplicationManager`: its shutdown handshake is the asynchronous manager of
  `HaggleKernel`, its deletions are calls of `DataStore`; event interests are not
  modelled.

## 6. Plan

1. The step-by-step half of liveness: that the measure each liveness argument uses
   never grows (requests without a verdict, tasks before EXIT).
2. `Forwarding` shown to implement the asynchronous manager of `HaggleKernel`.
3. `DataTransfer` extended by both ends sending at once.
4. Counting filter and event heap as operators against the set and the sorted
   list they stand for.
