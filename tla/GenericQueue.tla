---------------------------- MODULE GenericQueue ----------------------------
(***************************************************************************)
(* The thread-safe queue of libcpphaggle (GenericQueue.h), over which the   *)
(* kernel hands data objects and tasks to worker threads.  A list is        *)
(* guarded by a mutex; a Signal (a flag backed by a pipe, so that select()  *)
(* can wait for it) says that the list holds something.                     *)
(*                                                                          *)
(* Any number of threads insert; one thread retrieves.  retrieve() has two  *)
(* overloads: "plain" waits for the signal alone, "watchable" for the       *)
(* signal and for one more object, the protocol's socket.  Every step that  *)
(* another thread can observe (lock, test, list operation, signal           *)
(* operation, unlock) is an action.  The mutex is a default POSIX mutex:    *)
(* an unlock frees it whoever holds it.                                     *)
(*                                                                          *)
(* List and signal operations are taken as atomic.  Two threads can be in   *)
(* the critical section at once after the unlock of line 153, and then      *)
(* the real list operations race as well.                                   *)
(***************************************************************************)
EXTENDS Naturals, Sequences

CONSTANTS
    Producers,   \* the threads that insert
    Consumer,    \* the thread that retrieves
    Elements,    \* the values that are inserted
    Garbage,     \* no element: the argument of a producer that has none
    NoThread,    \* the owner of a free mutex
    Overload,    \* which retrieve() the consumer calls
    Timeouts,    \* the timeouts it passes: "zero", "finite", "none" (NULL)
    MaxInserts   \* bound on the number of insert() calls

Threads == Producers \cup {Consumer}

ASSUME ConstantsAssumption ==
    /\ Consumer \notin Producers
    /\ NoThread \notin Threads
    /\ Garbage \notin Elements
    /\ Overload \in {"plain", "watchable"}
    /\ Timeouts \subseteq {"zero", "finite", "none"}
    /\ MaxInserts \in Nat

VARIABLES
    lst,       \* the List<T>
    raised,    \* Signal::raised
    isClosed,  \* no more inserts are allowed
    mutex,     \* the owner of the queue's mutex
    pc,        \* where each thread is
    arg,       \* the element and the unique flag of each producer's insert()
    timeout,   \* the consumer's timeout argument
    result,    \* the consumer's last QueueEvent_t
    exit,      \* the exit signal of the consumer's thread
    calls,     \* number of insert() calls so far
    accepted,  \* history: what was pushed, in order
    taken      \* history: the elements retrieve() handed out, in order

vars == <<lst, raised, isClosed, mutex, pc, arg, timeout, result, exit,
          calls, accepted, taken>>

Results == {"none", "QUEUE_WATCH_ERROR", "QUEUE_ERROR", "QUEUE_TIMEOUT",
            "QUEUE_EMPTY", "QUEUE_WATCH_READ", "QUEUE_WATCH_WRITE",
            "QUEUE_WATCH_ABANDONED", "QUEUE_ELEMENT"}

ProducerLocations == {"idle", "lock", "check", "push", "raise", "unlock"}

ConsumerLocations ==
    {"idle", "checkLock", "check", "strayUnlock", "wait",
     "takeLock", "take", "lower", "unlock", "stopped"}

(* The locations at which a thread is inside a critical section.            *)
ProducerCritical == {"check", "push", "raise", "unlock"}
ConsumerCritical == {"check", "take", "lower", "unlock"}

Critical(t) ==
    pc[t] \in (IF t = Consumer THEN ConsumerCritical ELSE ProducerCritical)

(* A producer that is not inside insert() has no arguments.                 *)
NoCall == <<Garbage, FALSE>>

Init ==
    /\ lst = <<>>
    /\ raised = FALSE
    /\ isClosed = FALSE
    /\ mutex = NoThread
    /\ pc = [t \in Threads |-> "idle"]
    /\ arg = [p \in Producers |-> NoCall]
    /\ timeout = "none"
    /\ result = "none"
    /\ exit = FALSE
    /\ calls = 0
    /\ accepted = <<>>
    /\ taken = <<>>

(***************************************************************************)
(* Mutex and Signal                                                         *)
(***************************************************************************)
Lock(t) == mutex = NoThread /\ mutex' = t

(* pthread_mutex_unlock of a default mutex does not look at the owner.      *)
Unlock == mutex' = NoThread

Goto(t, from, to) == pc[t] = from /\ pc' = [pc EXCEPT ![t] = to]

Raise == raised' = TRUE

Lower == raised' = FALSE

-----------------------------------------------------------------------------
(***************************************************************************)
(* insert(qe, unique)                                                       *)
(***************************************************************************)
InsertCall(p) ==
    /\ Goto(p, "idle", "lock")
    /\ calls < MaxInserts
    /\ calls' = calls + 1
    /\ \E e \in Elements, unique \in BOOLEAN :
           arg' = [arg EXCEPT ![p] = <<e, unique>>]
    /\ UNCHANGED <<lst, raised, isClosed, mutex, timeout, result, exit,
                   accepted, taken>>

InsertLock(p) ==
    /\ Goto(p, "lock", "check")
    /\ Lock(p)
    /\ UNCHANGED <<lst, raised, isClosed, arg, timeout, result, exit, calls,
                   accepted, taken>>

(* Seeded fault: the test of isClosed is missing.                           *)
RefusedUnlessOpen(p) ==
    arg[p][2] /\ \E i \in 1..Len(lst) : lst[i] = arg[p][1]

(* A closed queue, or a duplicate of a unique insert, is refused.           *)
Refused(p) ==
    \/ isClosed
    \/ arg[p][2] /\ \E i \in 1..Len(lst) : lst[i] = arg[p][1]

(* Seeded fault: the early return keeps the caller inside insert().         *)
InsertRefuseStays(p) ==
    /\ Goto(p, "check", "push")
    /\ Refused(p)
    /\ Unlock
    /\ arg' = [arg EXCEPT ![p] = NoCall]
    /\ UNCHANGED <<lst, raised, isClosed, timeout, result, exit, calls,
                   accepted, taken>>

InsertRefuse(p) ==
    /\ Goto(p, "check", "idle")
    /\ Refused(p)
    /\ Unlock
    /\ arg' = [arg EXCEPT ![p] = NoCall]
    /\ UNCHANGED <<lst, raised, isClosed, timeout, result, exit, calls,
                   accepted, taken>>

InsertAdmit(p) ==
    /\ Goto(p, "check", "push")
    /\ ~Refused(p)
    /\ UNCHANGED <<lst, raised, isClosed, mutex, arg, timeout, result, exit,
                   calls, accepted, taken>>

InsertPush(p) ==
    /\ Goto(p, "push", "raise")
    /\ lst' = Append(lst, arg[p][1])
    /\ accepted' = Append(accepted, arg[p][1])
    /\ UNCHANGED <<raised, isClosed, mutex, arg, timeout, result, exit, calls,
                   taken>>

(* Seeded fault: insert() does not raise the signal.                        *)
InsertNoRaise(p) ==
    /\ Goto(p, "raise", "unlock")
    /\ UNCHANGED <<lst, raised, isClosed, mutex, arg, timeout, result, exit,
                   calls, accepted, taken>>

InsertRaise(p) ==
    /\ Goto(p, "raise", "unlock")
    /\ IF raised THEN UNCHANGED raised ELSE Raise
    /\ UNCHANGED <<lst, isClosed, mutex, arg, timeout, result, exit, calls,
                   accepted, taken>>

InsertReturn(p) ==
    /\ Goto(p, "unlock", "idle")
    /\ Unlock
    /\ arg' = [arg EXCEPT ![p] = NoCall]
    /\ UNCHANGED <<lst, raised, isClosed, timeout, result, exit, calls,
                   accepted, taken>>

-----------------------------------------------------------------------------
(***************************************************************************)
(* close(): sets the flag without the lock and wakes nobody.                *)
(***************************************************************************)
Close ==
    /\ ~isClosed
    /\ isClosed' = TRUE
    /\ UNCHANGED <<lst, raised, mutex, pc, arg, timeout, result, exit, calls,
                   accepted, taken>>

(* Thread::cancel raises the exit signal that every Watch of the thread     *)
(* also waits for.                                                          *)
Cancel ==
    /\ ~exit
    /\ exit' = TRUE
    /\ UNCHANGED <<lst, raised, isClosed, mutex, pc, arg, timeout, result,
                   calls, accepted, taken>>

-----------------------------------------------------------------------------
(***************************************************************************)
(* retrieve(qe, timeout) and retrieve(qe, wbl, timeout)                     *)
(***************************************************************************)
RetrieveCall ==
    /\ Goto(Consumer, "idle", IF raised THEN "takeLock" ELSE "checkLock")
    /\ timeout' \in Timeouts
    /\ result' = "none"
    /\ UNCHANGED <<lst, raised, isClosed, mutex, arg, exit, calls,
                   accepted, taken>>

RetrieveCheckLock ==
    /\ Goto(Consumer, "checkLock", "check")
    /\ Lock(Consumer)
    /\ UNCHANGED <<lst, raised, isClosed, arg, timeout, result, exit, calls,
                   accepted, taken>>

RetrieveEmpty ==
    /\ Goto(Consumer, "check", "idle")
    /\ lst = <<>> /\ timeout = "zero"
    /\ Unlock
    /\ result' = "QUEUE_EMPTY"
    /\ UNCHANGED <<lst, raised, isClosed, arg, timeout, exit, calls,
                   accepted, taken>>

RetrieveMustWait ==
    /\ Goto(Consumer, "check",
            IF Overload = "plain" THEN "strayUnlock" ELSE "wait")
    /\ ~(lst = <<>> /\ timeout = "zero")
    /\ Unlock
    /\ UNCHANGED <<lst, raised, isClosed, arg, timeout, result, exit, calls,
                   accepted, taken>>

(* Line 153: a second unlock of a mutex this thread no longer holds.        *)
RetrieveStrayUnlock ==
    /\ Goto(Consumer, "strayUnlock", "wait")
    /\ Unlock
    /\ UNCHANGED <<lst, raised, isClosed, arg, timeout, result, exit, calls,
                   accepted, taken>>

(* Watch::wait returned without the signal being the reason: select failed, *)
(* the time is over, the thread's exit signal is set, or (watchable) the    *)
(* socket is ready, in which case the signal may be set as well; or nothing *)
(* is set at all.                                                           *)
WaitOutcomes ==
    {"QUEUE_WATCH_ERROR"}
    \cup (IF timeout # "none" THEN {"QUEUE_TIMEOUT"} ELSE {})
    \cup (IF exit THEN {"QUEUE_WATCH_ABANDONED"} ELSE {})
    \cup (IF Overload = "watchable"
          THEN {"QUEUE_WATCH_READ", "QUEUE_WATCH_WRITE"} ELSE {})
    \cup (IF Overload = "watchable" /\ ~raised THEN {"QUEUE_ERROR"} ELSE {})

RetrieveGiveUp ==
    /\ Goto(Consumer, "wait", "idle")
    /\ result' \in WaitOutcomes
    /\ UNCHANGED <<lst, raised, isClosed, mutex, arg, timeout, exit, calls,
                   accepted, taken>>

(* Seeded fault: a wakeup without the signal is taken for the signal.       *)
RetrieveWokenSpuriously ==
    /\ Goto(Consumer, "wait", "takeLock")
    /\ ~exit
    /\ UNCHANGED <<lst, raised, isClosed, mutex, arg, timeout, result, exit,
                   calls, accepted, taken>>

(* The signal is set and neither the exit signal nor the socket took        *)
(* precedence.                                                              *)
RetrieveWoken ==
    /\ Goto(Consumer, "wait", "takeLock")
    /\ raised /\ ~exit
    /\ UNCHANGED <<lst, raised, isClosed, mutex, arg, timeout, result, exit,
                   calls, accepted, taken>>

(* Seeded fault: the list is used without the lock once the signal was seen. *)
RetrieveTakeUnlocked ==
    /\ Goto(Consumer, "takeLock", "take")
    /\ UNCHANGED <<lst, raised, isClosed, mutex, arg, timeout, result, exit,
                   calls, accepted, taken>>

RetrieveTakeLock ==
    /\ Goto(Consumer, "takeLock", "take")
    /\ Lock(Consumer)
    /\ UNCHANGED <<lst, raised, isClosed, arg, timeout, result, exit, calls,
                   accepted, taken>>

(* front(), pop_front() and the test for an empty list.  pop_front() of an  *)
(* empty List does nothing and front() yields an uninitialised value, which *)
(* is no element that was inserted.                                         *)
RetrieveTake ==
    /\ LET rest == IF lst = <<>> THEN <<>> ELSE Tail(lst) IN
        /\ Goto(Consumer, "take", IF rest = <<>> THEN "lower" ELSE "unlock")
        /\ lst' = rest
    /\ taken' = IF lst = <<>> THEN taken ELSE Append(taken, Head(lst))
    /\ UNCHANGED <<raised, isClosed, mutex, arg, timeout, result, exit, calls,
                   accepted>>

(* Seeded fault: the signal stays raised when the list became empty.        *)
RetrieveNoLower ==
    /\ Goto(Consumer, "lower", "unlock")
    /\ UNCHANGED <<lst, raised, isClosed, mutex, arg, timeout, result, exit,
                   calls, accepted, taken>>

RetrieveLower ==
    /\ Goto(Consumer, "lower", "unlock")
    /\ Lower
    /\ UNCHANGED <<lst, isClosed, mutex, arg, timeout, result, exit, calls,
                   accepted, taken>>

RetrieveReturn ==
    /\ Goto(Consumer, "unlock", "idle")
    /\ Unlock
    /\ result' = "QUEUE_ELEMENT"
    /\ UNCHANGED <<lst, raised, isClosed, arg, timeout, exit, calls,
                   accepted, taken>>

(* The worker's loop ends when its thread was cancelled.                    *)
ConsumerStop ==
    /\ Goto(Consumer, "idle", "stopped")
    /\ exit
    /\ UNCHANGED <<lst, raised, isClosed, mutex, arg, timeout, result, exit,
                   calls, accepted, taken>>

-----------------------------------------------------------------------------
Insert(p) ==
    \/ InsertCall(p)
    \/ InsertLock(p)
    \/ InsertRefuse(p)
    \/ InsertAdmit(p)
    \/ InsertPush(p)
    \/ InsertRaise(p)
    \/ InsertReturn(p)

Retrieve ==
    \/ RetrieveCall
    \/ RetrieveCheckLock
    \/ RetrieveEmpty
    \/ RetrieveMustWait
    \/ RetrieveGiveUp
    \/ RetrieveWoken
    \/ RetrieveTakeLock
    \/ RetrieveTake
    \/ RetrieveLower
    \/ RetrieveReturn
    \/ ConsumerStop

Next ==
    \/ \E p \in Producers : Insert(p)
    \/ Retrieve
    \/ Close
    \/ Cancel

Spec == Init /\ [][Next]_vars

(* A consumer that calls the plain overload has the second unlock as well.  *)
PlainNext == Next \/ RetrieveStrayUnlock

PlainSpec == Init /\ [][PlainNext]_vars

(* Threads are scheduled by the operating system: the worker keeps running  *)
(* and a thread inside insert() gets out of it.                             *)
FairSpec ==
    /\ Spec
    /\ WF_vars(Retrieve)
    /\ \A p \in Producers : WF_vars(Insert(p) /\ pc[p] # "idle")

-----------------------------------------------------------------------------
TypeOK ==
    /\ lst \in Seq(Elements)
    /\ raised \in BOOLEAN
    /\ isClosed \in BOOLEAN
    /\ mutex \in Threads \cup {NoThread}
    /\ pc \in [Threads -> ProducerLocations \cup ConsumerLocations]
    /\ pc[Consumer] \in ConsumerLocations
    /\ \A p \in Producers : pc[p] \in ProducerLocations
    /\ arg \in [Producers -> (Elements \cup {Garbage}) \X BOOLEAN]
    /\ \A p \in Producers : pc[p] # "idle" => arg[p][1] \in Elements
    /\ timeout \in Timeouts \cup {"none"}
    /\ result \in Results
    /\ exit \in BOOLEAN
    /\ calls \in 0..MaxInserts
    /\ accepted \in Seq(Elements)
    /\ taken \in Seq(Elements)

(* The two sides never hold the lock at the same time (the reason the queue *)
(* has a mutex).                                                            *)
MutualExclusion ==
    \A t, u \in Threads : Critical(t) /\ Critical(u) => t = u

(* While nobody holds the lock the signal says exactly whether the list has *)
(* an element: this is what makes "raised" a safe reason to take one and    *)
(* "not raised" a safe reason to sleep.                                     *)
SignalMatchesList ==
    mutex = NoThread => (raised <=> lst # <<>>)

(* retrieve() never takes from an empty list (front() would yield an        *)
(* uninitialised value).                                                    *)
NeverTakesFromEmpty ==
    pc[Consumer] = "take" => lst # <<>>

(* "A NULL Timeval waits until a queue element is available"                *)
(* (GenericQueue.h:130): with one retrieving thread and no insert under     *)
(* way, the retrieving thread is not asleep beside an element.              *)
NoSleepBesideElement ==
    /\ pc[Consumer] = "wait"
    /\ \A p \in Producers : pc[p] = "idle"
    => (raised \/ lst = <<>>)

(* Every element that was inserted is handed out in the end, also when the  *)
(* socket keeps the worker busy, unless the worker is cancelled.            *)
EveryElementTaken ==
    \A n \in 1..MaxInserts :
        (Len(accepted) >= n) ~> (Len(taken) >= n \/ exit)

-----------------------------------------------------------------------------
(***************************************************************************)
(* The queue implements the abstract queue AbstractQueue: an insert in      *)
(* progress is between its check and its push.                              *)
(***************************************************************************)
Abstract == INSTANCE AbstractQueue WITH
    items   <- lst,
    closed  <- isClosed,
    pending <- [p \in Producers |->
                   IF pc[p] = "push" THEN <<arg[p]>> ELSE <<>>],
    out     <- taken

ImplementsAbstractQueue == Abstract!Spec
=============================================================================
