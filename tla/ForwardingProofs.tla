-------------------------- MODULE ForwardingProofs --------------------------
(***************************************************************************)
(* Proofs about Forwarding, for any number of contacts, configurations and  *)
(* starts of the process.                                                   *)
(***************************************************************************)
EXTENDS Forwarding, SequenceTheorems, TLAPS

Tasks == {"update", "GENERATE_ROUTING_INFO", "QUIT"}
EventSet == [type : EventTypes, value : Nat]

(* Whether an event of this type, or the task QUIT, is queued.              *)
Queued(q, type) == \E i \in 1..Len(q) : q[i].type = type
Quitting(q) == \E i \in 1..Len(q) : q[i] = "QUIT"

(* At most one answer of the repository is queued.                          *)
OneAnswer(q) ==
    \A i, j \in 1..Len(q) :
        q[i].type = "repository" /\ q[j].type = "repository" => i = j

(***************************************************************************)
(* The inductive invariant                                                  *)
(***************************************************************************)

(* The thread works for the module the manager has; it is over, or told to  *)
(* quit, only while the kernel thread waits for it.                         *)
ThreadInv ==
    /\ ThreadHasModule
    /\ thread = "over" => kernel = "join"
    /\ kernel = "join" => module = "set" /\ state \notin {"down", "gone"}
    /\ Quitting(taskQ) => kernel = "join"

(* There is no shutdown before this manager was ready for startup.          *)
ReadyInv ==
    /\ running => "startup" \in ready
    /\ shutdownCalled => "startup" \in ready
    /\ Queued(events, "PREPARE_SHUTDOWN") => shutdownCalled

(* For the module of the start the saved state is asked for once, it comes  *)
(* before the thread runs, and then the manager is ready: so the thread     *)
(* runs when the shutdown comes.                                            *)
OnceInv ==
    eventType = "module" =>
        /\ raced = FALSE /\ dangled = FALSE /\ module # "deleted"
        /\ state = "stopped" => reads = 0 /\ thread = "none"
        /\ thread # "none" => reads = 0
        /\ reads \in 0..1
        /\ Queued(events, "repository") =>
              reads = 0 /\ state # "stopped" /\ thread = "none"
        /\ OneAnswer(events)
        /\ "startup" \in ready /\ module = "set" => thread # "none"

IInv == TypeOK /\ ThreadInv /\ ReadyInv /\ OnceInv

-----------------------------------------------------------------------------
(***************************************************************************)
(* Event lists and task lists                                               *)
(***************************************************************************)
LEMMA EmptyQueue ==
    /\ \A type : ~Queued(<<>>, type)
    /\ OneAnswer(<<>>) /\ ~Quitting(<<>>)
    /\ <<>> \in Seq(EventSet) /\ <<>> \in Seq(Tasks) /\ <<>> \in Seq(Nat)
BY DEF Queued, OneAnswer, Quitting

LEMMA AnEvent ==
    ASSUME NEW type \in EventTypes, NEW value \in Nat
    PROVE  Event(type, value) \in EventSet /\ Event(type, value).type = type
BY DEF Event, EventSet

(* Taking the first event leaves no new type, and no second answer.         *)
LEMMA EventTaken ==
    ASSUME NEW q \in Seq(EventSet), q # <<>>
    PROVE  /\ Tail(q) \in Seq(EventSet) /\ Head(q) \in EventSet
           /\ Head(q).value \in Nat
           /\ \A type : Queued(Tail(q), type) => Queued(q, type)
           /\ Queued(q, Head(q).type)
           /\ OneAnswer(q) => OneAnswer(Tail(q))
           /\ OneAnswer(q) /\ Head(q).type = "repository"
                 => ~Queued(Tail(q), "repository")
<1>1. /\ Head(q) = q[1] /\ Head(q) \in EventSet
      /\ Tail(q) \in Seq(EventSet) /\ Len(Tail(q)) = Len(q) - 1
      /\ Len(q) \in Nat /\ Len(q) > 0
      /\ \A i \in 1..Len(Tail(q)) :
            i + 1 \in 1..Len(q) /\ Tail(q)[i] = q[i + 1]
  OBVIOUS
<1>2. 1 \in 1..Len(q)
  BY <1>1
<1>3. \A type : Queued(Tail(q), type) => Queued(q, type)
  BY <1>1 DEF Queued
<1>4. Queued(q, Head(q).type)
  BY <1>1, <1>2 DEF Queued
<1>5. OneAnswer(q) => OneAnswer(Tail(q))
  BY <1>1 DEF OneAnswer
<1>6. OneAnswer(q) /\ Head(q).type = "repository"
          => ~Queued(Tail(q), "repository")
  BY <1>1, <1>2 DEF OneAnswer, Queued
<1>7. Head(q).value \in Nat
  BY <1>1 DEF EventSet
<1> QED
  BY <1>1, <1>3, <1>4, <1>5, <1>6, <1>7

(* Adding an event adds its type; an answer stays the only one if there was *)
(* none.                                                                    *)
LEMMA EventAdded ==
    ASSUME NEW q \in Seq(EventSet), NEW t \in EventTypes, NEW v \in Nat
    PROVE  /\ Append(q, Event(t, v)) \in Seq(EventSet)
           /\ \A type : Queued(Append(q, Event(t, v)), type)
                            => Queued(q, type) \/ type = t
           /\ OneAnswer(q) /\ (t = "repository" => ~Queued(q, "repository"))
                 => OneAnswer(Append(q, Event(t, v)))
<1> DEFINE e == Event(t, v)
<1>1. e \in EventSet /\ e.type = t
  BY AnEvent
<1> HIDE DEF e
<1>2. /\ Append(q, e) \in Seq(EventSet) /\ Len(Append(q, e)) = Len(q) + 1
      /\ Len(q) \in Nat
      /\ \A i \in 1..Len(q) : Append(q, e)[i] = q[i]
      /\ Append(q, e)[Len(q) + 1] = e
  BY <1>1
<1>3. \A i \in 1..Len(Append(q, e)) : i \in 1..Len(q) \/ i = Len(q) + 1
  BY <1>2
<1>4. \A type : Queued(Append(q, e), type) => Queued(q, type) \/ type = t
  BY <1>1, <1>2, <1>3 DEF Queued
<1>5. ASSUME OneAnswer(q), t = "repository" => ~Queued(q, "repository")
      PROVE  OneAnswer(Append(q, e))
  BY <1>1, <1>2, <1>3, <1>5 DEF OneAnswer, Queued
<1> QED
  BY <1>2, <1>4, <1>5 DEF e

LEMMA TaskTaken ==
    ASSUME NEW q \in Seq(Tasks), q # <<>>
    PROVE  /\ Tail(q) \in Seq(Tasks)
           /\ Quitting(Tail(q)) => Quitting(q)
           /\ Head(q) = "QUIT" => Quitting(q)
<1>1. /\ Head(q) = q[1] /\ 1 \in 1..Len(q)
      /\ Tail(q) \in Seq(Tasks)
      /\ \A i \in 1..Len(Tail(q)) :
            i + 1 \in 1..Len(q) /\ Tail(q)[i] = q[i + 1]
  OBVIOUS
<1> QED
  BY <1>1 DEF Quitting

LEMMA TasksAdded ==
    ASSUME NEW q \in Seq(Tasks), NEW l \in Seq(Tasks)
    PROVE  /\ q \o l \in Seq(Tasks)
           /\ Quitting(q \o l) => Quitting(q) \/ Quitting(l)
<1>1. /\ q \o l \in Seq(Tasks) /\ Len(q \o l) = Len(q) + Len(l)
      /\ Len(q) \in Nat /\ Len(l) \in Nat
      /\ \A i \in 1..Len(q) : (q \o l)[i] = q[i]
  OBVIOUS
<1>2. ASSUME NEW i \in 1..Len(q \o l), i \notin 1..Len(q)
      PROVE  i - Len(q) \in 1..Len(l) /\ (q \o l)[i] = l[i - Len(q)]
  BY <1>1, <1>2
<1> QED
  BY <1>1, <1>2 DEF Quitting

LEMMA QuitAdded ==
    ASSUME NEW q \in Seq(Tasks)
    PROVE  Append(q, "QUIT") \in Seq(Tasks)
BY DEF Tasks

LEMMA NumberAdded ==
    ASSUME NEW q \in Seq(Nat), NEW v \in Nat
    PROVE  Append(q, v) \in Seq(Nat)
OBVIOUS

LEMMA NumberTaken ==
    ASSUME NEW q \in Seq(Nat), q # <<>>
    PROVE  Head(q) \in Nat /\ Tail(q) \in Seq(Nat)
OBVIOUS

(* The types of the queues, by the names used here.                         *)
LEMMA QueueTypes ==
    ASSUME TypeOK
    PROVE  events \in Seq(EventSet) /\ taskQ \in Seq(Tasks)
BY DEF TypeOK, EventSet, Tasks

-----------------------------------------------------------------------------
(***************************************************************************)
(* The beginning, and one lemma per action                                  *)
(***************************************************************************)
USE DEF managerVars, threadVars, kernelVars, storeVars, counters, history,
        vars

LEMMA Initially ==
    ASSUME Init
    PROVE  IInv
<1> USE DEF Init
<1>0. /\ events \in Seq(EventSet) /\ taskQ \in Seq(Tasks)
      /\ inserts \in Seq(Nat)
  BY EmptyQueue
<1>1. TypeOK
  <2>1. starts \in 1..MaxStarts /\ updates \in 0..MaxUpdates
        /\ configs \in 0..MaxConfigs
    BY ForwardingConstants
  <2> QED
    BY <1>0, <2>1 DEF TypeOK, States, EventSet, Tasks
<1>2. ThreadInv
  BY EmptyQueue DEF ThreadInv, ThreadHasModule
<1>3. ReadyInv /\ OnceInv
  BY EmptyQueue DEF ReadyInv, OnceInv
<1> QED
  BY <1>1, <1>2, <1>3 DEF IInv

LEMMA OnPrepareStartup ==
    ASSUME IInv, onPrepareStartup
    PROVE  IInv'
<1> USE ForwardingConstants
<1>0. events \in Seq(EventSet) /\ taskQ \in Seq(Tasks)
  BY QueueTypes DEF IInv
<1>T. TypeOK'
  BY <1>0 DEF IInv, TypeOK, States, EventTypes, EventSet, Tasks,
    onPrepareStartup
<1>A. ThreadInv'
  BY <1>0 DEF IInv, TypeOK, States, EventTypes, ThreadInv, ThreadHasModule,
    ReadyInv, OnceInv, onPrepareStartup
<1>B. ReadyInv'
  BY <1>0 DEF IInv, TypeOK, States, EventTypes, ThreadInv, ThreadHasModule,
    ReadyInv, OnceInv, onPrepareStartup
<1>C. OnceInv'
  BY <1>0 DEF IInv, TypeOK, States, EventTypes, ThreadInv, ThreadHasModule,
    ReadyInv, OnceInv, onPrepareStartup
<1> QED
  BY <1>T, <1>A, <1>B, <1>C DEF IInv

LEMMA OnRepositoryData ==
    ASSUME IInv, onRepositoryData
    PROVE  IInv'
<1> USE ForwardingConstants
<1>0. events \in Seq(EventSet) /\ taskQ \in Seq(Tasks)
  BY QueueTypes DEF IInv
<1>1. events # <<>>
  BY DEF onRepositoryData, Dispatch
<1> DEFINE q == Tail(events)
<1>2. /\ q \in Seq(EventSet)
      /\ Append(q, Event("STARTUP", 0)) \in Seq(EventSet)
      /\ \A type : Queued(Append(q, Event("STARTUP", 0)), type)
                       => Queued(q, type) \/ type = "STARTUP"
      /\ OneAnswer(q) => OneAnswer(Append(q, Event("STARTUP", 0)))
  BY <1>0, <1>1, EventTaken, EventAdded DEF EventTypes
<1>3. \/ events' = q /\ ready' = ready /\ running' = running
      \/ /\ events' = Append(q, Event("STARTUP", 0))
         /\ ready' = ready \cup {"startup"} /\ running' = TRUE
      \/ /\ events' = q /\ ready' = ready \cup {"startup"}
         /\ running' = running
  BY DEF onRepositoryData, signalIsReadyForStartup
<1>4. shutdownCalled <=> shutdownCalled'
  BY DEF onRepositoryData
<1>5. Queued(events', "PREPARE_SHUTDOWN") => Queued(events, "PREPARE_SHUTDOWN")
  BY <1>0, <1>1, <1>2, <1>3, EventTaken
<1>6. /\ "startup" \in ready => "startup" \in ready'
      /\ running' => running \/ "startup" \in ready'
  BY <1>3
<1>T. TypeOK'
  BY <1>0, <1>1, <1>2, EventTaken, <1>3 DEF IInv, TypeOK, States, EventTypes,
    EventSet, Tasks, onRepositoryData, Dispatch, Idle
<1>A. ThreadInv'
  BY <1>0, <1>1, <1>2, EventTaken, <1>3 DEF IInv, TypeOK, States, EventTypes,
    ThreadInv, ThreadHasModule, ReadyInv, OnceInv, onRepositoryData, Dispatch,
    Idle
<1>B. ReadyInv'
  BY <1>4, <1>5, <1>6, Zenon DEF IInv, ReadyInv
<1>C. OnceInv'
  BY <1>0, <1>1, <1>2, EventTaken, <1>3 DEF IInv, TypeOK, States, EventTypes,
    ThreadInv, ThreadHasModule, ReadyInv, OnceInv, onRepositoryData, Dispatch,
    Idle
<1> QED
  BY <1>T, <1>A, <1>B, <1>C DEF IInv

LEMMA OnStartup ==
    ASSUME IInv, onStartup
    PROVE  IInv'
<1> USE ForwardingConstants
<1>0. events \in Seq(EventSet) /\ taskQ \in Seq(Tasks)
  BY QueueTypes DEF IInv
<1>1. events # <<>>
  BY DEF onStartup, Dispatch
<1>T. TypeOK'
  BY <1>0, <1>1, EventTaken DEF IInv, TypeOK, States, EventTypes, EventSet,
    Tasks, onStartup, Dispatch, Idle
<1>A. ThreadInv'
  BY <1>0, <1>1, EventTaken DEF IInv, TypeOK, States, EventTypes, ThreadInv,
    ThreadHasModule, ReadyInv, OnceInv, onStartup, Dispatch, Idle
<1>B. ReadyInv'
  BY <1>0, <1>1, EventTaken DEF IInv, TypeOK, States, EventTypes, ThreadInv,
    ThreadHasModule, ReadyInv, OnceInv, onStartup, Dispatch, Idle
<1>C. OnceInv'
  BY <1>0, <1>1, EventTaken DEF IInv, TypeOK, States, EventTypes, ThreadInv,
    ThreadHasModule, ReadyInv, OnceInv, onStartup, Dispatch, Idle
<1> QED
  BY <1>T, <1>A, <1>B, <1>C DEF IInv

LEMMA OnRoutingInfoComplete ==
    ASSUME IInv, onRoutingInfoComplete
    PROVE  IInv'
<1> USE ForwardingConstants
<1>0. events \in Seq(EventSet) /\ taskQ \in Seq(Tasks)
  BY QueueTypes DEF IInv
<1>1. events # <<>>
  BY DEF onRoutingInfoComplete, Dispatch
<1>T. TypeOK'
  BY <1>0, <1>1, EventTaken DEF IInv, TypeOK, States, EventTypes, EventSet,
    Tasks, onRoutingInfoComplete, Dispatch, Idle
<1>A. ThreadInv'
  BY <1>0, <1>1, EventTaken DEF IInv, TypeOK, States, EventTypes, ThreadInv,
    ThreadHasModule, ReadyInv, OnceInv, onRoutingInfoComplete, Dispatch, Idle
<1>B. ReadyInv'
  BY <1>0, <1>1, EventTaken DEF IInv, TypeOK, States, EventTypes, ThreadInv,
    ThreadHasModule, ReadyInv, OnceInv, onRoutingInfoComplete, Dispatch, Idle
<1>C. OnceInv'
  BY <1>0, <1>1, EventTaken DEF IInv, TypeOK, States, EventTypes, ThreadInv,
    ThreadHasModule, ReadyInv, OnceInv, onRoutingInfoComplete, Dispatch, Idle
<1> QED
  BY <1>T, <1>A, <1>B, <1>C DEF IInv

LEMMA OnPrepareShutdown ==
    ASSUME IInv, onPrepareShutdown
    PROVE  IInv'
<1> USE ForwardingConstants
<1>0. events \in Seq(EventSet) /\ taskQ \in Seq(Tasks)
  BY QueueTypes DEF IInv
<1>1. events # <<>>
  BY DEF onPrepareShutdown, Dispatch
<1>T. TypeOK'
  BY <1>0, <1>1, EventTaken, EmptyQueue, QuitAdded DEF IInv, TypeOK, States,
    EventTypes, EventSet, Tasks, onPrepareShutdown, Dispatch, Idle,
    unsetForwardingModule, quit, Delete, signalIsReadyForShutdown
<1>A. ThreadInv'
  BY <1>0, <1>1, EventTaken, EmptyQueue, QuitAdded DEF IInv, TypeOK, States,
    EventTypes, ThreadInv, ThreadHasModule, ReadyInv, OnceInv,
    onPrepareShutdown, Dispatch, Idle, unsetForwardingModule, quit, Delete,
    signalIsReadyForShutdown
<1>B. ReadyInv'
  BY <1>0, <1>1, EventTaken, EmptyQueue, QuitAdded DEF IInv, TypeOK, States,
    EventTypes, ThreadInv, ThreadHasModule, ReadyInv, OnceInv,
    onPrepareShutdown, Dispatch, Idle, unsetForwardingModule, quit, Delete,
    signalIsReadyForShutdown
<1>C. OnceInv'
  BY <1>0, <1>1, EventTaken, EmptyQueue, QuitAdded DEF IInv, TypeOK, States,
    EventTypes, ThreadInv, ThreadHasModule, ReadyInv, OnceInv,
    onPrepareShutdown, Dispatch, Idle, unsetForwardingModule, quit, Delete,
    signalIsReadyForShutdown
<1> QED
  BY <1>T, <1>A, <1>B, <1>C DEF IInv

LEMMA OnQuitComplete ==
    ASSUME IInv, onQuitComplete
    PROVE  IInv'
<1> USE ForwardingConstants
<1>0. events \in Seq(EventSet) /\ taskQ \in Seq(Tasks)
  BY QueueTypes DEF IInv
<1>1. events # <<>>
  BY DEF onQuitComplete, Dispatch
<1>S. /\ events' \in Seq(EventSet) /\ taskQ' \in Seq(Tasks)
      /\ inserts' \in Seq(Nat)
  BY <1>0, <1>1, EventTaken, NumberAdded DEF IInv, TypeOK, EventTypes,
    onQuitComplete, Dispatch, Idle, signalIsReadyForShutdown
<1>R. /\ raced' \in BOOLEAN /\ dangled' \in BOOLEAN
      /\ interest' \in BOOLEAN /\ running' \in BOOLEAN
      /\ shutdownEvent' \in BOOLEAN /\ shutdownCalled' \in BOOLEAN
  BY DEF IInv, TypeOK, onQuitComplete, Dispatch, Idle,
    signalIsReadyForShutdown
<1>T. TypeOK'
  BY <1>S, <1>R, <1>0, <1>1, EventTaken, NumberAdded DEF IInv, TypeOK, States,
    EventSet, Tasks, onQuitComplete, Dispatch, Idle, signalIsReadyForShutdown
<1>A. ThreadInv'
  BY <1>0, <1>1, EventTaken, NumberAdded DEF IInv, TypeOK, States, EventTypes,
    ThreadInv, ThreadHasModule, ReadyInv, OnceInv, onQuitComplete, Dispatch,
    Idle, signalIsReadyForShutdown
<1>B. ReadyInv'
  BY <1>0, <1>1, EventTaken, NumberAdded DEF IInv, TypeOK, States, EventTypes,
    ThreadInv, ThreadHasModule, ReadyInv, OnceInv, onQuitComplete, Dispatch,
    Idle, signalIsReadyForShutdown
<1>C. OnceInv'
  BY <1>0, <1>1, EventTaken, NumberAdded DEF IInv, TypeOK, States, EventTypes,
    ThreadInv, ThreadHasModule, ReadyInv, OnceInv, onQuitComplete, Dispatch,
    Idle, signalIsReadyForShutdown
<1> QED
  BY <1>T, <1>A, <1>B, <1>C DEF IInv

LEMMA OnShutdown ==
    ASSUME IInv, onShutdown
    PROVE  IInv'
<1> USE ForwardingConstants
<1>0. events \in Seq(EventSet) /\ taskQ \in Seq(Tasks)
  BY QueueTypes DEF IInv
<1>T. TypeOK'
  BY <1>0 DEF IInv, TypeOK, States, EventTypes, EventSet, Tasks, onShutdown,
    Idle
<1>A. ThreadInv'
  BY <1>0 DEF IInv, TypeOK, States, EventTypes, ThreadInv, ThreadHasModule,
    ReadyInv, OnceInv, onShutdown, Idle
<1>B. ReadyInv'
  BY <1>0 DEF IInv, TypeOK, States, EventTypes, ThreadInv, ThreadHasModule,
    ReadyInv, OnceInv, onShutdown, Idle
<1>C. OnceInv'
  BY <1>0 DEF IInv, TypeOK, States, EventTypes, ThreadInv, ThreadHasModule,
    ReadyInv, OnceInv, onShutdown, Idle
<1> QED
  BY <1>T, <1>A, <1>B, <1>C DEF IInv

LEMMA Joined ==
    ASSUME IInv, joined
    PROVE  IInv'
<1> USE ForwardingConstants
<1>0. events \in Seq(EventSet) /\ taskQ \in Seq(Tasks)
  BY QueueTypes DEF IInv
<1>T. TypeOK'
  BY <1>0, EmptyQueue DEF IInv, TypeOK, States, EventTypes, EventSet, Tasks,
    joined, Delete
<1>A. ThreadInv'
  BY <1>0, EmptyQueue DEF IInv, TypeOK, States, EventTypes, ThreadInv,
    ThreadHasModule, ReadyInv, OnceInv, joined, Delete
<1>B. ReadyInv'
  BY <1>0, EmptyQueue DEF IInv, TypeOK, States, EventTypes, ThreadInv,
    ThreadHasModule, ReadyInv, OnceInv, joined, Delete
<1>C. OnceInv'
  BY <1>0, EmptyQueue DEF IInv, TypeOK, States, EventTypes, ThreadInv,
    ThreadHasModule, ReadyInv, OnceInv, joined, Delete
<1> QED
  BY <1>T, <1>A, <1>B, <1>C DEF IInv

LEMMA Destroyed ==
    ASSUME IInv, Destroy
    PROVE  IInv'
<1> USE ForwardingConstants
<1>0. events \in Seq(EventSet) /\ taskQ \in Seq(Tasks)
  BY QueueTypes DEF IInv
<1>T. TypeOK'
  BY <1>0, EmptyQueue DEF IInv, TypeOK, States, EventTypes, EventSet, Tasks,
    Destroy, Delete
<1>A. ThreadInv'
  BY <1>0, EmptyQueue DEF IInv, TypeOK, States, EventTypes, ThreadInv,
    ThreadHasModule, ReadyInv, OnceInv, Destroy, Delete
<1>B. ReadyInv'
  BY <1>0, EmptyQueue DEF IInv, TypeOK, States, EventTypes, ThreadInv,
    ThreadHasModule, ReadyInv, OnceInv, Destroy, Delete
<1>C. OnceInv'
  BY <1>0, EmptyQueue DEF IInv, TypeOK, States, EventTypes, ThreadInv,
    ThreadHasModule, ReadyInv, OnceInv, Destroy, Delete
<1> QED
  BY <1>T, <1>A, <1>B, <1>C DEF IInv

LEMMA Updated ==
    ASSUME IInv, runUpdate
    PROVE  IInv'
<1> USE ForwardingConstants
<1>0. events \in Seq(EventSet) /\ taskQ \in Seq(Tasks)
  BY QueueTypes DEF IInv
<1>T. TypeOK'
  BY <1>0, TaskTaken DEF IInv, TypeOK, States, EventTypes, EventSet, Tasks,
    runUpdate
<1>A. ThreadInv'
  BY <1>0, TaskTaken DEF IInv, TypeOK, States, EventTypes, ThreadInv,
    ThreadHasModule, ReadyInv, OnceInv, runUpdate
<1>B. ReadyInv'
  BY <1>0, TaskTaken DEF IInv, TypeOK, States, EventTypes, ThreadInv,
    ThreadHasModule, ReadyInv, OnceInv, runUpdate
<1>C. OnceInv'
  BY <1>0, TaskTaken DEF IInv, TypeOK, States, EventTypes, ThreadInv,
    ThreadHasModule, ReadyInv, OnceInv, runUpdate
<1> QED
  BY <1>T, <1>A, <1>B, <1>C DEF IInv

LEMMA RoutingInfo ==
    ASSUME IInv, runRoutingInfo
    PROVE  IInv'
<1> USE ForwardingConstants
<1>0. events \in Seq(EventSet) /\ taskQ \in Seq(Tasks)
  BY QueueTypes DEF IInv
<1>1. /\ events' \in Seq(EventSet)
      /\ \A type : Queued(events', type)
                       => Queued(events, type) \/ type = "ROUTING_INFO"
      /\ OneAnswer(events) => OneAnswer(events')
  BY <1>0, EventAdded DEF runRoutingInfo, ToManager, EventTypes
<1>T. TypeOK'
  BY <1>0, TaskTaken, <1>1 DEF IInv, TypeOK, States, EventTypes, EventSet,
    Tasks, runRoutingInfo, ToManager
<1>A. ThreadInv'
  BY <1>0, TaskTaken, <1>1 DEF IInv, TypeOK, States, EventTypes, ThreadInv,
    ThreadHasModule, ReadyInv, OnceInv, runRoutingInfo, ToManager
<1>B. ReadyInv'
  BY <1>0, TaskTaken, <1>1 DEF IInv, TypeOK, States, EventTypes, ThreadInv,
    ThreadHasModule, ReadyInv, OnceInv, runRoutingInfo, ToManager
<1>C. OnceInv'
  BY <1>0, TaskTaken, <1>1 DEF IInv, TypeOK, States, EventTypes, ThreadInv,
    ThreadHasModule, ReadyInv, OnceInv, runRoutingInfo, ToManager
<1> QED
  BY <1>T, <1>A, <1>B, <1>C DEF IInv

LEMMA Quit ==
    ASSUME IInv, runQuit
    PROVE  IInv'
<1> USE ForwardingConstants
<1>0. events \in Seq(EventSet) /\ taskQ \in Seq(Tasks)
  BY QueueTypes DEF IInv
<1>1. /\ events' \in Seq(EventSet)
      /\ \A type : Queued(events', type)
                       => Queued(events, type) \/ type = "QUIT"
      /\ OneAnswer(events) => OneAnswer(events')
  BY <1>0, EventAdded DEF runQuit, ToManager, EventTypes, IInv, TypeOK
<1>T. TypeOK'
  BY <1>0, TaskTaken, <1>1 DEF IInv, TypeOK, States, EventTypes, EventSet,
    Tasks, runQuit, ToManager
<1>A. ThreadInv'
  BY <1>0, TaskTaken, <1>1 DEF IInv, TypeOK, States, EventTypes, ThreadInv,
    ThreadHasModule, ReadyInv, OnceInv, runQuit, ToManager
<1>B. ReadyInv'
  BY <1>0, TaskTaken, <1>1 DEF IInv, TypeOK, States, EventTypes, ThreadInv,
    ThreadHasModule, ReadyInv, OnceInv, runQuit, ToManager
<1>C. OnceInv'
  BY <1>0, TaskTaken, <1>1 DEF IInv, TypeOK, States, EventTypes, ThreadInv,
    ThreadHasModule, ReadyInv, OnceInv, runQuit, ToManager
<1> QED
  BY <1>T, <1>A, <1>B, <1>C DEF IInv

LEMMA Inserted ==
    ASSUME IInv, _insertRepository
    PROVE  IInv'
<1> USE ForwardingConstants
<1>0. events \in Seq(EventSet) /\ taskQ \in Seq(Tasks)
  BY QueueTypes DEF IInv
<1>T. TypeOK'
  BY <1>0, NumberTaken DEF IInv, TypeOK, States, EventTypes, EventSet, Tasks,
    _insertRepository
<1>A. ThreadInv'
  BY <1>0, NumberTaken DEF IInv, TypeOK, States, EventTypes, ThreadInv,
    ThreadHasModule, ReadyInv, OnceInv, _insertRepository
<1>B. ReadyInv'
  BY <1>0, NumberTaken DEF IInv, TypeOK, States, EventTypes, ThreadInv,
    ThreadHasModule, ReadyInv, OnceInv, _insertRepository
<1>C. OnceInv'
  BY <1>0, NumberTaken DEF IInv, TypeOK, States, EventTypes, ThreadInv,
    ThreadHasModule, ReadyInv, OnceInv, _insertRepository
<1> QED
  BY <1>T, <1>A, <1>B, <1>C DEF IInv

LEMMA ReadDone ==
    ASSUME IInv, _readRepository
    PROVE  IInv'
<1> USE ForwardingConstants
<1>0. events \in Seq(EventSet) /\ taskQ \in Seq(Tasks)
  BY QueueTypes DEF IInv
<1>S. /\ events' \in Seq(EventSet) /\ taskQ' \in Seq(Tasks)
      /\ inserts' \in Seq(Nat)
  BY <1>0, EventAdded DEF IInv, TypeOK, EventTypes, _readRepository
<1>R. /\ raced' \in BOOLEAN /\ dangled' \in BOOLEAN
      /\ interest' \in BOOLEAN /\ running' \in BOOLEAN
      /\ shutdownEvent' \in BOOLEAN /\ shutdownCalled' \in BOOLEAN
  BY DEF IInv, TypeOK, _readRepository
<1>T. TypeOK'
  BY <1>S, <1>R, <1>0, EventAdded DEF IInv, TypeOK, States, EventSet, Tasks,
    _readRepository
<1>A. ThreadInv'
  BY <1>0, EventAdded DEF IInv, TypeOK, States, EventTypes, ThreadInv,
    ThreadHasModule, ReadyInv, OnceInv, _readRepository
<1>B. ReadyInv'
  BY <1>0, EventAdded DEF IInv, TypeOK, States, EventTypes, ThreadInv,
    ThreadHasModule, ReadyInv, OnceInv, _readRepository
<1>C. OnceInv'
  BY <1>0, EventAdded DEF IInv, TypeOK, States, EventTypes, ThreadInv,
    ThreadHasModule, ReadyInv, OnceInv, _readRepository
<1> QED
  BY <1>T, <1>A, <1>B, <1>C DEF IInv

LEMMA OthersStart ==
    ASSUME IInv, OthersReadyForStartup
    PROVE  IInv'
<1> USE ForwardingConstants
<1>0. events \in Seq(EventSet) /\ taskQ \in Seq(Tasks)
  BY QueueTypes DEF IInv
<1>1. /\ events' \in Seq(EventSet)
      /\ \A type : Queued(events', type)
                       => Queued(events, type) \/ type = "STARTUP"
      /\ OneAnswer(events) => OneAnswer(events')
  BY <1>0, EventAdded DEF OthersReadyForStartup, EventTypes
<1>T. TypeOK'
  <2>1. others' \subseteq {"startup", "shutdown"} /\ running' \in BOOLEAN
    BY DEF IInv, TypeOK, OthersReadyForStartup
  <2>2. UNCHANGED <<managerVars, threadVars, kernel, shutdownEvent,
                    shutdownCalled, storeVars, counters, history>>
    BY DEF OthersReadyForStartup
  <2> QED
    BY <1>1, <2>1, <2>2 DEF IInv, TypeOK, EventSet
<1>A. ThreadInv'
  BY <1>0, <1>1 DEF IInv, TypeOK, States, EventTypes, ThreadInv,
    ThreadHasModule, ReadyInv, OnceInv, OthersReadyForStartup
<1>B. ReadyInv'
  BY <1>0, <1>1 DEF IInv, TypeOK, States, EventTypes, ThreadInv,
    ThreadHasModule, ReadyInv, OnceInv, OthersReadyForStartup
<1>C. OnceInv'
  BY <1>0, <1>1 DEF IInv, TypeOK, States, EventTypes, ThreadInv,
    ThreadHasModule, ReadyInv, OnceInv, OthersReadyForStartup
<1> QED
  BY <1>T, <1>A, <1>B, <1>C DEF IInv

LEMMA OthersStop ==
    ASSUME IInv, OthersReadyForShutdown
    PROVE  IInv'
<1> USE ForwardingConstants
<1>0. events \in Seq(EventSet) /\ taskQ \in Seq(Tasks)
  BY QueueTypes DEF IInv
<1>T. TypeOK'
  <2>1. /\ others' \subseteq {"startup", "shutdown"} /\ running' \in BOOLEAN
        /\ shutdownEvent' \in BOOLEAN
    BY DEF IInv, TypeOK, OthersReadyForShutdown
  <2>2. UNCHANGED <<managerVars, threadVars, kernel, events, shutdownCalled,
                    storeVars, counters, history>>
    BY DEF OthersReadyForShutdown
  <2> QED
    BY <2>1, <2>2 DEF IInv, TypeOK
<1>A. ThreadInv'
  BY <1>0 DEF IInv, TypeOK, States, EventTypes, ThreadInv, ThreadHasModule,
    ReadyInv, OnceInv, OthersReadyForShutdown
<1>B. ReadyInv'
  BY <1>0 DEF IInv, TypeOK, States, EventTypes, ThreadInv, ThreadHasModule,
    ReadyInv, OnceInv, OthersReadyForShutdown
<1>C. OnceInv'
  BY <1>0 DEF IInv, TypeOK, States, EventTypes, ThreadInv, ThreadHasModule,
    ReadyInv, OnceInv, OthersReadyForShutdown
<1> QED
  BY <1>T, <1>A, <1>B, <1>C DEF IInv

LEMMA ShutdownCalled ==
    ASSUME IInv, shutdown
    PROVE  IInv'
<1> USE ForwardingConstants
<1>0. events \in Seq(EventSet) /\ taskQ \in Seq(Tasks)
  BY QueueTypes DEF IInv
<1>S. /\ events' \in Seq(EventSet) /\ taskQ' \in Seq(Tasks)
      /\ inserts' \in Seq(Nat)
  BY <1>0, EventAdded DEF IInv, TypeOK, EventTypes, shutdown
<1>R. /\ raced' \in BOOLEAN /\ dangled' \in BOOLEAN
      /\ interest' \in BOOLEAN /\ running' \in BOOLEAN
      /\ shutdownEvent' \in BOOLEAN /\ shutdownCalled' \in BOOLEAN
  BY DEF IInv, TypeOK, shutdown
<1>T. TypeOK'
  BY <1>S, <1>R, <1>0, EventAdded DEF IInv, TypeOK, States, EventSet, Tasks,
    shutdown
<1>A. ThreadInv'
  BY <1>0, EventAdded DEF IInv, TypeOK, States, EventTypes, ThreadInv,
    ThreadHasModule, ReadyInv, OnceInv, shutdown
<1>B. ReadyInv'
  BY <1>0, EventAdded DEF IInv, TypeOK, States, EventTypes, ThreadInv,
    ThreadHasModule, ReadyInv, OnceInv, shutdown
<1>C. OnceInv'
  BY <1>0, EventAdded DEF IInv, TypeOK, States, EventTypes, ThreadInv,
    ThreadHasModule, ReadyInv, OnceInv, shutdown
<1> QED
  BY <1>T, <1>A, <1>B, <1>C DEF IInv

LEMMA Given ==
    ASSUME NEW tasks \in Seq(Tasks), ~Quitting(tasks), Idle,
           IInv, Give(tasks)
    PROVE  IInv'
<1> USE ForwardingConstants
<1>0. events \in Seq(EventSet) /\ taskQ \in Seq(Tasks)
  BY QueueTypes DEF IInv
<1>T. TypeOK'
  BY <1>0, TasksAdded DEF IInv, TypeOK, States, EventTypes, EventSet, Tasks,
    Give, Idle
<1>A. ThreadInv'
  BY <1>0, TasksAdded DEF IInv, TypeOK, States, EventTypes, ThreadInv,
    ThreadHasModule, ReadyInv, OnceInv, Give, Idle
<1>B. ReadyInv'
  BY <1>0, TasksAdded DEF IInv, TypeOK, States, EventTypes, ThreadInv,
    ThreadHasModule, ReadyInv, OnceInv, Give, Idle
<1>C. OnceInv'
  BY <1>0, TasksAdded DEF IInv, TypeOK, States, EventTypes, ThreadInv,
    ThreadHasModule, ReadyInv, OnceInv, Give, Idle
<1> QED
  BY <1>T, <1>A, <1>B, <1>C DEF IInv

LEMMA ConfigNone ==
    ASSUME NEW deRegister \in BOOLEAN, IInv, onConfigNone(deRegister)
    PROVE  IInv'
<1> USE ForwardingConstants
<1>0. events \in Seq(EventSet) /\ taskQ \in Seq(Tasks)
  BY QueueTypes DEF IInv
<1>S. /\ events' \in Seq(EventSet) /\ taskQ' \in Seq(Tasks)
      /\ inserts' \in Seq(Nat)
  BY <1>0, EmptyQueue, QuitAdded DEF IInv, TypeOK, EventTypes, onConfigNone,
    Configure, Idle, unsetForwardingModule, quit, Delete
<1>R. /\ raced' \in BOOLEAN /\ dangled' \in BOOLEAN
      /\ interest' \in BOOLEAN /\ running' \in BOOLEAN
      /\ shutdownEvent' \in BOOLEAN /\ shutdownCalled' \in BOOLEAN
  BY DEF IInv, TypeOK, onConfigNone, Configure, Idle, unsetForwardingModule,
    quit, Delete
<1>T. TypeOK'
  BY <1>S, <1>R, <1>0, EmptyQueue, QuitAdded DEF IInv, TypeOK, States,
    EventSet, Tasks, onConfigNone, Configure, Idle, unsetForwardingModule,
    quit, Delete
<1>A. ThreadInv'
  BY <1>0, EmptyQueue, QuitAdded DEF IInv, TypeOK, States, EventTypes,
    ThreadInv, ThreadHasModule, ReadyInv, OnceInv, onConfigNone, Configure,
    Idle, unsetForwardingModule, quit, Delete
<1>B. ReadyInv'
  BY <1>0, EmptyQueue, QuitAdded DEF IInv, TypeOK, States, EventTypes,
    ThreadInv, ThreadHasModule, ReadyInv, OnceInv, onConfigNone, Configure,
    Idle, unsetForwardingModule, quit, Delete
<1>C. OnceInv'
  BY <1>0, EmptyQueue, QuitAdded DEF IInv, TypeOK, States, EventTypes,
    ThreadInv, ThreadHasModule, ReadyInv, OnceInv, onConfigNone, Configure,
    Idle, unsetForwardingModule, quit, Delete
<1> QED
  BY <1>T, <1>A, <1>B, <1>C DEF IInv

LEMMA ConfigProphet ==
    ASSUME IInv, onConfigProphet
    PROVE  IInv'
<1> USE ForwardingConstants
<1>0. events \in Seq(EventSet) /\ taskQ \in Seq(Tasks)
  BY QueueTypes DEF IInv
<1>S. /\ events' \in Seq(EventSet) /\ taskQ' \in Seq(Tasks)
      /\ inserts' \in Seq(Nat)
  BY <1>0, EmptyQueue DEF IInv, TypeOK, EventTypes, onConfigProphet,
    Configure, Idle, setProphet
<1>R. /\ raced' \in BOOLEAN /\ dangled' \in BOOLEAN
      /\ interest' \in BOOLEAN /\ running' \in BOOLEAN
      /\ shutdownEvent' \in BOOLEAN /\ shutdownCalled' \in BOOLEAN
  BY DEF IInv, TypeOK, onConfigProphet, Configure, Idle, setProphet
<1>T. TypeOK'
  BY <1>S, <1>R, <1>0, EmptyQueue DEF IInv, TypeOK, States, EventSet, Tasks,
    onConfigProphet, Configure, Idle, setProphet
<1>A. ThreadInv'
  BY <1>0, EmptyQueue DEF IInv, TypeOK, States, EventTypes, ThreadInv,
    ThreadHasModule, ReadyInv, OnceInv, onConfigProphet, Configure, Idle,
    setProphet
<1>B. ReadyInv'
  BY <1>0, EmptyQueue DEF IInv, TypeOK, States, EventTypes, ThreadInv,
    ThreadHasModule, ReadyInv, OnceInv, onConfigProphet, Configure, Idle,
    setProphet
<1>C. OnceInv'
  BY <1>0, EmptyQueue DEF IInv, TypeOK, States, EventTypes, ThreadInv,
    ThreadHasModule, ReadyInv, OnceInv, onConfigProphet, Configure, Idle,
    setProphet
<1> QED
  BY <1>T, <1>A, <1>B, <1>C DEF IInv

LEMMA Restarted ==
    ASSUME IInv, Restart
    PROVE  IInv'
<1> USE ForwardingConstants
<1>0. events \in Seq(EventSet) /\ taskQ \in Seq(Tasks)
  BY QueueTypes DEF IInv
<1>S. /\ events' \in Seq(EventSet) /\ taskQ' \in Seq(Tasks)
      /\ inserts' \in Seq(Nat)
  BY <1>0, EmptyQueue DEF IInv, TypeOK, EventTypes, Restart
<1>R. /\ raced' \in BOOLEAN /\ dangled' \in BOOLEAN
      /\ interest' \in BOOLEAN /\ running' \in BOOLEAN
      /\ shutdownEvent' \in BOOLEAN /\ shutdownCalled' \in BOOLEAN
  BY DEF IInv, TypeOK, Restart
<1>T. TypeOK'
  BY <1>S, <1>R, <1>0, EmptyQueue DEF IInv, TypeOK, States, EventSet, Tasks,
    Restart
<1>A. ThreadInv'
  BY <1>0, EmptyQueue DEF IInv, TypeOK, States, EventTypes, ThreadInv,
    ThreadHasModule, ReadyInv, OnceInv, Restart
<1>B. ReadyInv'
  BY <1>0, EmptyQueue DEF IInv, TypeOK, States, EventTypes, ThreadInv,
    ThreadHasModule, ReadyInv, OnceInv, Restart
<1>C. OnceInv'
  BY <1>0, EmptyQueue DEF IInv, TypeOK, States, EventTypes, ThreadInv,
    ThreadHasModule, ReadyInv, OnceInv, Restart
<1> QED
  BY <1>T, <1>A, <1>B, <1>C DEF IInv
-----------------------------------------------------------------------------
LEMMA Gives ==
    ASSUME IInv, onNewNeighbor \/ onEndNeighbor \/ onRoutingInformation
    PROVE  IInv'
<1>1. <<"update", "GENERATE_ROUTING_INFO">> \in Seq(Tasks)
      /\ <<"update">> \in Seq(Tasks)
  BY DEF Tasks
<1>2. ~Quitting(<<"update", "GENERATE_ROUTING_INFO">>)
  BY DEF Quitting
<1>3. ~Quitting(<<"update">>)
  BY DEF Quitting
<1>4. CASE onNewNeighbor
  BY <1>1, <1>2, <1>4, Given DEF onNewNeighbor
<1>5. CASE onEndNeighbor
  BY <1>1, <1>3, <1>5, Given DEF onEndNeighbor
<1>6. CASE onRoutingInformation
  BY <1>1, <1>3, <1>6, Given DEF onRoutingInformation
<1> QED
  BY <1>4, <1>5, <1>6

LEMMA Stuttering ==
    ASSUME IInv, UNCHANGED vars
    PROVE  IInv'
BY DEF IInv, TypeOK, ThreadInv, ThreadHasModule, ReadyInv, OnceInv

LEMMA Inductive ==
    ASSUME IInv, [Next]_vars
    PROVE  IInv'
<1>1. CASE Handle
  BY <1>1, OnPrepareStartup, OnRepositoryData, OnStartup,
     OnRoutingInfoComplete, OnPrepareShutdown, OnQuitComplete, OnShutdown,
     Joined, Destroyed DEF Handle
<1>2. CASE Run
  BY <1>2, Updated, RoutingInfo, Quit DEF Run
<1>3. CASE Store
  BY <1>3, Inserted, ReadDone DEF Store
<1>4. CASE Environment
  BY <1>4, Gives, ConfigNone, ConfigProphet, ShutdownCalled, Restarted
     DEF Environment
<1>5. CASE OthersReadyForStartup
  BY <1>5, OthersStart
<1>6. CASE OthersReadyForShutdown
  BY <1>6, OthersStop
<1>7. CASE UNCHANGED vars
  BY <1>7, Stuttering
<1> QED
  BY <1>1, <1>2, <1>3, <1>4, <1>5, <1>6, <1>7 DEF Next

LEMMA Always == Spec => []IInv
<1>1. Init => IInv
  BY Initially
<1>2. IInv /\ [Next]_vars => IInv'
  BY Inductive
<1> QED
  BY <1>1, <1>2, PTL DEF Spec

(* The manager, its module, the kernel's events and the data store's tasks  *)
(* keep their types, however often the process is configured and started    *)
(* (ForwardingManager.cpp, ForwarderAsynchronous.cpp).                      *)
THEOREM TypeCorrect == Spec => []TypeOK
<1>1. IInv => TypeOK
  BY DEF IInv
<1> QED
  BY <1>1, Always, PTL

(* No module is deleted under its thread (quit() joins it), and the module  *)
(* of the start has its saved state before its thread runs and is not used  *)
(* after it was deleted (ForwardingManager::onRepositoryData,               *)
(* onPrepareShutdown, setForwardingModule).                                 *)
THEOREM UsedSafely == Spec => []ModuleIsUsedSafely
<1>1. IInv => ModuleIsUsedSafely
  BY DEF IInv, ThreadInv, OnceInv, ModuleIsUsedSafely
<1> QED
  BY <1>1, Always, PTL
-----------------------------------------------------------------------------
(***************************************************************************)
(* What was learned is saved                                                *)
(*                                                                          *)
(* A start of the process without configurations goes through six phases.   *)
(***************************************************************************)

(* Executing the tasks of q in their order takes the table from a updates   *)
(* to b: f says where it stands before each of them.                        *)
Leads(q, a, b) ==
    \E f \in [1..(Len(q) + 1) -> Nat] :
        /\ f[1] = a /\ f[Len(q) + 1] = b
        /\ \A i \in 1..Len(q) :
              f[i + 1] = IF q[i] = "update" THEN f[i] + 1 ELSE f[i]

(* QUIT is the last task.                                                   *)
QuitIsLast(q) ==
    q # <<>> /\ \A i \in 1..Len(q) : q[i] = "QUIT" <=> i = Len(q)

(* Answers of the repository carry v.                                       *)
AnswersAre(q, v) == \A i \in 1..Len(q) : q[i].type = "repository" => q[i].value = v

(* One QUIT event is queued, and it carries v.                              *)
OneQuit(q, v) ==
    \E i \in 1..Len(q) :
        /\ q[i].type = "QUIT" /\ q[i].value = v
        /\ \A j \in 1..Len(q) : q[j].type = "QUIT" => j = i

(* The shutdown is prepared once, after all startups.                       *)
StartupFirst(q) ==
    \A i, j \in 1..Len(q) :
        /\ q[i].type = "PREPARE_SHUTDOWN"
        /\ q[j].type \in {"STARTUP", "PREPARE_SHUTDOWN"}
        => j <= i

(* Before the shutdown: the last startup, if it was, came before it.        *)
Before ==
    /\ running \/ shutdownCalled => "startup" \in ready /\ "startup" \in others
    /\ Queued(events, "PREPARE_SHUTDOWN") => shutdownCalled
    /\ Queued(events, "STARTUP") => running
    /\ StartupFirst(events)
    /\ "shutdown" \notin ready /\ ~Queued(events, "QUIT") /\ ~Quitting(taskQ)
    /\ inserts = <<>> /\ ~shutdownEvent

(* After it nothing of the start is left.                                   *)
After ==
    /\ shutdownCalled /\ reads = 0 /\ ~Queued(events, "repository")
    /\ ~Queued(events, "STARTUP") /\ ~Queued(events, "PREPARE_SHUTDOWN")

(* The module waits for its state.                                          *)
Waiting ==
    /\ Before /\ thread = "none" /\ kernel = "loop" /\ module = "set"
    /\ state \in {"stopped", "prepare_startup"}
    /\ rib = 0 /\ Leads(taskQ, repository, learned)
    /\ AnswersAre(events, repository)

(* Its thread works.                                                        *)
Working ==
    /\ Before /\ thread = "running" /\ kernel = "loop"
    /\ state \in {"prepare_startup", "running"}
    /\ Leads(taskQ, rib, learned)

(* It was told to quit.                                                     *)
Quitted ==
    /\ After /\ thread = "running" /\ kernel = "join"
    /\ state = "prepare_shutdown"
    /\ Leads(taskQ, rib, learned) /\ QuitIsLast(taskQ)
    /\ "shutdown" \notin ready /\ ~Queued(events, "QUIT")
    /\ inserts = <<>> /\ ~shutdownEvent

(* Its state is on the way to the manager.                                  *)
Handed ==
    /\ After /\ state = "prepare_shutdown"
    /\ \/ thread = "over" /\ kernel = "join"
       \/ thread = "none" /\ kernel = "loop" /\ module = "null"
    /\ OneQuit(events, learned)
    /\ "shutdown" \notin ready /\ inserts = <<>> /\ ~shutdownEvent

(* The manager gave it to the data store.                                   *)
Saving ==
    /\ After /\ state \in {"prepare_shutdown", "down"}
    /\ thread = "none" /\ kernel = "loop" /\ module = "null"
    /\ ~Queued(events, "QUIT")
    /\ \/ inserts = <<learned>>
       \/ inserts = <<>> /\ repository = learned

(* The process has ended.                                                   *)
Ended ==
    /\ state = "gone" /\ thread = "none" /\ kernel = "loop"
    /\ inserts = <<>> /\ repository = learned

SaveInv ==
    configs = 0 =>
        /\ eventType = "module"
        /\ learned = 0 => repository = 0
        /\ Waiting \/ Working \/ Quitted \/ Handed \/ Saving \/ Ended

(* The tasks lead from the table to what was learned, whatever is taken     *)
(* from their front or added at their end.                                  *)
LEMMA NoTasksLead ==
    ASSUME NEW a \in Nat
    PROVE  Leads(<<>>, a, a)
<1> DEFINE f == [i \in 1..(Len(<<>>) + 1) |-> a]
<1>1. /\ f \in [1..(Len(<<>>) + 1) -> Nat] /\ f[1] = a
      /\ f[Len(<<>>) + 1] = a
      /\ \A i \in 1..Len(<<>>) :
            f[i + 1] = IF <<>>[i] = "update" THEN f[i] + 1 ELSE f[i]
    OBVIOUS
<1> HIDE DEF f
<1> QED
    BY <1>1 DEF Leads

LEMMA LastTaskLeads ==
    ASSUME NEW q \in Seq(Tasks), Len(q) = 1, q[1] = "QUIT", NEW a, NEW b,
           Leads(q, a, b)
    PROVE  a = b
BY DEF Leads

LEMMA TakenLeads ==
    ASSUME NEW q \in Seq(Tasks), q # <<>>, NEW a, NEW b, Leads(q, a, b)
    PROVE  /\ Head(q) = "update" => Leads(Tail(q), a + 1, b)
           /\ Head(q) # "update" => Leads(Tail(q), a, b)
<1> DEFINE rest == Tail(q)
<1>1. /\ Len(rest) \in Nat /\ Len(q) = Len(rest) + 1 /\ Head(q) = q[1]
      /\ \A i \in 1..Len(rest) : rest[i] = q[i + 1]
    OBVIOUS
<1>2. PICK f \in [1..(Len(q) + 1) -> Nat] :
        /\ f[1] = a /\ f[Len(q) + 1] = b
        /\ \A i \in 1..Len(q) :
              f[i + 1] = IF q[i] = "update" THEN f[i] + 1 ELSE f[i]
    BY DEF Leads
<1> HIDE DEF rest
<1> DEFINE g == [i \in 1..(Len(rest) + 1) |-> f[i + 1]]
<1>3. \A i \in 1..(Len(rest) + 1) : i + 1 \in 1..(Len(q) + 1) /\ i \in 1..Len(q)
    BY <1>1
<1>4. g \in [1..(Len(rest) + 1) -> Nat]
    BY <1>3
<1>5. \A i \in 1..Len(rest) :
          g[i + 1] = IF rest[i] = "update" THEN g[i] + 1 ELSE g[i]
  <2> SUFFICES ASSUME NEW i \in 1..Len(rest)
               PROVE  g[i + 1] = IF rest[i] = "update" THEN g[i] + 1 ELSE g[i]
      OBVIOUS
  <2>1. i + 1 \in 1..Len(q) /\ i + 1 \in 1..(Len(rest) + 1) /\ i \in 1..(Len(rest) + 1)
      BY <1>1
  <2>2. g[i + 1] = f[(i + 1) + 1] /\ g[i] = f[i + 1]
      BY <2>1
  <2> QED
      BY <1>1, <1>2, <2>1, <2>2
<1>6. g[1] = (IF q[1] = "update" THEN a + 1 ELSE a) /\ g[Len(rest) + 1] = b
  <2>1. 1 \in 1..(Len(rest) + 1) /\ 1 \in 1..Len(q) /\ Len(rest) + 1 \in 1..(Len(rest) + 1)
      BY <1>1
  <2>2. g[1] = f[1 + 1] /\ g[Len(rest) + 1] = f[(Len(rest) + 1) + 1]
      BY <2>1
  <2> QED
      BY <1>1, <1>2, <2>1, <2>2
<1> HIDE DEF g
<1>7. Leads(rest, IF q[1] = "update" THEN a + 1 ELSE a, b)
    BY <1>4, <1>5, <1>6 DEF Leads
<1> QED
    BY <1>1, <1>7 DEF rest

LEMMA AddedLeads ==
    ASSUME NEW q \in Seq(Tasks), NEW t \in Tasks, NEW a, NEW b \in Nat,
           Leads(q, a, b)
    PROVE  Leads(Append(q, t), a, IF t = "update" THEN b + 1 ELSE b)
<1> DEFINE long == Append(q, t)
           N == Len(q)
           c == IF t = "update" THEN b + 1 ELSE b
<1>1. /\ N \in Nat /\ Len(long) = N + 1 /\ long[N + 1] = t
      /\ \A i \in 1..N : long[i] = q[i]
    OBVIOUS
<1>2. PICK f \in [1..(N + 1) -> Nat] :
        /\ f[1] = a /\ f[N + 1] = b
        /\ \A i \in 1..N : f[i + 1] = IF q[i] = "update" THEN f[i] + 1 ELSE f[i]
    BY DEF Leads
<1>3. c \in Nat
    OBVIOUS
<1> HIDE DEF long, c
<1> DEFINE g == [i \in 1..(Len(long) + 1) |-> IF i <= N + 1 THEN f[i] ELSE c]
<1>4. g \in [1..(Len(long) + 1) -> Nat]
  <2>1. \A i \in 1..(Len(long) + 1) : i <= N + 1 => i \in 1..(N + 1)
      BY <1>1
  <2> QED
      BY <1>2, <1>3, <2>1
<1>5. g[1] = a /\ g[Len(long) + 1] = c
    BY <1>1, <1>2
<1>6. \A i \in 1..Len(long) :
          g[i + 1] = IF long[i] = "update" THEN g[i] + 1 ELSE g[i]
  <2> SUFFICES ASSUME NEW i \in 1..Len(long)
               PROVE  g[i + 1] = IF long[i] = "update" THEN g[i] + 1 ELSE g[i]
      OBVIOUS
  <2>1. i \in 1..(Len(long) + 1) /\ i + 1 \in 1..(Len(long) + 1)
      BY <1>1
  <2>2. CASE i \in 1..N
    <3>1. g[i] = f[i] /\ g[i + 1] = f[i + 1]
        BY <1>1, <2>1, <2>2
    <3> QED
        BY <1>1, <1>2, <2>2, <3>1
  <2>3. CASE i = N + 1
    <3>1. g[i] = f[N + 1] /\ g[i + 1] = c
        BY <1>1, <2>1, <2>3
    <3> QED
        BY <1>1, <1>2, <2>3, <3>1 DEF c
  <2> QED
      BY <1>1, <2>2, <2>3
<1> HIDE DEF g
<1>7. Leads(long, a, c)
    BY <1>4, <1>5, <1>6 DEF Leads
<1> QED
    BY <1>7 DEF long, c

(* The event lists, with the first event taken.                             *)
LEMMA PhaseTaken ==
    ASSUME NEW q \in Seq(EventSet), q # <<>>
    PROVE  /\ StartupFirst(q) => StartupFirst(Tail(q))
           /\ StartupFirst(q) /\ Head(q).type = "PREPARE_SHUTDOWN" =>
                 /\ ~Queued(Tail(q), "STARTUP")
                 /\ ~Queued(Tail(q), "PREPARE_SHUTDOWN")
           /\ \A v : AnswersAre(q, v) => AnswersAre(Tail(q), v)
           /\ \A v : AnswersAre(q, v) /\ Head(q).type = "repository"
                        => Head(q).value = v
           /\ \A v : OneQuit(q, v) /\ Head(q).type # "QUIT" => OneQuit(Tail(q), v)
           /\ \A v : OneQuit(q, v) /\ Head(q).type = "QUIT" =>
                        Head(q).value = v /\ ~Queued(Tail(q), "QUIT")
<1> DEFINE rest == Tail(q)
<1>1. /\ Head(q) = q[1] /\ 1 \in 1..Len(q)
      /\ Len(rest) = Len(q) - 1 /\ Len(q) \in Nat /\ Len(rest) \in Nat
      /\ \A i \in 1..Len(rest) : i + 1 \in 1..Len(q) /\ rest[i] = q[i + 1]
      /\ \A i \in 1..Len(q) : i = 1 \/ i - 1 \in 1..Len(rest)
    OBVIOUS
<1> HIDE DEF rest
<1>2. StartupFirst(q) => StartupFirst(rest)
  <2> SUFFICES ASSUME StartupFirst(q), NEW i \in 1..Len(rest), NEW j \in 1..Len(rest),
                      rest[i].type = "PREPARE_SHUTDOWN",
                      rest[j].type \in {"STARTUP", "PREPARE_SHUTDOWN"}
               PROVE  j <= i
      BY DEF StartupFirst
  <2>1. /\ i + 1 \in 1..Len(q) /\ j + 1 \in 1..Len(q)
        /\ q[i + 1].type = "PREPARE_SHUTDOWN"
        /\ q[j + 1].type \in {"STARTUP", "PREPARE_SHUTDOWN"}
      BY <1>1
  <2>2. j + 1 <= i + 1
      BY <2>1 DEF StartupFirst
  <2> QED
      BY <1>1, <2>2
<1>3. StartupFirst(q) /\ Head(q).type = "PREPARE_SHUTDOWN" =>
         ~Queued(rest, "STARTUP") /\ ~Queued(rest, "PREPARE_SHUTDOWN")
  <2> SUFFICES ASSUME StartupFirst(q), Head(q).type = "PREPARE_SHUTDOWN",
                      NEW i \in 1..Len(rest),
                      rest[i].type \in {"STARTUP", "PREPARE_SHUTDOWN"}
               PROVE  FALSE
      BY DEF Queued
  <2>1. i + 1 \in 1..Len(q) /\ q[i + 1].type \in {"STARTUP", "PREPARE_SHUTDOWN"}
      BY <1>1
  <2>2. i + 1 <= 1
      BY <1>1, <2>1 DEF StartupFirst
  <2> QED
      BY <2>2
<1>4. ASSUME NEW v, AnswersAre(q, v)
      PROVE  AnswersAre(rest, v) /\ (Head(q).type = "repository" => Head(q).value = v)
    BY <1>1, <1>4 DEF AnswersAre
<1>5. ASSUME NEW v, OneQuit(q, v)
      PROVE  /\ Head(q).type # "QUIT" => OneQuit(rest, v)
             /\ Head(q).type = "QUIT" => Head(q).value = v /\ ~Queued(rest, "QUIT")
  <2>1. PICK i \in 1..Len(q) :
            /\ q[i].type = "QUIT" /\ q[i].value = v
            /\ \A j \in 1..Len(q) : q[j].type = "QUIT" => j = i
      BY <1>5 DEF OneQuit
  <2>2. CASE Head(q).type = "QUIT"
    <3>1. i = 1
        BY <1>1, <2>1, <2>2
    <3>2. \A j \in 1..Len(rest) : rest[j].type # "QUIT"
        BY <1>1, <2>1, <3>1
    <3> QED
        BY <1>1, <2>1, <2>2, <3>1, <3>2 DEF Queued
  <2>3. CASE Head(q).type # "QUIT"
    <3>1. i # 1 /\ i - 1 \in 1..Len(rest)
        BY <1>1, <2>1, <2>3
    <3>2. rest[i - 1] = q[i]
        BY <1>1, <3>1
    <3>3. \A j \in 1..Len(rest) : rest[j].type = "QUIT" => j = i - 1
        BY <1>1, <2>1, <3>1
    <3>4. OneQuit(rest, v)
        BY <2>1, <3>1, <3>2, <3>3 DEF OneQuit
    <3> QED
        BY <2>3, <3>4
  <2> QED
      BY <2>2, <2>3
<1> QED
    BY <1>2, <1>3, <1>4, <1>5 DEF rest

(* The same with an event added.                                            *)
LEMMA PhaseAdded ==
    ASSUME NEW q \in Seq(EventSet), NEW t \in EventTypes, NEW v \in Nat
    PROVE  /\ StartupFirst(q)
              /\ (t \in {"STARTUP", "PREPARE_SHUTDOWN"}
                     => ~Queued(q, "PREPARE_SHUTDOWN"))
                 => StartupFirst(Append(q, Event(t, v)))
           /\ \A w : AnswersAre(q, w) /\ (t = "repository" => v = w)
                        => AnswersAre(Append(q, Event(t, v)), w)
           /\ \A w : OneQuit(q, w) /\ t # "QUIT"
                        => OneQuit(Append(q, Event(t, v)), w)
           /\ ~Queued(q, "QUIT") /\ t = "QUIT" => OneQuit(Append(q, Event(t, v)), v)
<1> DEFINE e == Event(t, v)
           long == Append(q, e)
           N == Len(q)
<1>1. e \in EventSet /\ e.type = t /\ e.value = v
    BY AnEvent DEF Event
<1> HIDE DEF e
<1>2. /\ N \in Nat /\ Len(long) = N + 1 /\ long[N + 1] = e
      /\ \A i \in 1..N : long[i] = q[i]
    BY <1>1
<1>3. /\ \A i \in 1..Len(long) : i \in 1..N \/ i = N + 1
      /\ \A i \in 1..N : i \in 1..Len(long) /\ i <= N + 1
      /\ N + 1 \in 1..Len(long)
    BY <1>2
<1> HIDE DEF long
<1>4. ASSUME StartupFirst(q),
             t \in {"STARTUP", "PREPARE_SHUTDOWN"} => ~Queued(q, "PREPARE_SHUTDOWN")
      PROVE  StartupFirst(long)
  <2> SUFFICES ASSUME NEW i \in 1..Len(long), NEW j \in 1..Len(long),
                      long[i].type = "PREPARE_SHUTDOWN",
                      long[j].type \in {"STARTUP", "PREPARE_SHUTDOWN"}
               PROVE  j <= i
      BY DEF StartupFirst
  <2>1. CASE i = N + 1
      BY <1>2, <1>3, <2>1
  <2>2. CASE i \in 1..N
    <3>1. q[i].type = "PREPARE_SHUTDOWN"
        BY <1>2, <2>2
    <3>2. Queued(q, "PREPARE_SHUTDOWN")
        BY <2>2, <3>1 DEF Queued
    <3>3. j # N + 1
        BY <1>1, <1>2, <1>4, <3>2
    <3>4. j \in 1..N
        BY <1>3, <3>3
    <3> QED
        BY <1>2, <1>4, <2>2, <3>1, <3>4 DEF StartupFirst
  <2> QED
      BY <1>3, <2>1, <2>2
<1>5. ASSUME NEW w, AnswersAre(q, w), t = "repository" => v = w
      PROVE  AnswersAre(long, w)
    BY <1>1, <1>2, <1>3, <1>5 DEF AnswersAre
<1>6. ASSUME NEW w, OneQuit(q, w), t # "QUIT"
      PROVE  OneQuit(long, w)
  <2>1. PICK i \in 1..N :
            /\ q[i].type = "QUIT" /\ q[i].value = w
            /\ \A j \in 1..N : q[j].type = "QUIT" => j = i
      BY <1>6 DEF OneQuit
  <2>2. i \in 1..Len(long) /\ long[i] = q[i]
      BY <1>2, <1>3
  <2>3. \A j \in 1..Len(long) : long[j].type = "QUIT" => j = i
      BY <1>1, <1>2, <1>3, <1>6, <2>1
  <2> QED
      BY <2>1, <2>2, <2>3 DEF OneQuit
<1>7. ASSUME ~Queued(q, "QUIT"), t = "QUIT"
      PROVE  OneQuit(long, v)
  <2>1. \A j \in 1..Len(long) : long[j].type = "QUIT" => j = N + 1
      BY <1>1, <1>2, <1>3, <1>7 DEF Queued
  <2> QED
      BY <1>1, <1>2, <1>3, <1>7, <2>1 DEF OneQuit
<1> QED
    BY <1>4, <1>5, <1>6, <1>7 DEF long, e

(* QUIT is put behind the tasks, and stays there.                           *)
LEMMA QuitBehind ==
    ASSUME NEW q \in Seq(Tasks), ~Quitting(q)
    PROVE  QuitIsLast(Append(q, "QUIT"))
<1> DEFINE long == Append(q, "QUIT")
<1>1. /\ Len(q) \in Nat /\ Len(long) = Len(q) + 1 /\ long[Len(q) + 1] = "QUIT"
      /\ \A i \in 1..Len(q) : long[i] = q[i]
      /\ \A i \in 1..Len(long) : i \in 1..Len(q) \/ i = Len(q) + 1
      /\ long # <<>>
    OBVIOUS
<1> HIDE DEF long
<1>2. QuitIsLast(long)
    BY <1>1 DEF QuitIsLast, Quitting
<1> QED
    BY <1>2 DEF long

LEMMA QuitTaken ==
    ASSUME NEW q \in Seq(Tasks), QuitIsLast(q)
    PROVE  /\ Head(q) # "QUIT" => QuitIsLast(Tail(q))
           /\ Head(q) = "QUIT" => Len(q) = 1 /\ q[1] = "QUIT" /\ Tail(q) = <<>>
<1> DEFINE rest == Tail(q)
<1>0. q # <<>>
    BY DEF QuitIsLast
<1>1. /\ Len(q) \in Nat /\ Len(rest) = Len(q) - 1 /\ Head(q) = q[1]
      /\ 1 \in 1..Len(q) /\ Len(q) \in 1..Len(q) /\ rest \in Seq(Tasks)
      /\ \A i \in 1..Len(rest) : i + 1 \in 1..Len(q) /\ rest[i] = q[i + 1]
    BY <1>0
<1> HIDE DEF rest
<1>2. CASE Head(q) = "QUIT"
  <2>1. Len(q) = 1
      BY <1>1, <1>2 DEF QuitIsLast
  <2>2. Len(rest) = 0
      BY <1>1, <2>1
  <2>3. rest = <<>>
      BY <1>1, <2>2
  <2> QED
      BY <1>1, <1>2, <2>1, <2>3 DEF rest
<1>3. CASE Head(q) # "QUIT"
  <2>1. Len(q) # 1
      BY <1>1, <1>3 DEF QuitIsLast
  <2>2. Len(rest) # 0 /\ Len(rest) \in Nat
      BY <1>1, <2>1
  <2>3. rest # <<>>
      BY <2>2
  <2>4. \A i \in 1..Len(rest) : rest[i] = "QUIT" <=> i = Len(rest)
      BY <1>1 DEF QuitIsLast
  <2>5. QuitIsLast(rest)
      BY <2>3, <2>4 DEF QuitIsLast
  <2> QED
      BY <1>3, <2>5 DEF rest
<1> QED
    BY <1>2, <1>3

-----------------------------------------------------------------------------
(* The phases, one step of each kind at a time.                             *)

(* The phase of the start.                                                  *)
Phase == Waiting \/ Working \/ Quitted \/ Handed \/ Saving \/ Ended

LEMMA PhaseStartup ==
    ASSUME IInv, SaveInv, configs = 0, UNCHANGED configs,
           onPrepareStartup \/ onRepositoryData \/ onStartup
    PROVE  SaveInv'
<1>0. /\ events \in Seq(EventSet) /\ taskQ \in Seq(Tasks) /\ learned \in Nat
      /\ repository \in Nat
    BY QueueTypes DEF IInv, TypeOK
<1>1. /\ eventType = "module" /\ (learned = 0 => repository = 0) /\ Phase
    BY DEF SaveInv, Phase
<1>2. UNCHANGED <<eventType, learned, repository, module, taskQ, kernel, others,
                  inserts, shutdownCalled, shutdownEvent>>
    BY DEF onPrepareStartup, onRepositoryData, onStartup
<1>3. CASE onPrepareStartup
  <2>1. /\ state = "stopped" /\ state' = "prepare_startup"
        /\ UNCHANGED <<thread, rib, running, ready, events>>
      BY <1>3 DEF onPrepareStartup
  <2>2. Waiting
      BY <1>1, <2>1 DEF Phase, Working, Quitted, Handed, Saving, Ended
  <2>3. Waiting'
      BY <1>2, <2>1, <2>2 DEF Waiting, Before
  <2> QED
      BY <1>1, <1>2, <2>3 DEF SaveInv
<1>4. CASE onRepositoryData
  <2>1. /\ events # <<>> /\ Head(events).type = "repository" /\ kernel = "loop"
        /\ state \notin {"down", "gone"} /\ UNCHANGED state
      BY <1>4 DEF onRepositoryData, Dispatch, Idle
  <2>2. Queued(events, "repository")
      BY <1>0, <2>1, EventTaken
  <2>3. thread = "none" /\ state # "stopped"
      BY <1>1, <2>2 DEF IInv, OnceInv
  <2>4. Waiting
      BY <1>1, <2>1, <2>2, <2>3
         DEF Phase, Working, Quitted, Handed, Saving, Ended, After
  <2>5. state = "prepare_startup" /\ module = "set" /\ "startup" \notin ready
    <3>1. state = "prepare_startup" /\ module = "set"
        BY <2>3, <2>4 DEF Waiting
    <3>2. "startup" \notin ready
        BY <1>1, <2>3, <3>1 DEF IInv, OnceInv
    <3> QED
        BY <3>1, <3>2
  <2>6. Head(events).value = repository
      BY <1>0, <2>1, <2>4, PhaseTaken DEF Waiting
  <2>7. rib' = repository /\ thread' = "running"
    <3>1. rib = 0 /\ rib' = IF Head(events).value > 0 THEN Head(events).value ELSE rib
        BY <1>4, <2>4, <2>5 DEF Waiting, onRepositoryData
    <3>2. thread' = "running"
        BY <1>4, <2>3, <2>5 DEF onRepositoryData
    <3> QED
        BY <1>0, <2>6, <3>1, <3>2
  <2>8. ~running /\ ~shutdownCalled /\ ~Queued(events, "PREPARE_SHUTDOWN")
      BY <2>4, <2>5 DEF Waiting, Before
  <2> DEFINE q == Tail(events)
  <2>9. /\ q \in Seq(EventSet) /\ \A type : Queued(q, type) => Queued(events, type)
        /\ StartupFirst(q)
      BY <1>0, <2>1, <2>4, EventTaken, PhaseTaken DEF Waiting, Before
  <2>10. signalIsReadyForStartup(q)
      BY <1>4, <2>5 DEF onRepositoryData
  <2> HIDE DEF q
  <2>11. /\ "startup" \in ready' /\ "shutdown" \notin ready'
         /\ running' => "startup" \in others
         /\ StartupFirst(events') /\ ~Queued(events', "PREPARE_SHUTDOWN")
         /\ ~Queued(events', "QUIT") /\ (Queued(events', "STARTUP") => running')
    <3>1. "shutdown" \notin ready /\ ~Queued(events, "QUIT")
          /\ (Queued(events, "STARTUP") => running)
        BY <2>4 DEF Waiting, Before
    <3>2. ready' = ready \cup {"startup"}
        BY <2>10 DEF signalIsReadyForStartup
    <3>3. CASE "startup" \in others
      <4>1. running' = TRUE /\ events' = Append(q, Event("STARTUP", 0))
          BY <2>10, <3>3 DEF signalIsReadyForStartup
      <4>2. "STARTUP" \in EventTypes /\ 0 \in Nat
          BY DEF EventTypes
      <4>3. \A type : Queued(events', type) => Queued(q, type) \/ type = "STARTUP"
          BY <2>9, <4>1, <4>2, EventAdded
      <4>4. ~Queued(q, "PREPARE_SHUTDOWN") /\ ~Queued(q, "QUIT")
          BY <2>8, <2>9, <3>1
      <4>5. StartupFirst(events')
          BY <2>9, <4>1, <4>2, <4>4, PhaseAdded
      <4> QED
          BY <3>1, <3>2, <3>3, <4>1, <4>3, <4>4, <4>5
    <3>4. CASE "startup" \notin others
      <4>1. running' = running /\ events' = q
          BY <2>10, <3>4 DEF signalIsReadyForStartup
      <4> QED
          BY <2>8, <2>9, <3>1, <3>2, <4>1
    <3> QED
        BY <3>3, <3>4
  <2>12. Working'
      BY <1>2, <2>1, <2>4, <2>5, <2>7, <2>8, <2>11 DEF Waiting, Working, Before
  <2> QED
      BY <1>1, <1>2, <2>12 DEF SaveInv
<1>5. CASE onStartup
  <2>1. /\ events # <<>> /\ Head(events).type = "STARTUP" /\ kernel = "loop"
        /\ state \notin {"down", "gone"} /\ state' = "running"
        /\ events' = Tail(events) /\ UNCHANGED <<thread, rib, ready, running, reads>>
      BY <1>5 DEF onStartup, Dispatch, Idle
  <2>2. Queued(events, "STARTUP")
      BY <1>0, <2>1, EventTaken
  <2>3. Working
    <3>1. Waiting \/ Working
        BY <1>1, <2>1, <2>2 DEF Phase, Quitted, Handed, Saving, Ended, After
    <3>2. ASSUME Waiting PROVE FALSE
      <4>1. "startup" \in ready /\ module = "set" /\ thread = "none"
          BY <2>2, <3>2 DEF Waiting, Before
      <4> QED
          BY <1>1, <4>1 DEF IInv, OnceInv
    <3> QED
        BY <3>1, <3>2
  <2>4. /\ StartupFirst(events')
        /\ \A type : Queued(events', type) => Queued(events, type)
      BY <1>0, <2>1, <2>3, EventTaken, PhaseTaken DEF Working, Before
  <2>5. Working'
      BY <1>2, <2>1, <2>3, <2>4 DEF Working, Before
  <2> QED
      BY <1>1, <1>2, <2>5 DEF SaveInv
<1> QED
    BY <1>3, <1>4, <1>5

LEMMA PhaseShutdown ==
    ASSUME IInv, SaveInv, configs = 0, UNCHANGED configs,
           onPrepareShutdown \/ joined \/ onQuitComplete \/ onShutdown \/ Destroy
    PROVE  SaveInv'
<1>0. /\ events \in Seq(EventSet) /\ taskQ \in Seq(Tasks) /\ learned \in Nat
      /\ repository \in Nat
    BY QueueTypes DEF IInv, TypeOK
<1>1. /\ eventType = "module" /\ (learned = 0 => repository = 0) /\ Phase
    BY DEF SaveInv, Phase
<1>2. UNCHANGED <<eventType, learned, repository, shutdownCalled, reads>>
    BY DEF onPrepareShutdown, joined, onQuitComplete, onShutdown, Destroy
<1>3. CASE onPrepareShutdown
  <2>1. /\ events # <<>> /\ Head(events).type = "PREPARE_SHUTDOWN"
        /\ kernel = "loop" /\ events' = Tail(events) /\ state' = "prepare_shutdown"
        /\ state \notin {"down", "gone"} /\ UNCHANGED inserts
      BY <1>3 DEF onPrepareShutdown, Dispatch, Idle
  <2>2. Queued(events, "PREPARE_SHUTDOWN")
      BY <1>0, <2>1, EventTaken
  <2>3. Working
    <3>1. Waiting \/ Working
        BY <1>1, <2>1, <2>2 DEF Phase, Quitted, Handed, Saving, Ended, After
    <3>2. ASSUME Waiting PROVE FALSE
      <4>1. "startup" \in ready /\ module = "set" /\ thread = "none"
          BY <2>2, <3>2 DEF Waiting, Before
      <4> QED
          BY <1>1, <4>1 DEF IInv, OnceInv
    <3> QED
        BY <3>1, <3>2
  <2>4. thread = "running" /\ module = "set"
      BY <2>3 DEF Working, IInv, ThreadInv, ThreadHasModule
  <2>5. /\ taskQ' = Append(taskQ, "QUIT") /\ kernel' = "join"
        /\ UNCHANGED <<ready, running, shutdownEvent, thread, rib, module>>
      BY <1>3, <2>4 DEF onPrepareShutdown, unsetForwardingModule, quit
  <2>6. /\ ~Queued(events', "STARTUP") /\ ~Queued(events', "PREPARE_SHUTDOWN")
      BY <1>0, <2>1, <2>3, PhaseTaken DEF Working, Before
  <2>7. reads = 0 /\ ~Queued(events, "repository")
      BY <1>1, <2>4 DEF IInv, OnceInv
  <2>8. \A type : Queued(events', type) => Queued(events, type)
      BY <1>0, <2>1, EventTaken
  <2>9. After'
      BY <1>2, <2>2, <2>3, <2>6, <2>7, <2>8 DEF After, Working, Before
  <2>10. QuitIsLast(taskQ')
      BY <1>0, <2>3, <2>5, QuitBehind DEF Working, Before
  <2>11. Leads(taskQ', rib', learned')
    <3>1. "QUIT" \in Tasks /\ "QUIT" # "update" /\ Leads(taskQ, rib, learned)
        BY <2>3 DEF Tasks, Working
    <3>2. Leads(Append(taskQ, "QUIT"), rib, learned)
        BY <1>0, <3>1, AddedLeads
    <3> QED
        BY <1>2, <2>5, <3>2
  <2>12. Quitted'
      BY <2>1, <2>3, <2>4, <2>5, <2>8, <2>9, <2>10, <2>11
         DEF Quitted, Working, Before
  <2> QED
      BY <1>1, <1>2, <2>12 DEF SaveInv
<1>4. CASE joined
  <2>1. /\ kernel = "join" /\ thread = "over" /\ kernel' = "loop"
        /\ module' = "null" /\ thread' = "none"
        /\ UNCHANGED <<state, ready, events, inserts, shutdownEvent>>
      BY <1>4 DEF joined, Delete
  <2>2. Handed
      BY <1>1, <2>1 DEF Phase, Waiting, Working, Quitted, Saving, Ended
  <2>3. Handed'
      BY <1>2, <2>1, <2>2 DEF Handed, After
  <2> QED
      BY <1>1, <1>2, <2>3 DEF SaveInv
<1>5. CASE onQuitComplete
  <2>1. /\ events # <<>> /\ Head(events).type = "QUIT" /\ kernel = "loop"
        /\ state \notin {"down", "gone"} /\ events' = Tail(events)
        /\ inserts' = IF Head(events).value > 0
                      THEN Append(inserts, Head(events).value) ELSE inserts
        /\ UNCHANGED <<state, module, thread, kernel>>
      BY <1>5 DEF onQuitComplete, Dispatch, Idle
  <2>2. Queued(events, "QUIT")
      BY <1>0, <2>1, EventTaken
  <2>3. Handed
      BY <1>1, <2>1, <2>2
         DEF Phase, Waiting, Working, Quitted, Saving, Ended, Before
  <2>4. Head(events).value = learned /\ ~Queued(events', "QUIT")
      BY <1>0, <2>1, <2>3, PhaseTaken DEF Handed
  <2>5. \A type : Queued(events', type) => Queued(events, type)
      BY <1>0, <2>1, EventTaken
  <2>6. /\ thread = "none" /\ module = "null" /\ inserts = <<>>
        /\ state = "prepare_shutdown"
      BY <2>1, <2>3 DEF Handed
  <2>7. inserts' = <<learned>> \/ (inserts' = <<>> /\ repository = learned)
      BY <1>0, <1>1, <2>1, <2>4, <2>6
  <2>8. After'
      BY <1>2, <2>3, <2>5 DEF Handed, After
  <2>9. Saving'
      BY <1>2, <2>1, <2>4, <2>6, <2>7, <2>8 DEF Saving
  <2> QED
      BY <1>1, <1>2, <2>9 DEF SaveInv
<1>6. CASE onShutdown
  <2>1. /\ kernel = "loop" /\ state \notin {"down", "gone"} /\ shutdownEvent
        /\ state' = "down"
        /\ UNCHANGED <<module, thread, kernel, events, inserts>>
      BY <1>6 DEF onShutdown, Idle
  <2>2. Saving
      BY <1>1, <2>1 DEF Phase, Waiting, Working, Quitted, Handed, Ended, Before
  <2>3. Saving'
      BY <1>2, <2>1, <2>2 DEF Saving, After
  <2> QED
      BY <1>1, <1>2, <2>3 DEF SaveInv
<1>7. CASE Destroy
  <2>1. /\ state = "down" /\ inserts = <<>> /\ state' = "gone"
        /\ thread' = "none" /\ UNCHANGED <<kernel, inserts>>
      BY <1>7 DEF Destroy, Delete
  <2>2. Saving
      BY <1>1, <2>1 DEF Phase, Waiting, Working, Quitted, Handed, Ended
  <2>3. kernel = "loop" /\ repository = learned
      BY <2>1, <2>2 DEF Saving
  <2>4. Ended'
      BY <1>2, <2>1, <2>3 DEF Ended
  <2> QED
      BY <1>1, <1>2, <2>4 DEF SaveInv
<1> QED
    BY <1>3, <1>4, <1>5, <1>6, <1>7

(* The module's thread.                                                     *)
LEMMA PhaseRun ==
    ASSUME IInv, SaveInv, configs = 0, UNCHANGED configs, Run
    PROVE  SaveInv'
<1>0. /\ events \in Seq(EventSet) /\ taskQ \in Seq(Tasks) /\ learned \in Nat
      /\ rib \in Nat
    BY QueueTypes DEF IInv, TypeOK
<1>1. /\ eventType = "module" /\ (learned = 0 => repository = 0) /\ Phase
    BY DEF SaveInv, Phase
<1>2. /\ thread = "running" /\ taskQ # <<>> /\ taskQ' = Tail(taskQ)
      /\ UNCHANGED <<eventType, learned, repository, state, ready, kernel, running,
                     others, shutdownCalled, shutdownEvent, inserts, reads, module>>
    BY DEF Run, runUpdate, runRoutingInfo, runQuit
<1>3. Working \/ Quitted
    BY <1>1, <1>2 DEF Phase, Waiting, Handed, Saving, Ended
<1>4. Leads(taskQ, rib, learned)
    BY <1>3 DEF Working, Quitted
<1>5. Quitting(Tail(taskQ)) => Quitting(taskQ)
    BY <1>0, <1>2, TaskTaken
<1>6. CASE Head(taskQ) # "QUIT"
  <2>1. thread' = "running" /\ Leads(taskQ', rib', learned)
    <3>1. CASE runUpdate
      <4>1. Head(taskQ) = "update" /\ rib' = rib + 1 /\ UNCHANGED thread
          BY <3>1 DEF runUpdate
      <4> QED
          BY <1>0, <1>2, <1>4, <4>1, TakenLeads
    <3>2. CASE runRoutingInfo
      <4>1. Head(taskQ) = "GENERATE_ROUTING_INFO" /\ UNCHANGED <<rib, thread>>
          BY <3>2 DEF runRoutingInfo
      <4>2. Head(taskQ) # "update"
          BY <4>1
      <4> QED
          BY <1>0, <1>2, <1>4, <4>1, <4>2, TakenLeads
    <3>3. CASE runQuit
        BY <1>6, <3>3 DEF runQuit
    <3> QED
        BY <3>1, <3>2, <3>3 DEF Run
  <2>2. events' = events \/ events' = Append(events, Event("ROUTING_INFO", 0))
      BY <1>6 DEF Run, runUpdate, runRoutingInfo, runQuit, ToManager
  <2>3. /\ \A type : Queued(events', type) => Queued(events, type) \/ type = "ROUTING_INFO"
        /\ StartupFirst(events) => StartupFirst(events')
    <3>1. CASE events' = events
        BY <3>1
    <3>2. CASE events' = Append(events, Event("ROUTING_INFO", 0))
      <4>1. "ROUTING_INFO" \in EventTypes /\ 0 \in Nat
            /\ "ROUTING_INFO" \notin {"STARTUP", "PREPARE_SHUTDOWN"}
          BY DEF EventTypes
      <4>2. \A type : Queued(events', type) => Queued(events, type) \/ type = "ROUTING_INFO"
          BY <1>0, <3>2, <4>1, EventAdded
      <4>3. StartupFirst(events) => StartupFirst(events')
          BY <1>0, <3>2, <4>1, PhaseAdded
      <4> QED
          BY <4>2, <4>3
    <3> QED
        BY <2>2, <3>1, <3>2
  <2>4. CASE Working
    <3>1. Working'
        BY <1>2, <1>5, <2>1, <2>3, <2>4 DEF Working, Before
    <3> QED
        BY <1>1, <1>2, <3>1 DEF SaveInv
  <2>5. CASE Quitted
    <3>1. QuitIsLast(taskQ')
        BY <1>0, <1>2, <1>6, <2>5, QuitTaken DEF Quitted
    <3>2. Quitted'
        BY <1>2, <2>1, <2>3, <2>5, <3>1 DEF Quitted, After
    <3> QED
        BY <1>1, <1>2, <3>2 DEF SaveInv
  <2> QED
      BY <1>3, <2>4, <2>5
<1>7. CASE Head(taskQ) = "QUIT"
  <2>1. Quitted
    <3>1. Quitting(taskQ)
        BY <1>0, <1>2, <1>7, TaskTaken
    <3> QED
        BY <1>3, <3>1 DEF Working, Before
  <2>2. Len(taskQ) = 1 /\ taskQ[1] = "QUIT"
      BY <1>0, <1>7, <2>1, QuitTaken DEF Quitted
  <2>3. rib = learned
      BY <1>0, <1>4, <2>2, LastTaskLeads
  <2>4. thread' = "over" /\ events' = Append(events, Event("QUIT", rib))
      BY <1>1, <1>7 DEF Run, runUpdate, runRoutingInfo, runQuit, ToManager
  <2>5. "QUIT" \in EventTypes /\ "QUIT" \notin {"repository", "STARTUP", "PREPARE_SHUTDOWN"}
      BY DEF EventTypes
  <2>6. OneQuit(events', learned)
      BY <1>0, <2>1, <2>3, <2>4, <2>5, PhaseAdded DEF Quitted
  <2>7. \A type : Queued(events', type) => Queued(events, type) \/ type = "QUIT"
      BY <1>0, <2>4, <2>5, EventAdded
  <2>8. After'
      BY <1>2, <2>1, <2>5, <2>7 DEF Quitted, After
  <2>9. Handed'
      BY <1>2, <2>1, <2>4, <2>6, <2>8 DEF Quitted, Handed
  <2> QED
      BY <1>1, <1>2, <2>9 DEF SaveInv
<1> QED
    BY <1>6, <1>7

(* The data store.                                                          *)
LEMMA PhaseInsert ==
    ASSUME IInv, SaveInv, configs = 0, UNCHANGED configs, _insertRepository
    PROVE  SaveInv'
<1>1. /\ eventType = "module" /\ (learned = 0 => repository = 0) /\ Phase
    BY DEF SaveInv, Phase
<1>2. /\ inserts # <<>> /\ repository' = Head(inserts) /\ inserts' = Tail(inserts)
      /\ UNCHANGED <<eventType, learned, state, thread, kernel, module, events,
                     reads, shutdownCalled>>
    BY DEF _insertRepository
<1>3. Saving
    BY <1>1, <1>2 DEF Phase, Waiting, Working, Quitted, Handed, Ended, Before
<1>4. inserts = <<learned>>
    BY <1>2, <1>3 DEF Saving
<1>5. inserts' = <<>> /\ repository' = learned
    BY <1>2, <1>4
<1>6. Saving'
    BY <1>2, <1>3, <1>5 DEF Saving, After
<1> QED
    BY <1>1, <1>2, <1>5, <1>6 DEF SaveInv

LEMMA PhaseRead ==
    ASSUME IInv, SaveInv, configs = 0, UNCHANGED configs, _readRepository
    PROVE  SaveInv'
<1>0. events \in Seq(EventSet) /\ repository \in Nat
    BY QueueTypes DEF IInv, TypeOK
<1>1. /\ eventType = "module" /\ (learned = 0 => repository = 0) /\ Phase
    BY DEF SaveInv, Phase
<1>2. /\ reads > 0 /\ events' = Append(events, Event("repository", repository))
      /\ UNCHANGED <<eventType, learned, repository, state, thread, kernel, module,
                     inserts, shutdownCalled, shutdownEvent, running, ready, others,
                     taskQ, rib>>
    BY DEF _readRepository
<1>3. thread = "none" /\ reads # 0
  <2>1. reads # 0
      BY <1>2
  <2>2. thread = "none"
      BY <1>1, <2>1 DEF IInv, OnceInv
  <2> QED
      BY <2>1, <2>2
<1>4. "repository" \in EventTypes /\ "repository" \notin {"QUIT", "STARTUP", "PREPARE_SHUTDOWN"}
    BY DEF EventTypes
<1>5. CASE Waiting
  <2>1. \A type : Queued(events', type) => Queued(events, type) \/ type = "repository"
      BY <1>0, <1>2, <1>4, EventAdded
  <2>2. StartupFirst(events') /\ AnswersAre(events', repository)
      BY <1>0, <1>2, <1>4, <1>5, PhaseAdded DEF Waiting, Before
  <2>3. Before'
      BY <1>2, <1>4, <1>5, <2>1, <2>2 DEF Waiting, Before
  <2>4. Waiting'
      BY <1>2, <1>5, <2>2, <2>3 DEF Waiting
  <2> QED
      BY <1>1, <1>2, <2>4 DEF SaveInv
<1>6. CASE Ended
  <2>1. Ended'
      BY <1>2, <1>6 DEF Ended
  <2> QED
      BY <1>1, <1>2, <2>1 DEF SaveInv
<1> QED
    BY <1>1, <1>3, <1>5, <1>6 DEF Phase, Working, Quitted, Handed, Saving, After

(* An event of no consequence here.                                         *)
LEMMA PhaseRoutingInfo ==
    ASSUME IInv, SaveInv, configs = 0, UNCHANGED configs, onRoutingInfoComplete
    PROVE  SaveInv'
<1>0. events \in Seq(EventSet)
    BY QueueTypes DEF IInv
<1>1. /\ eventType = "module" /\ (learned = 0 => repository = 0) /\ Phase
    BY DEF SaveInv, Phase
<1>2. /\ events # <<>> /\ Head(events).type = "ROUTING_INFO" /\ events' = Tail(events)
      /\ UNCHANGED <<eventType, learned, repository, state, thread, kernel, module,
                     inserts, reads, shutdownCalled, shutdownEvent, running, ready,
                     others, taskQ, rib>>
    BY DEF onRoutingInfoComplete, Dispatch
<1>3. \A type : Queued(events', type) => Queued(events, type)
    BY <1>0, <1>2, EventTaken
<1>4. /\ StartupFirst(events) => StartupFirst(events')
      /\ AnswersAre(events, repository) => AnswersAre(events', repository)
      /\ OneQuit(events, learned) => OneQuit(events', learned)
    BY <1>0, <1>2, PhaseTaken
<1>5. /\ Before => Before'
      /\ After => After'
    BY <1>2, <1>3, <1>4 DEF Before, After
<1>6. Waiting => Waiting'
    BY <1>2, <1>4, <1>5 DEF Waiting
<1>7. Working => Working'
    BY <1>2, <1>5 DEF Working
<1>8. Quitted => Quitted'
    BY <1>2, <1>3, <1>5 DEF Quitted
<1>9. Handed => Handed'
    BY <1>2, <1>4, <1>5 DEF Handed
<1>10. Saving => Saving'
    BY <1>2, <1>3, <1>5 DEF Saving
<1>11. Ended => Ended'
    BY <1>2 DEF Ended
<1> QED
    BY <1>1, <1>2, <1>6, <1>7, <1>8, <1>9, <1>10, <1>11 DEF SaveInv, Phase

(* A contact is a task for the module, and learned, while there is one.     *)
LEMMA PhaseGive ==
    ASSUME IInv, SaveInv, configs = 0, UNCHANGED configs, Idle, state # "stopped",
           NEW l, l = <<"update">> \/ l = <<"update", "GENERATE_ROUTING_INFO">>,
           Give(l)
    PROVE  SaveInv'
<1>0. /\ taskQ \in Seq(Tasks) /\ learned \in Nat
    BY QueueTypes DEF IInv, TypeOK
<1>1. /\ eventType = "module" /\ (learned = 0 => repository = 0) /\ Phase
    BY DEF SaveInv, Phase
<1>2. /\ taskQ' = IF module = "set" THEN taskQ \o l ELSE taskQ
      /\ learned' = IF module = "set" THEN learned + 1 ELSE learned
      /\ UNCHANGED <<eventType, repository, state, thread, kernel, module, events,
                     inserts, reads, shutdownCalled, shutdownEvent, running, ready,
                     others, rib>>
    BY <1>1 DEF Give
<1>3. kernel = "loop" /\ state \notin {"down", "gone"}
    BY DEF Idle
<1>4. (learned' = 0 => repository = 0)
    BY <1>0, <1>1, <1>2
<1>5. ASSUME NEW a, Leads(taskQ, a, learned), module = "set"
      PROVE  Leads(taskQ', a, learned')
  <2>1. "update" \in Tasks /\ "GENERATE_ROUTING_INFO" \in Tasks
        /\ "GENERATE_ROUTING_INFO" # "update"
      BY DEF Tasks
  <2> DEFINE one == Append(taskQ, "update")
  <2>2. one \in Seq(Tasks) /\ Leads(one, a, learned + 1) /\ learned + 1 \in Nat
      BY <1>0, <1>5, <2>1, AddedLeads
  <2>3. taskQ \o <<"update">> = one
      BY <1>0, <2>1
  <2>4. taskQ \o <<"update", "GENERATE_ROUTING_INFO">> = Append(one, "GENERATE_ROUTING_INFO")
      BY <1>0, <2>1
  <2> HIDE DEF one
  <2>5. Leads(Append(one, "GENERATE_ROUTING_INFO"), a, learned + 1)
      BY <2>1, <2>2, AddedLeads
  <2> QED
      BY <1>2, <1>5, <2>2, <2>3, <2>4, <2>5
<1>6. Quitting(taskQ') => Quitting(taskQ)
  <2>0. /\ <<"update", "GENERATE_ROUTING_INFO">> \in Seq(Tasks)
        /\ <<"update">> \in Seq(Tasks)
      BY DEF Tasks
  <2>2. ~Quitting(<<"update", "GENERATE_ROUTING_INFO">>)
      BY DEF Quitting
  <2>3. ~Quitting(<<"update">>)
      BY DEF Quitting
  <2>1. l \in Seq(Tasks) /\ ~Quitting(l)
      BY <2>0, <2>2, <2>3
  <2> QED
      BY <1>0, <1>2, <2>1, TasksAdded
<1>7. CASE Waiting
  <2>1. Waiting'
      BY <1>2, <1>5, <1>6, <1>7 DEF Waiting, Before
  <2> QED
      BY <1>1, <1>2, <1>4, <2>1 DEF SaveInv
<1>8. CASE Working
  <2>1. module = "set"
      BY <1>8 DEF Working, IInv, ThreadInv, ThreadHasModule
  <2>2. Working'
      BY <1>2, <1>5, <1>6, <1>8, <2>1 DEF Working, Before
  <2> QED
      BY <1>1, <1>2, <1>4, <2>2 DEF SaveInv
<1>9. CASE Handed
  <2>1. module = "null"
      BY <1>3, <1>9 DEF Handed
  <2>2. Handed'
      BY <1>2, <1>9, <2>1 DEF Handed, After
  <2> QED
      BY <1>1, <1>2, <1>4, <2>2 DEF SaveInv
<1>10. CASE Saving
  <2>1. Saving'
      BY <1>2, <1>10 DEF Saving, After
  <2> QED
      BY <1>1, <1>2, <1>4, <2>1 DEF SaveInv
<1> QED
    BY <1>1, <1>3, <1>7, <1>8, <1>9, <1>10 DEF Phase, Quitted, Ended

(* The other managers, the call of the shutdown, and the next start.        *)
LEMMA PhaseOthers ==
    ASSUME IInv, SaveInv, configs = 0, UNCHANGED configs,
           OthersReadyForStartup \/ shutdown
    PROVE  SaveInv'
<1>0. events \in Seq(EventSet)
    BY QueueTypes DEF IInv
<1>1. /\ eventType = "module" /\ (learned = 0 => repository = 0) /\ Phase
    BY DEF SaveInv, Phase
<1>2. UNCHANGED <<eventType, learned, repository, state, thread, kernel, module,
                  inserts, reads, shutdownEvent, ready, taskQ, rib>>
    BY DEF OthersReadyForStartup, shutdown
<1>3. CASE OthersReadyForStartup
  <2>1. /\ state = "prepare_startup" /\ "startup" \notin others
        /\ others' = others \cup {"startup"} /\ UNCHANGED shutdownCalled
        /\ \/ /\ "startup" \in ready /\ running' = TRUE
              /\ events' = Append(events, Event("STARTUP", 0))
           \/ UNCHANGED <<running, events>>
      BY <1>3 DEF OthersReadyForStartup
  <2>2. Before /\ (Waiting \/ Working)
      BY <1>1, <2>1 DEF Phase, Waiting, Working, Quitted, Handed, Saving, Ended
  <2>3. ~running /\ ~shutdownCalled /\ ~Queued(events, "PREPARE_SHUTDOWN")
      BY <2>1, <2>2 DEF Before
  <2>4. /\ \A type : Queued(events', type) =>
               Queued(events, type) \/ (type = "STARTUP" /\ running')
        /\ StartupFirst(events')
        /\ AnswersAre(events, repository) => AnswersAre(events', repository)
    <3>1. CASE UNCHANGED <<running, events>>
        BY <2>2, <3>1 DEF Before
    <3>2. CASE running' = TRUE /\ events' = Append(events, Event("STARTUP", 0))
      <4>1. "STARTUP" \in EventTypes /\ 0 \in Nat /\ "STARTUP" # "repository"
          BY DEF EventTypes
      <4>2. \A type : Queued(events', type) => Queued(events, type) \/ type = "STARTUP"
          BY <1>0, <3>2, <4>1, EventAdded
      <4>3. StartupFirst(events')
          BY <1>0, <2>2, <2>3, <3>2, <4>1, PhaseAdded DEF Before
      <4>4. AnswersAre(events, repository) => AnswersAre(events', repository)
          BY <1>0, <3>2, <4>1, PhaseAdded
      <4> QED
          BY <3>2, <4>2, <4>3, <4>4
    <3> QED
        BY <2>1, <3>1, <3>2
  <2>5. Before'
      BY <1>2, <2>1, <2>2, <2>3, <2>4 DEF Before
  <2>6. CASE Waiting
    <3>1. Waiting'
        BY <1>2, <2>4, <2>5, <2>6 DEF Waiting
    <3> QED
        BY <1>1, <1>2, <3>1 DEF SaveInv
  <2>7. CASE Working
    <3>1. Working'
        BY <1>2, <2>5, <2>7 DEF Working
    <3> QED
        BY <1>1, <1>2, <3>1 DEF SaveInv
  <2> QED
      BY <2>2, <2>6, <2>7
<1>4. CASE shutdown
  <2>1. /\ running /\ ~shutdownCalled /\ shutdownCalled' = TRUE
        /\ events' = Append(events, Event("PREPARE_SHUTDOWN", 0))
        /\ UNCHANGED <<running, others>>
      BY <1>4 DEF shutdown
  <2>2. CASE Ended
    <3>1. Ended'
        BY <1>2, <2>2 DEF Ended
    <3> QED
        BY <1>1, <1>2, <3>1 DEF SaveInv
  <2>3. CASE Waiting \/ Working
    <3>0. Before
        BY <2>3 DEF Waiting, Working
    <3>1. "PREPARE_SHUTDOWN" \in EventTypes /\ 0 \in Nat
          /\ "PREPARE_SHUTDOWN" # "repository" /\ "PREPARE_SHUTDOWN" # "STARTUP"
        BY DEF EventTypes
    <3>2. ~Queued(events, "PREPARE_SHUTDOWN")
        BY <2>1, <3>0 DEF Before
    <3>3. \A type : Queued(events', type) => Queued(events, type) \/ type = "PREPARE_SHUTDOWN"
        BY <1>0, <2>1, <3>1, EventAdded
    <3>4. StartupFirst(events')
        BY <1>0, <2>1, <3>0, <3>1, <3>2, PhaseAdded DEF Before
    <3>5. AnswersAre(events, repository) => AnswersAre(events', repository)
        BY <1>0, <2>1, <3>1, PhaseAdded
    <3>6. Before'
        BY <1>2, <2>1, <3>0, <3>1, <3>3, <3>4 DEF Before
    <3>7. Waiting => Waiting'
        BY <1>2, <3>5, <3>6 DEF Waiting
    <3>8. Working => Working'
        BY <1>2, <3>6 DEF Working
    <3> QED
        BY <1>1, <1>2, <2>3, <3>7, <3>8 DEF SaveInv
  <2> QED
      BY <1>1, <2>1, <2>2, <2>3 DEF Phase, Quitted, Handed, Saving, After
<1> QED
    BY <1>3, <1>4

LEMMA PhaseOthersStop ==
    ASSUME IInv, SaveInv, configs = 0, UNCHANGED configs, OthersReadyForShutdown
    PROVE  SaveInv'
<1>1. /\ eventType = "module" /\ (learned = 0 => repository = 0) /\ Phase
    BY DEF SaveInv, Phase
<1>2. /\ state = "prepare_shutdown"
      /\ "shutdown" \notin ready => UNCHANGED shutdownEvent
      /\ UNCHANGED <<eventType, learned, repository, state, thread, kernel, module,
                     inserts, reads, events, shutdownCalled, ready, taskQ, rib>>
    BY DEF OthersReadyForShutdown
<1>3. Quitted \/ Handed \/ Saving
    BY <1>1, <1>2 DEF Phase, Waiting, Working, Ended
<1>4. Quitted => Quitted'
    BY <1>2 DEF Quitted, After
<1>5. Handed => Handed'
    BY <1>2 DEF Handed, After
<1>6. Saving => Saving'
    BY <1>2 DEF Saving, After
<1> QED
    BY <1>1, <1>2, <1>3, <1>4, <1>5, <1>6 DEF SaveInv

LEMMA PhaseRestart ==
    ASSUME IInv, SaveInv, configs = 0, UNCHANGED configs, Restart
    PROVE  SaveInv'
<1>1. /\ eventType = "module" /\ (learned = 0 => repository = 0) /\ Phase
      /\ learned \in Nat
    BY DEF SaveInv, Phase, IInv, TypeOK
<1>2. /\ state = "gone" /\ state' = "stopped" /\ thread' = "none"
      /\ module' = "set" /\ kernel' = "loop" /\ eventType' = "module"
      /\ taskQ' = <<>> /\ rib' = 0 /\ events' = <<>> /\ inserts' = <<>>
      /\ running' = FALSE /\ ready' = {} /\ shutdownCalled' = FALSE
      /\ shutdownEvent' = FALSE /\ UNCHANGED <<repository, learned>>
    BY DEF Restart
<1>3. repository = learned
    BY <1>1, <1>2 DEF Phase, Waiting, Working, Quitted, Handed, Saving, Ended
<1>4. Leads(taskQ', repository', learned')
    BY <1>1, <1>2, <1>3, NoTasksLead
<1>5. StartupFirst(events') /\ AnswersAre(events', repository')
    BY <1>2 DEF StartupFirst, AnswersAre
<1>6. \A type : ~Queued(events', type)
    BY <1>2, EmptyQueue
<1>7. ~Quitting(taskQ')
    BY <1>2, EmptyQueue
<1>8. Before'
    BY <1>2, <1>5, <1>6, <1>7 DEF Before
<1>9. Waiting'
    BY <1>2, <1>4, <1>5, <1>8 DEF Waiting
<1> QED
    BY <1>1, <1>2, <1>9 DEF SaveInv

(* What the module learned before the shutdown is in the repository when    *)
(* the process ends, start after start, as long as no configuration takes   *)
(* the module away: the QUIT task comes after all others, its event carries *)
(* the table, and the manager is ready only when the data store has it      *)
(* (ForwarderAsynchronous::quit, onForwardingTaskComplete).                 *)
THEOREM LearnedSaved == Spec => []LearnedIsSaved
<1>1. Init => SaveInv
  <2> SUFFICES ASSUME Init PROVE SaveInv
      OBVIOUS
  <2>1. Leads(taskQ, repository, learned)
      BY NoTasksLead DEF Init
  <2>2. StartupFirst(events) /\ AnswersAre(events, repository)
      BY DEF Init, StartupFirst, AnswersAre
  <2>3. \A type : ~Queued(events, type)
      BY EmptyQueue DEF Init
  <2>4. ~Quitting(taskQ)
      BY EmptyQueue DEF Init
  <2>5. Before
      BY <2>2, <2>3, <2>4 DEF Init, Before
  <2>6. Waiting
      BY <2>1, <2>2, <2>5 DEF Init, Waiting
  <2> QED
      BY <2>6 DEF SaveInv, Init
<1>2. IInv /\ SaveInv /\ [Next]_vars => SaveInv'
  <2> SUFFICES ASSUME IInv, SaveInv, [Next]_vars, configs' = 0 PROVE SaveInv'
      BY DEF SaveInv
  <2>1. configs \in Nat
      BY ForwardingConstants DEF IInv, TypeOK
  <2>2. ASSUME Configure PROVE FALSE
    <3>1. configs' = configs + 1
        BY <2>2 DEF Configure
    <3> QED
        BY <2>1, <3>1
  <2>3. CASE UNCHANGED vars
      BY <2>3 DEF SaveInv, Waiting, Working, Quitted, Handed, Saving, Ended,
         Before, After
  <2>4. CASE Handle
    <3>1. UNCHANGED configs
        BY <2>4 DEF Handle, onPrepareStartup, onRepositoryData, onStartup,
           onRoutingInfoComplete, onPrepareShutdown, onQuitComplete, onShutdown,
           joined, Destroy
    <3> QED
        BY <2>4, <3>1, PhaseStartup, PhaseShutdown, PhaseRoutingInfo DEF Handle
  <2>5. CASE Run
    <3>1. UNCHANGED configs
        BY <2>5 DEF Run, runUpdate, runRoutingInfo, runQuit
    <3> QED
        BY <2>5, <3>1, PhaseRun
  <2>6. CASE Store
    <3>1. UNCHANGED configs
        BY <2>6 DEF Store, _insertRepository, _readRepository
    <3> QED
        BY <2>6, <3>1, PhaseInsert, PhaseRead DEF Store
  <2>7. CASE onNewNeighbor \/ onEndNeighbor \/ onRoutingInformation
    <3>1. /\ Idle /\ state # "stopped"
          /\ \/ Give(<<"update">>)
             \/ Give(<<"update", "GENERATE_ROUTING_INFO">>)
        BY <2>7 DEF onNewNeighbor, onEndNeighbor, onRoutingInformation, Started
    <3>2. UNCHANGED configs
        BY <3>1 DEF Give
    <3>3. CASE Give(<<"update">>)
        BY <2>1, <3>1, <3>2, <3>3, PhaseGive
    <3>4. CASE Give(<<"update", "GENERATE_ROUTING_INFO">>)
        BY <2>1, <3>1, <3>2, <3>4, PhaseGive
    <3> QED
        BY <3>1, <3>3, <3>4
  <2>8. CASE (\E d \in BOOLEAN : onConfigNone(d)) \/ onConfigProphet
      BY <2>2, <2>8 DEF onConfigNone, onConfigProphet
  <2>9. CASE shutdown \/ OthersReadyForStartup
    <3>1. UNCHANGED configs
        BY <2>9 DEF shutdown, OthersReadyForStartup
    <3> QED
        BY <2>9, <3>1, PhaseOthers
  <2>10. CASE OthersReadyForShutdown
    <3>1. UNCHANGED configs
        BY <2>10 DEF OthersReadyForShutdown
    <3> QED
        BY <2>10, <3>1, PhaseOthersStop
  <2>11. CASE Restart
    <3>1. UNCHANGED configs
        BY <2>11 DEF Restart
    <3> QED
        BY <2>11, <3>1, PhaseRestart
  <2> QED
      BY <2>3, <2>4, <2>5, <2>6, <2>7, <2>8, <2>9, <2>10, <2>11
         DEF Next, Environment
<1>3. SaveInv => LearnedIsSaved
    BY DEF SaveInv, LearnedIsSaved, Waiting, Working, Quitted, Handed, Saving,
       Ended
<1> QED
    BY <1>1, <1>2, <1>3, Always, PTL DEF Spec
=============================================================================
