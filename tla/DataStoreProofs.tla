--------------------------- MODULE DataStoreProofs ---------------------------
(***************************************************************************)
(* Proofs about DataStore, for any sets of data objects and nodes, any      *)
(* create times, and any number of calls, restarts and crashes.             *)
(***************************************************************************)
EXTENDS DataStore, TLAPS, FiniteSetTheorems, SequenceTheorems,
        WellFoundedInduction

(***************************************************************************)
(* The inductive invariant                                                  *)
(***************************************************************************)

(* Tasks whose argument is what their type wants.                           *)
GoodTasks ==
    {t \in Tasks :
        /\ t.type \in {"INSERT_DATAOBJECT", "DELETE_DATAOBJECT",
                       "DELETE_DATAOBJECT_BY_ID"} => t.arg \in DataObjects
        /\ t.type = "INSERT_REPOSITORY" => t.arg \subseteq DataObjects}

TypeInv ==
    /\ TypeOK
    /\ taskQ \in Seq(GoodTasks)
    /\ task \in GoodTasks \cup {NoTask}

(* A cancellation is part of stop().                                        *)
WaitInv ==
    /\ WaitIsSafe
    /\ cancelled => kernel \in {"cancelling", "joining", "down"}

Sorted(l) == \A i, j \in 1..Len(l) : i < j => ~Before(l[j], l[i])

-----------------------------------------------------------------------------
(***************************************************************************)
(* The sorted list                                                          *)
(***************************************************************************)
LEMMA LeastNatural ==
    ASSUME NEW T, T \subseteq Nat, T # {}
    PROVE  \E x \in T : \A y \in T : x <= y
<1> DEFINE R == OpToRel(<, Nat)
<1>1. IsWellFoundedOn(R, Nat)
    BY NatLessThanWellFounded
<1> HIDE DEF R
<1>2. PICK x \in T : \A y \in T : <<y, x>> \notin R
    BY <1>1, WFMin
<1>3. ASSUME NEW y \in T, y < x PROVE FALSE
  <2>1. <<y, x>> \in Nat \X Nat /\ <<y, x>>[1] < <<y, x>>[2]
      BY <1>3
  <2>2. <<y, x>> \in R
      BY <2>1 DEF R, OpToRel
  <2> QED
      BY <1>2, <2>2
<1> QED
    BY <1>3

(* insert() finds the first task that the new one precedes, or the end.     *)
LEMMA PlaceFound ==
    ASSUME NEW l \in Seq(GoodTasks), NEW t
    PROVE  LET p == Place(t, l)
           IN  /\ p \in 1..(Len(l) + 1)
               /\ p <= Len(l) => Before(t, l[p])
               /\ \A j \in 1..(p - 1) : ~Before(t, l[j])
<1> DEFINE T == {i \in 1..Len(l) : Before(t, l[i])}
<1>1. CASE T = {}
  <2>1. Place(t, l) = Len(l) + 1
      BY <1>1 DEF Place
  <2> QED
      BY <1>1, <2>1
<1>2. CASE T # {}
  <2>0. T \subseteq Nat
      OBVIOUS
  <2>1. PICK i \in T : \A j \in T : i <= j
    <3> HIDE DEF T
    <3> QED
        BY <1>2, <2>0, LeastNatural
  <2>2. \A j \in 1..(i - 1) : ~Before(t, l[j])
      BY <2>1
  <2>3. \E k \in 1..Len(l) : Before(t, l[k])
                             /\ \A j \in 1..(k - 1) : ~Before(t, l[j])
      BY <2>1, <2>2
  <2>4. Place(t, l) = CHOOSE k \in 1..Len(l) :
                          Before(t, l[k])
                          /\ \A j \in 1..(k - 1) : ~Before(t, l[j])
      BY <1>2 DEF Place
  <2>5. /\ Place(t, l) \in 1..Len(l)
        /\ Before(t, l[Place(t, l)])
        /\ \A j \in 1..(Place(t, l) - 1) : ~Before(t, l[j])
      BY <2>3, <2>4
  <2> QED
      BY <2>5
<1> QED
    BY <1>1, <1>2

(* The list that insert() leaves is one task longer ...                     *)
LEMMA InsertType ==
    ASSUME NEW l \in Seq(GoodTasks), NEW t \in GoodTasks,
           NEW p \in 1..(Len(l) + 1)
    PROVE  /\ InsertAt(l, p, t) \in Seq(GoodTasks)
           /\ Len(InsertAt(l, p, t)) = Len(l) + 1
           /\ InsertAt(l, p, t) # <<>>
<1> DEFINE n == Len(l) + 1
           e(i) == IF i < p THEN l[i] ELSE IF i = p THEN t ELSE l[i - 1]
           r == [i \in 1..n |-> e(i)]
<1>1. r = InsertAt(l, p, t)
    BY DEF InsertAt
<1>2. \A i \in 1..n : e(i) \in GoodTasks
    OBVIOUS
<1>3. n \in Nat
    OBVIOUS
<1> HIDE DEF e, n
<1>4. r \in [1..n -> GoodTasks]
    BY <1>2
<1>5. r \in Seq(GoodTasks) /\ Len(r) = n
    BY <1>3, <1>4
<1>6. n > 0
    BY DEF n
<1> QED
    BY <1>1, <1>5, <1>6 DEF n

(* Before is a strict order, and what does not precede is transitive.       *)
LEMMA BeforeOrder ==
    ASSUME NEW a \in GoodTasks, NEW b \in GoodTasks, NEW c \in GoodTasks
    PROVE  /\ ~(Before(a, b) /\ Before(b, a))
           /\ Before(a, b) /\ Before(b, c) => Before(a, c)
<1>1. \A x \in GoodTasks : x.timestamp \in Nat /\ priority(x.type) \in 0..2
    BY DEF GoodTasks, Tasks, priority
<1> QED
    BY <1>1 DEF Before

(* ... and as sorted as before.                                             *)
LEMMA InsertSorted ==
    ASSUME NEW l \in Seq(GoodTasks), NEW t \in GoodTasks, Sorted(l)
    PROVE  Sorted(InsertAt(l, Place(t, l), t))
<1> DEFINE p == Place(t, l)
           r == InsertAt(l, p, t)
<1>1. /\ p \in 1..(Len(l) + 1)
      /\ p <= Len(l) => Before(t, l[p])
      /\ \A j \in 1..(p - 1) : ~Before(t, l[j])
    BY PlaceFound
<1> HIDE DEF p
<1>2. Len(r) = Len(l) + 1
    BY <1>1, InsertType
<1>3. /\ \A i \in 1..(Len(l) + 1) : i < p => r[i] = l[i]
      /\ r[p] = t
      /\ \A i \in 1..(Len(l) + 1) : i > p => r[i] = l[i - 1]
    BY <1>1 DEF InsertAt
<1> HIDE DEF r
<1>4. \A i \in 1..Len(l) : l[i] \in GoodTasks
    OBVIOUS
<1>5. ASSUME NEW k \in p..Len(l), Before(l[k], t) PROVE FALSE
  <2>1. Before(t, l[p]) /\ l[p] \in GoodTasks /\ l[k] \in GoodTasks
      BY <1>1, <1>4
  <2>2. Before(l[k], l[p])
      BY <1>5, <2>1, BeforeOrder
  <2>3. CASE k = p
      BY <1>5, <2>1, <2>3, BeforeOrder
  <2>4. CASE k # p
      BY <1>1, <2>2, <2>4 DEF Sorted
  <2> QED
      BY <2>3, <2>4
<1>6. ASSUME NEW i \in 1..(Len(l) + 1), NEW j \in 1..(Len(l) + 1), i < j
      PROVE  ~Before(r[j], r[i])
  <2>1. CASE j < p
      BY <1>1, <1>3, <1>6, <2>1 DEF Sorted
  <2>2. CASE j = p
    <3>1. r[j] = t /\ r[i] = l[i] /\ i \in 1..(p - 1)
        BY <1>1, <1>3, <1>6, <2>2
    <3> QED
        BY <1>1, <3>1
  <2>3. CASE j > p /\ i = p
    <3>1. r[j] = l[j - 1] /\ r[i] = t /\ j - 1 \in p..Len(l)
        BY <1>1, <1>3, <2>3
    <3> QED
        BY <1>5, <3>1
  <2>4. CASE j > p /\ i # p
    <3> DEFINE h == IF i < p THEN i ELSE i - 1
    <3>1. r[j] = l[j - 1] /\ r[i] = l[h]
        BY <1>1, <1>3, <1>6, <2>4
    <3>2. h \in 1..Len(l) /\ j - 1 \in 1..Len(l) /\ h < j - 1
        BY <1>1, <1>6, <2>4
    <3> QED
        BY <3>1, <3>2 DEF Sorted
  <2> QED
      BY <1>1, <2>1, <2>2, <2>3, <2>4
<1>7. r = InsertAt(l, Place(t, l), t)
    BY DEF r, p
<1> QED
    BY <1>2, <1>6, <1>7 DEF Sorted
(* What cancelDataObjectQueries() leaves is a part of the list, in order.   *)
LEMMA CancelKeepsOrder ==
    ASSUME TypeInv, NEW n \in Nodes, cancelDataObjectQueries(n)
    PROVE  /\ taskQ' \in Seq(GoodTasks)
           /\ Sorted(taskQ) => Sorted(taskQ')
<1> DEFINE Left == {i \in 1..Len(taskQ) : ~Cancelled(n, taskQ[i])}
           m == Cardinality(Left)
<1>0. taskQ \in Seq(GoodTasks) /\ Len(taskQ) \in Nat
    BY DEF TypeInv
<1>1. IsFiniteSet(Left) /\ m \in Nat
  <2>1. IsFiniteSet(1..Len(taskQ))
      BY <1>0, FS_Interval
  <2>2. IsFiniteSet(Left)
      BY <2>1, FS_Subset
  <2> QED
      BY <2>2, FS_CardinalityType
<1>2. Left \subseteq 1..Len(taskQ)
    OBVIOUS
<1>3. PICK g \in [1..m -> Left] :
          /\ \A i, j \in DOMAIN g : i < j => g[i] < g[j]
          /\ taskQ' = [k \in DOMAIN g |-> taskQ[g[k]]]
    BY DEF cancelDataObjectQueries
<1> HIDE DEF Left, m
<1>4. DOMAIN g = 1..m /\ \A k \in 1..m : g[k] \in 1..Len(taskQ)
    BY <1>2
<1>5. taskQ' \in [1..m -> GoodTasks]
    BY <1>0, <1>3, <1>4
<1>6. taskQ' \in Seq(GoodTasks) /\ Len(taskQ') = m
    BY <1>1, <1>5
<1>7. ASSUME Sorted(taskQ), NEW i \in 1..m, NEW j \in 1..m, i < j
      PROVE  ~Before(taskQ'[j], taskQ'[i])
  <2>1. taskQ'[i] = taskQ[g[i]] /\ taskQ'[j] = taskQ[g[j]] /\ g[i] < g[j]
      BY <1>3, <1>4, <1>7
  <2>2. ~Before(taskQ[g[j]], taskQ[g[i]])
      BY <1>4, <1>7, <2>1 DEF Sorted
  <2> QED
      BY <2>1, <2>2
<1> QED
    BY <1>6, <1>7 DEF Sorted

(* A new task is a good one, whichever function submits it.                 *)
LEMMA NewTask ==
    ASSUME TypeInv, NEW type \in High \cup Medium \cup Low,
           NEW arg \in DataObjects \cup Nodes \cup {None} \cup SUBSET DataObjects,
           NEW keep \in BOOLEAN,
           type \in {"INSERT_DATAOBJECT", "DELETE_DATAOBJECT",
                     "DELETE_DATAOBJECT_BY_ID"} => arg \in DataObjects,
           type = "INSERT_REPOSITORY" => arg \subseteq DataObjects
    PROVE  Task(type, arg, keep) \in GoodTasks
BY DEF TypeInv, TypeOK, Task, Tasks, GoodTasks

-----------------------------------------------------------------------------
(***************************************************************************)
(* What a step does to the queue                                            *)
(***************************************************************************)

(* A task is inserted and a waiting thread woken.                           *)
Submitted ==
    \E t \in GoodTasks :
        Insert(t) /\ pc' = IF pc = "waiting" THEN "woken" ELSE pc

LEMMA SubmitIsSubmitted ==
    ASSUME NEW type, NEW arg, NEW keep, Task(type, arg, keep) \in GoodTasks,
           submit(type, arg, keep)
    PROVE  Submitted
BY DEF submit, Submitted

LEMMA SubmittedQueue ==
    ASSUME TypeInv, Submitted
    PROVE  /\ taskQ' \in Seq(GoodTasks) /\ taskQ' # <<>>
           /\ Sorted(taskQ) => Sorted(taskQ')
<1>1. PICK t \in GoodTasks : Insert(t)
    BY DEF Submitted
<1>2. taskQ \in Seq(GoodTasks)
    BY DEF TypeInv
<1>3. Place(t, taskQ) \in 1..(Len(taskQ) + 1)
    BY <1>2, PlaceFound
<1>4. taskQ' = InsertAt(taskQ, Place(t, taskQ), t)
    BY <1>1 DEF Insert
<1> QED
    BY <1>2, <1>3, <1>4, InsertType, InsertSorted

(* The calls of the data manager, of the others, and of stop().             *)
LEMMA DataManagerQueue ==
    ASSUME TypeInv, DataManager
    PROVE  UNCHANGED <<taskQ, pc>> \/ Submitted
<1>1. ASSUME NEW d \in DataObjects, onIncomingDataObject(d) \/ onBadDataObject(d)
      PROVE  UNCHANGED <<taskQ, pc>>
    BY <1>1 DEF onIncomingDataObject, onBadDataObject, threadVars
<1>2. ASSUME NEW d \in DataObjects, onVerifiedDataObject(d)
      PROVE  Submitted
  <2>1. Task("INSERT_DATAOBJECT", d, FALSE) \in GoodTasks
      BY NewTask DEF High
  <2> QED
      BY <1>2, <2>1, SubmitIsSubmitted DEF onVerifiedDataObject
<1>3. ASSUME onGetLocalBF PROVE UNCHANGED <<taskQ, pc>> \/ Submitted
  <2>1. Task("DELETE_REPOSITORY", None, FALSE) \in GoodTasks
      BY NewTask DEF High
  <2> QED
      BY <1>3, <2>1, SubmitIsSubmitted DEF onGetLocalBF
<1>4. Task("AGE_DATAOBJECTS", None, KeepOnAging) \in GoodTasks
    BY NewTask, StoreConstants DEF Low
<1>5. ASSUME onAgedDataObjects PROVE UNCHANGED <<taskQ, pc>> \/ Submitted
    BY <1>4, <1>5, SubmitIsSubmitted DEF onAgedDataObjects
<1>6. ASSUME onAging \/ onConfig PROVE UNCHANGED <<taskQ, pc>> \/ Submitted
    BY <1>4, <1>6, SubmitIsSubmitted DEF onAging, onConfig
<1>7. ASSUME onShutdown PROVE Submitted
  <2>1. Task("INSERT_REPOSITORY", localBF, FALSE) \in GoodTasks
    <3>1. localBF \in SUBSET DataObjects
        BY DEF TypeInv, TypeOK
    <3> QED
        BY <3>1, NewTask DEF High
  <2> QED
      BY <1>7, <2>1, SubmitIsSubmitted DEF onShutdown
<1>8. ASSUME onInsertedDataObject \/ onDeletedDataObject
      PROVE  UNCHANGED <<taskQ, pc>>
    BY <1>8 DEF onInsertedDataObject, onDeletedDataObject, threadVars
<1> QED
    BY <1>1, <1>2, <1>3, <1>5, <1>6, <1>7, <1>8 DEF DataManager

LEMMA CallersQueue ==
    ASSUME TypeInv, Callers
    PROVE  Submitted \/ \E n \in Nodes : cancelDataObjectQueries(n)
<1>1. ASSUME NEW d \in DataObjects, NEW keep \in BOOLEAN,
             deleteDataObjectById(d, keep)
      PROVE  Submitted
  <2>1. Task("DELETE_DATAOBJECT_BY_ID", d, keep) \in GoodTasks
      BY NewTask DEF High
  <2> QED
      BY <1>1, <2>1, SubmitIsSubmitted DEF deleteDataObjectById
<1>2. ASSUME NEW d \in DataObjects, deleteDataObject(d)
      PROVE  Submitted
  <2>1. Task("DELETE_DATAOBJECT", d, TRUE) \in GoodTasks
      BY NewTask DEF High
  <2> QED
      BY <1>2, <2>1, SubmitIsSubmitted DEF deleteDataObject
<1>3. ASSUME NEW n \in Nodes, doDataObjectQuery(n)
      PROVE  Submitted
  <2>1. Task("DATAOBJECT_QUERY", n, FALSE) \in GoodTasks
      BY NewTask DEF Medium
  <2> QED
      BY <1>3, <2>1, SubmitIsSubmitted DEF doDataObjectQuery
<1> QED
    BY <1>1, <1>2, <1>3 DEF Callers

LEMMA HookCancelQueue ==
    ASSUME TypeInv, hookCancel
    PROVE  Submitted
<1>1. Task("EXIT", None, FALSE) \in GoodTasks
    BY NewTask DEF Low
<1> QED
    BY <1>1, SubmitIsSubmitted DEF hookCancel

LEMMA ExecutionKeepsQueue ==
    ASSUME Thread, pc = "busy"
    PROVE  UNCHANGED taskQ /\ UNCHANGED cancelled /\ UNCHANGED kernel
           /\ pc' = "ready"
BY DEF Thread, runTake, runExit, runWait, runWoken, _insertDataObject,
       _insertNodeDescription, _deleteDataObjectById, _deleteDataObject,
       _ageDataObjects, _readRepository, _insertRepository, _doNothingHere,
       Executing, history
-----------------------------------------------------------------------------
(***************************************************************************)
(* Types                                                                    *)
(***************************************************************************)
LEMMA StarterTask ==
    /\ FirstTask \in GoodTasks /\ <<FirstTask>> \in Seq(GoodTasks)
    /\ <<FirstTask>> # <<>> /\ Sorted(<<FirstTask>>)
<1>1. FirstTask \in GoodTasks
    BY StoreConstants DEF FirstTask, GoodTasks, Tasks, Medium
<1>2. <<FirstTask>> \in Seq(GoodTasks) /\ Len(<<FirstTask>>) = 1
    BY <1>1
<1>3. Sorted(<<FirstTask>>)
    BY <1>2 DEF Sorted
<1> QED
    BY <1>1, <1>2, <1>3

(* TypeInv, with the conjuncts that a step of the queue settles left out.   *)
RestTyped ==
    /\ pc \in {"ready", "waiting", "woken", "busy", "exited", "dead"}
    /\ cancelled \in BOOLEAN
    /\ stored \subseteq DataObjects
    /\ saved \in [present : BOOLEAN, filter : SUBSET DataObjects]
    /\ localBF \subseteq DataObjects /\ verifying \subseteq DataObjects
    /\ aging \in Nat
    /\ kernel \in {"starting", "running", "unregistered", "cancelling",
                   "joining", "down"}
    /\ events \in Seq(Events)
    /\ clock \in Nat /\ calls \in Nat /\ starts \in Nat
    /\ kept \subseteq DataObjects /\ refused \subseteq DataObjects
    /\ announced \subseteq DataObjects
    /\ twice \in BOOLEAN /\ intact \in BOOLEAN

LEMMA TypeParts ==
    TypeInv <=> /\ taskQ \in Seq(GoodTasks)
                /\ task \in GoodTasks \cup {NoTask}
                /\ RestTyped
<1>1. GoodTasks \subseteq Tasks
    BY DEF GoodTasks
<1>2. taskQ \in Seq(GoodTasks) => taskQ \in Seq(Tasks)
    BY <1>1
<1> QED
    BY <1>1, <1>2 DEF TypeInv, TypeOK, RestTyped

(* The first of the events is one, and what follows it are events.          *)
LEMMA FirstEvent ==
    ASSUME RestTyped, NEW type, Handle(type)
    PROVE  /\ Head(events) \in Events /\ events' \in Seq(Events)
           /\ Head(events).objs \subseteq DataObjects
           /\ Head(events).flag \in BOOLEAN
<1>1. Head(events) \in Events /\ events' \in Seq(Events)
    BY DEF RestTyped, Handle
<1> QED
    BY <1>1 DEF Events

LEMMA ShortSequences ==
    ASSUME NEW S, NEW a \in S, NEW b \in S
    PROVE  <<>> \in Seq(S) /\ <<a>> \in Seq(S) /\ <<a, b>> \in Seq(S)
OBVIOUS

LEMMA PostTyped ==
    ASSUME RestTyped, NEW es \in Seq(Events), Post(es)
    PROVE  events' \in Seq(Events)
BY DEF RestTyped, Post

LEMMA DataManagerTyped ==
    ASSUME TypeInv, DataManager
    PROVE  RestTyped' /\ UNCHANGED task
<1> USE DEF threadVars, tables, managerVars, counters, history
<1>0. RestTyped
    BY TypeParts
<1>1. ASSUME NEW d \in DataObjects,
             onIncomingDataObject(d) \/ onVerifiedDataObject(d)
                 \/ onBadDataObject(d)
      PROVE  RestTyped' /\ UNCHANGED task
  <2>1. CASE onIncomingDataObject(d)
      BY <1>0, <2>1 DEF RestTyped, onIncomingDataObject, Input
  <2>2. CASE onVerifiedDataObject(d)
      BY <1>0, <2>2 DEF RestTyped, onVerifiedDataObject, submit
  <2>3. CASE onBadDataObject(d)
      BY <1>0, <2>3 DEF RestTyped, onBadDataObject
  <2> QED
      BY <1>1, <2>1, <2>2, <2>3
<1>2. CASE onGetLocalBF
    BY <1>0, <1>2, FirstEvent DEF RestTyped, onGetLocalBF, submit
<1>3. CASE onInsertedDataObject
  <2>1. /\ Head(events).objs \subseteq DataObjects
        /\ events' \in Seq(Events)
      BY <1>0, <1>3, FirstEvent DEF onInsertedDataObject
  <2>2. announced' \subseteq DataObjects
      BY <1>0, <1>3, <2>1 DEF RestTyped, onInsertedDataObject
  <2>3. twice' \in BOOLEAN
      BY <1>0, <1>3 DEF RestTyped, onInsertedDataObject
  <2> QED
      BY <1>0, <1>3, <2>1, <2>2, <2>3 DEF RestTyped, onInsertedDataObject
<1>4. CASE onDeletedDataObject
    BY <1>0, <1>4, FirstEvent DEF RestTyped, onDeletedDataObject
<1>5. CASE onAgedDataObjects
    BY <1>0, <1>5, FirstEvent DEF RestTyped, onAgedDataObjects, submit
<1>6. CASE onAging \/ onConfig
    BY <1>0, <1>6 DEF RestTyped, onAging, onConfig, Call, Input, submit
<1>7. CASE onShutdown
    BY <1>0, <1>7 DEF RestTyped, onShutdown, submit
<1> QED
    BY <1>1, <1>2, <1>3, <1>4, <1>5, <1>6, <1>7 DEF DataManager

LEMMA CallersTyped ==
    ASSUME TypeInv, Callers
    PROVE  RestTyped' /\ UNCHANGED task
<1> USE DEF threadVars, tables, managerVars, counters, history
<1>0. RestTyped
    BY TypeParts
<1>1. ASSUME NEW d \in DataObjects, NEW keep \in BOOLEAN,
             deleteDataObjectById(d, keep)
      PROVE  RestTyped' /\ UNCHANGED task
    BY <1>0, <1>1 DEF RestTyped, deleteDataObjectById, Call, Input, submit
<1>4. ASSUME NEW d \in DataObjects, deleteDataObject(d)
      PROVE  RestTyped' /\ UNCHANGED task
    BY <1>0, <1>4 DEF RestTyped, deleteDataObject, Call, Input, submit
<1>2. ASSUME NEW n \in Nodes, doDataObjectQuery(n)
      PROVE  RestTyped' /\ UNCHANGED task
    BY <1>0, <1>2 DEF RestTyped, doDataObjectQuery, Call, Input, submit
<1>3. ASSUME NEW n \in Nodes, cancelDataObjectQueries(n)
      PROVE  RestTyped' /\ UNCHANGED task
    BY <1>0, <1>3 DEF RestTyped, cancelDataObjectQueries
<1> QED
    BY <1>1, <1>2, <1>3, <1>4 DEF Callers

(* An executed task has the argument its type wants.                        *)
LEMMA ExecutedTask ==
    ASSUME TypeInv, NEW type, type # "none", Executing(type)
    PROVE  task \in GoodTasks /\ task.type = type /\ task.keep \in BOOLEAN
<1>1. task \in GoodTasks
    BY DEF TypeInv, Executing, NoTask
<1> QED
    BY <1>1 DEF Executing, GoodTasks, Tasks

LEMMA TaskTyped ==
    ASSUME TypeInv,
           \/ _insertDataObject \/ _insertNodeDescription
           \/ _deleteDataObjectById \/ _deleteDataObject \/ _ageDataObjects
           \/ _readRepository \/ _insertRepository \/ _doNothingHere
    PROVE  RestTyped' /\ UNCHANGED taskQ /\ task' = NoTask
<1> USE DEF threadVars, tables, managerVars, counters, history
<1>0. RestTyped
    BY TypeParts
<1>a. ASSUME NEW objs \in SUBSET DataObjects, NEW flag \in BOOLEAN,
             NEW type \in {"GET_LOCAL_BF", "INSERTED", "DELETED", "AGED"}
      PROVE  Event(type, objs, flag) \in Events
    BY DEF Event, Events
<1>1. CASE _insertDataObject
  <2>1. task.arg \in DataObjects
      BY <1>1 DEF _insertDataObject, DataObjects
  <2> DEFINE duplicate == task.arg \in stored
             e == Event("INSERTED", {task.arg}, duplicate)
  <2>2. e \in Events
    <3>1. duplicate \in BOOLEAN
        OBVIOUS
    <3> HIDE DEF duplicate
    <3> QED
        BY <1>a, <2>1, <3>1
  <2>3. events' \in Seq(Events)
    <3>1. Post(<<e>>)
        BY <1>1 DEF _insertDataObject
    <3> HIDE DEF e
    <3> QED
        BY <1>0, <2>2, <3>1, PostTyped, ShortSequences
  <2> QED
      BY <1>0, <1>1, <2>1, <2>3 DEF RestTyped, _insertDataObject, Executing
<1>2. CASE _insertNodeDescription
  <2> DEFINE d == task.arg
  <2>1. d \in DataObjects
      BY <1>2 DEF _insertNodeDescription, DataObjects
  <2>2. SameNode(d) \subseteq DataObjects
      BY <1>0 DEF RestTyped, SameNode
  <2>3. Event("INSERTED", {d}, FALSE) \in Events
        /\ Event("DELETED", SameNode(d), FALSE) \in Events
      BY <1>a, <2>1, <2>2
  <2>4. CASE Newest(d)
    <3> DEFINE i == Event("INSERTED", {d}, FALSE)
               x == Event("DELETED", SameNode(d), FALSE)
               es == (IF SameNode(d) = {} THEN <<>> ELSE <<x>>) \o <<i>>
    <3>1. es \in Seq(Events)
      <4>1. i \in Events /\ x \in Events
          BY <2>3
      <4> HIDE DEF i, x
      <4>2. <<i>> \in Seq(Events) /\ <<x>> \in Seq(Events)
            /\ <<>> \in Seq(Events)
          BY <4>1, ShortSequences
      <4> QED
          BY <4>2
    <3>2. Post(es) /\ stored' = (stored \ SameNode(d)) \cup {d}
        BY <1>2, <2>4 DEF _insertNodeDescription
    <3> HIDE DEF es
    <3>3. events' \in Seq(Events)
        BY <1>0, <3>1, <3>2, PostTyped
    <3> QED
        BY <1>0, <1>2, <2>1, <3>2, <3>3
           DEF RestTyped, _insertNodeDescription, Executing
  <2>5. CASE ~Newest(d)
      BY <1>0, <1>2, <2>5 DEF RestTyped, _insertNodeDescription, Executing
  <2> QED
      BY <2>4, <2>5
<1>3. CASE _deleteDataObjectById
  <2>1. task.arg \in DataObjects /\ task.keep \in BOOLEAN
      BY <1>3, ExecutedTask DEF _deleteDataObjectById, GoodTasks
  <2>2. <<Event("DELETED", {task.arg}, task.keep)>> \in Seq(Events)
      BY <1>a, <2>1
  <2>3. events' \in Seq(Events)
      BY <1>0, <1>3, <2>2, PostTyped DEF _deleteDataObjectById, RestTyped
  <2> QED
      BY <1>0, <1>3, <2>3 DEF RestTyped, _deleteDataObjectById, Executing
<1>4. CASE _deleteDataObject
  <2>1. task.arg \in DataObjects /\ task.keep \in BOOLEAN
      BY <1>4, ExecutedTask DEF _deleteDataObject, GoodTasks
  <2>2. <<Event("DELETED", {task.arg}, task.keep)>> \in Seq(Events)
      BY <1>a, <2>1
  <2>3. events' \in Seq(Events)
      BY <1>0, <1>4, <2>2, PostTyped DEF _deleteDataObject
  <2> QED
      BY <1>0, <1>4, <2>3 DEF RestTyped, _deleteDataObject, Executing
<1>5. CASE _ageDataObjects
  <2>1. task.keep \in BOOLEAN
      BY <1>5, ExecutedTask DEF _ageDataObjects
  <2>2. PICK old \in SUBSET stored :
            /\ stored' = stored \ old
            /\ Post(<<Event("DELETED", old, task.keep),
                      Event("AGED", old, TRUE)>>)
      BY <1>5 DEF _ageDataObjects
  <2>3. old \in SUBSET DataObjects
      BY <1>0 DEF RestTyped
  <2>4. /\ Event("DELETED", old, task.keep) \in Events
        /\ Event("AGED", old, TRUE) \in Events
      BY <1>a, <2>1, <2>3
  <2>5. events' \in Seq(Events)
      BY <1>0, <2>2, <2>4, PostTyped, ShortSequences
  <2> QED
      BY <1>0, <1>5, <2>2, <2>5 DEF RestTyped, _ageDataObjects, Executing
<1>6. CASE _readRepository
  <2>1. Event("GET_LOCAL_BF", saved.filter, saved.present) \in Events
      BY <1>0, <1>a DEF RestTyped
  <2>2. events' \in Seq(Events)
      BY <1>0, <1>6, <2>1, PostTyped, ShortSequences DEF _readRepository
  <2> QED
      BY <1>0, <1>6, <2>2 DEF RestTyped, _readRepository, Executing
<1>7. CASE _insertRepository
  <2>1. task.arg \subseteq DataObjects
      BY <1>7, ExecutedTask DEF _insertRepository, GoodTasks
  <2> QED
      BY <1>0, <1>7, <2>1 DEF RestTyped, _insertRepository, Executing
<1>8. CASE _doNothingHere
    BY <1>0, <1>8 DEF RestTyped, _doNothingHere, Executing
<1> QED
    BY <1>1, <1>2, <1>3, <1>4, <1>5, <1>6, <1>7, <1>8

(* The steps of run() itself.                                               *)
LEMMA RunTyped ==
    ASSUME TypeInv, runTake \/ runExit \/ runWait \/ runWoken
    PROVE  /\ RestTyped' /\ taskQ' \in Seq(GoodTasks)
           /\ task' \in GoodTasks \cup {NoTask}
<1> USE DEF threadVars, tables, managerVars, counters, history
<1>0. RestTyped /\ taskQ \in Seq(GoodTasks) /\ task \in GoodTasks \cup {NoTask}
    BY TypeParts
<1>1. ASSUME TakeFront, taskQ # <<>>
      PROVE  task' \in GoodTasks /\ taskQ' \in Seq(GoodTasks)
    BY <1>0, <1>1 DEF TakeFront
<1>2. CASE runTake
    BY <1>0, <1>1, <1>2 DEF RestTyped, runTake, TakeFront
<1>3. CASE runExit
    BY <1>0, <1>3 DEF RestTyped, runExit
<1>4. CASE runWait
    BY <1>0, <1>4 DEF RestTyped, runWait
<1>5. CASE runWoken
  <2>1. CASE taskQ # <<>>
      BY <1>0, <1>1, <1>5, <2>1 DEF RestTyped, runWoken, TakeFront
  <2>2. CASE taskQ = <<>>
      BY <1>0, <1>5, <2>2 DEF RestTyped, runWoken
  <2> QED
      BY <2>1, <2>2
<1> QED
    BY <1>2, <1>3, <1>4, <1>5

LEMMA TypeStep ==
    ASSUME TypeInv, [Next]_vars
    PROVE  TypeInv'
<1> USE DEF threadVars, tables, managerVars, counters, history
<1>0. RestTyped /\ taskQ \in Seq(GoodTasks) /\ task \in GoodTasks \cup {NoTask}
    BY TypeParts
<1>1. SUFFICES /\ RestTyped' /\ taskQ' \in Seq(GoodTasks)
               /\ task' \in GoodTasks \cup {NoTask}
  <2>1. (GoodTasks \subseteq Tasks)'
      BY DEF GoodTasks
  <2>2. taskQ' \in Seq(GoodTasks) => taskQ' \in Seq(Tasks)
      BY <2>1
  <2> QED
      BY <1>1, <2>1, <2>2 DEF TypeInv, TypeOK, RestTyped
<1>2. CASE Thread
    BY <1>0, <1>2, TaskTyped, RunTyped DEF Thread
<1>3. CASE DataManager
    BY <1>0, <1>3, DataManagerTyped, DataManagerQueue, SubmittedQueue
<1>4. CASE Callers
    BY <1>0, <1>4, CallersTyped, CallersQueue, SubmittedQueue, CancelKeepsOrder
<1>5. CASE hookCancel
  <2>1. taskQ' \in Seq(GoodTasks)
      BY <1>5, HookCancelQueue, SubmittedQueue
  <2> QED
      BY <1>0, <1>5, <2>1 DEF RestTyped, hookCancel, submit
<1>6. CASE cancel \/ join
    BY <1>0, <1>6 DEF RestTyped, cancel, join
<1>7. CASE setClockBack \/ wakeSpuriously
    BY <1>0, <1>7 DEF RestTyped, setClockBack, wakeSpuriously
<1>8. CASE restart \/ crash
  <2>1. /\ starts' = starts + 1 /\ UNCHANGED <<stored, saved, calls, twice>>
        /\ intact' \in BOOLEAN /\ NewProcess
      BY <1>0, <1>8 DEF RestTyped, restart, crash
  <2>2. MaxClock \in Nat /\ <<>> \in Seq(Events) /\ {} \subseteq DataObjects
      BY StoreConstants
  <2>3. RestTyped'
    <3>1. /\ events' \in Seq(Events) /\ announced' \subseteq DataObjects
          /\ saved' \in [present : BOOLEAN, filter : SUBSET DataObjects]
          /\ clock' \in Nat /\ calls' \in Nat /\ starts' \in Nat
        BY <1>0, <2>1, <2>2 DEF RestTyped, NewProcess
    <3>2. /\ twice' \in BOOLEAN /\ intact' \in BOOLEAN
          /\ cancelled' \in BOOLEAN
        BY <1>0, <2>1 DEF RestTyped, NewProcess
    <3> QED
        BY <1>0, <2>1, <3>1, <3>2 DEF RestTyped, NewProcess
  <2> QED
      BY <2>1, <2>3, StarterTask DEF NewProcess
<1>9. CASE UNCHANGED vars
    BY <1>0, <1>9 DEF RestTyped, vars
<1> QED
    BY <1>2, <1>3, <1>4, <1>5, <1>6, <1>7, <1>8, <1>9 DEF Next, stop

LEMMA TypeInit == Init => TypeInv
<1> SUFFICES ASSUME Init PROVE TypeInv
    OBVIOUS
<1>1. taskQ \in Seq(GoodTasks) /\ task \in GoodTasks \cup {NoTask}
    BY StarterTask DEF Init
<1>2. MaxClock \in Nat /\ <<>> \in Seq(Events) /\ {} \subseteq DataObjects
    BY StoreConstants
<1>3. saved \in [present : BOOLEAN, filter : SUBSET DataObjects]
    BY DEF Init
<1>4. RestTyped
    BY <1>2, <1>3 DEF Init, RestTyped
<1> QED
    BY <1>1, <1>4, TypeParts

LEMMA TypeInvariant == Spec => []TypeInv
BY TypeInit, TypeStep, PTL DEF Spec

(* The data store and the data manager keep the types of their state,       *)
(* whatever the order of tasks, events, restarts and crashes.               *)
THEOREM TypeCorrect == Spec => []TypeOK
<1>1. TypeInv => TypeOK
    BY DEF TypeInv
<1> QED
    BY <1>1, TypeInvariant, PTL
-----------------------------------------------------------------------------
(***************************************************************************)
(* The order of the queue                                                   *)
(***************************************************************************)
LEMMA TailSorted ==
    ASSUME NEW l \in Seq(GoodTasks), l # <<>>, Sorted(l)
    PROVE  Sorted(Tail(l))
<1>1. Len(Tail(l)) = Len(l) - 1 /\ Len(l) \in Nat /\ Len(l) > 0
    OBVIOUS
<1>2. \A i \in 1..Len(Tail(l)) : Tail(l)[i] = l[i + 1]
    OBVIOUS
<1>3. ASSUME NEW i \in 1..Len(Tail(l)), NEW j \in 1..Len(Tail(l)), i < j
      PROVE  ~Before(Tail(l)[j], Tail(l)[i])
  <2>1. i + 1 \in 1..Len(l) /\ j + 1 \in 1..Len(l) /\ i + 1 < j + 1
      BY <1>1, <1>3
  <2>2. ~Before(l[j + 1], l[i + 1])
      BY <2>1 DEF Sorted
  <2> QED
      BY <1>2, <2>2
<1> QED
    BY <1>3 DEF Sorted

(* A step of the thread leaves the queue alone or takes its front.          *)
LEMMA ThreadQueue ==
    ASSUME Thread
    PROVE  UNCHANGED taskQ \/ (TakeFront /\ taskQ # <<>>)
<1>1. CASE pc = "busy"
    BY <1>1, ExecutionKeepsQueue
<1>2. CASE pc # "busy"
  <2>1. runTake \/ runExit \/ runWait \/ runWoken
      BY <1>2 DEF Thread, _insertDataObject, _insertNodeDescription,
         _deleteDataObjectById, _deleteDataObject, _ageDataObjects,
         _readRepository, _insertRepository, _doNothingHere, Executing
  <2> QED
      BY <2>1 DEF runTake, runExit, runWait, runWoken
<1> QED
    BY <1>1, <1>2

LEMMA SortedStep ==
    ASSUME TypeInv, Sorted(taskQ), [Next]_vars
    PROVE  Sorted(taskQ)'
<1>0. taskQ \in Seq(GoodTasks)
    BY DEF TypeInv
<1>a. Sorted(taskQ') => Sorted(taskQ)'
    BY DEF Sorted, Before, priority, High, Medium
<1>b. ASSUME UNCHANGED taskQ PROVE Sorted(taskQ')
    BY <1>b
<1>1. CASE Thread
  <2>1. ASSUME TakeFront, taskQ # <<>> PROVE Sorted(taskQ')
    <3>1. taskQ' = Tail(taskQ)
        BY <2>1 DEF TakeFront
    <3> QED
        BY <1>0, <2>1, <3>1, TailSorted
  <2> QED
      BY <1>1, <1>a, <1>b, <2>1, ThreadQueue
<1>2. CASE DataManager
    BY <1>2, <1>a, <1>b, DataManagerQueue, SubmittedQueue
<1>3. CASE Callers
    BY <1>3, <1>a, CallersQueue, SubmittedQueue, CancelKeepsOrder
<1>4. CASE hookCancel
    BY <1>4, <1>a, HookCancelQueue, SubmittedQueue
<1>5. CASE cancel \/ join \/ setClockBack \/ wakeSpuriously \/ UNCHANGED vars
    BY <1>5, <1>a, <1>b DEF cancel, join, setClockBack, wakeSpuriously, vars
<1>6. CASE restart \/ crash
  <2>1. taskQ' = <<FirstTask>>
      BY <1>6 DEF restart, crash, NewProcess
  <2> QED
      BY <1>a, <2>1, StarterTask
<1> QED
    BY <1>1, <1>2, <1>3, <1>4, <1>5, <1>6 DEF Next, stop

(* DataStore's list is sorted by priority and time of the request, also     *)
(* when the clock is set back between two requests.                         *)
THEOREM SortedQueue == Spec => []MostUrgentFirst
<1>1. Init => Sorted(taskQ)
    BY StarterTask DEF Init
<1>2. Sorted(taskQ) => MostUrgentFirst
    BY DEF Sorted, MostUrgentFirst
<1> QED
    BY <1>1, <1>2, TypeInvariant, SortedStep, PTL DEF Spec

-----------------------------------------------------------------------------
(***************************************************************************)
(* Sleeping and waking                                                      *)
(***************************************************************************)

(* A submission leaves a task and no sleeping thread.                       *)
LEMMA SubmittedWait ==
    ASSUME TypeInv, WaitInv, Submitted, UNCHANGED cancelled,
           cancelled => kernel' \in {"cancelling", "joining", "down"}
    PROVE  WaitInv'
<1>1. taskQ' # <<>>
    BY SubmittedQueue
<1>2. pc' = IF pc = "waiting" THEN "woken" ELSE pc
    BY DEF Submitted
<1> QED
    BY <1>1, <1>2 DEF WaitInv, WaitIsSafe

LEMMA WaitStep ==
    ASSUME TypeInv, WaitInv, [Next]_vars
    PROVE  WaitInv'
<1> USE DEF threadVars, history
<1>1. CASE Thread
  <2>1. CASE pc = "busy"
      BY <1>1, <2>1, ExecutionKeepsQueue DEF WaitInv, WaitIsSafe
  <2>2. CASE pc # "busy"
    <3>1. runTake \/ runExit \/ runWait \/ runWoken
        BY <1>1, <2>2 DEF Thread, _insertDataObject, _insertNodeDescription,
           _deleteDataObjectById, _deleteDataObject, _ageDataObjects,
           _readRepository, _insertRepository, _doNothingHere, Executing
    <3>2. CASE runTake \/ runExit
        BY <3>2 DEF runTake, runExit, TakeFront, WaitInv, WaitIsSafe
    <3>3. CASE runWait
        BY <3>3 DEF runWait, WaitInv, WaitIsSafe
    <3>4. CASE runWoken
        BY <3>4 DEF runWoken, TakeFront, WaitInv, WaitIsSafe
    <3> QED
        BY <3>1, <3>2, <3>3, <3>4
  <2> QED
      BY <2>1, <2>2
<1>2. CASE DataManager
  <2>1. /\ UNCHANGED cancelled
        /\ kernel = "running" \/ kernel = "starting"
      BY <1>2 DEF DataManager, onIncomingDataObject, onVerifiedDataObject,
         onBadDataObject, onGetLocalBF, onInsertedDataObject,
         onDeletedDataObject, onAgedDataObjects, onAging, onConfig, onShutdown,
         Handle, Call, Running
  <2>2. ~cancelled
      BY <2>1 DEF WaitInv
  <2>3. CASE Submitted
      BY <2>1, <2>2, <2>3, SubmittedWait
  <2>4. CASE UNCHANGED <<taskQ, pc>>
      BY <2>1, <2>2, <2>4 DEF WaitInv, WaitIsSafe
  <2> QED
      BY <1>2, <2>3, <2>4, DataManagerQueue
<1>3. CASE Callers /\ ~\E n \in Nodes : cancelDataObjectQueries(n)
  <2>1. UNCHANGED <<cancelled, kernel>> /\ kernel = "running"
      BY <1>3 DEF Callers, deleteDataObjectById, deleteDataObject,
         doDataObjectQuery, Call
  <2>2. ~cancelled
      BY <2>1 DEF WaitInv
  <2> QED
      BY <1>3, <2>1, <2>2, CallersQueue, SubmittedWait
<1>4. ASSUME NEW n \in Nodes, cancelDataObjectQueries(n)
      PROVE  WaitInv'
  <2>1. taskQ # <<>> /\ UNCHANGED <<pc, cancelled, kernel>>
      BY <1>4 DEF cancelDataObjectQueries
  <2>2. pc # "waiting"
      BY <2>1 DEF WaitInv, WaitIsSafe
  <2> QED
      BY <2>1, <2>2 DEF WaitInv, WaitIsSafe
<1>5. CASE hookCancel
  <2>1. UNCHANGED cancelled /\ kernel' = "joining"
      BY <1>5 DEF hookCancel
  <2> QED
      BY <1>5, <2>1, HookCancelQueue, SubmittedWait
<1>6. CASE cancel
    BY <1>6 DEF cancel, WaitInv, WaitIsSafe
<1>7. CASE join
    BY <1>7 DEF join, WaitInv, WaitIsSafe
<1>8. CASE setClockBack \/ wakeSpuriously \/ UNCHANGED vars
    BY <1>8 DEF setClockBack, wakeSpuriously, vars, WaitInv, WaitIsSafe
<1>9. CASE restart \/ crash
    BY <1>9 DEF restart, crash, NewProcess, WaitInv, WaitIsSafe
<1> QED
    BY <1>1, <1>2, <1>3, <1>4, <1>5, <1>6, <1>7, <1>8, <1>9
       DEF Next, stop

(* The data store thread never sleeps beside a task, nor beside a           *)
(* cancellation that nobody follows up (DataStore::run), with signals and   *)
(* spurious wakeups in any order.                                           *)
THEOREM WaitSafe == Spec => []WaitIsSafe
<1>1. Init => WaitInv
    BY DEF Init, WaitInv, WaitIsSafe
<1>2. WaitInv => WaitIsSafe
    BY DEF WaitInv
<1> QED
    BY <1>1, <1>2, TypeInvariant, WaitStep, PTL DEF Spec

-----------------------------------------------------------------------------
(***************************************************************************)
(* Node descriptions                                                        *)
(***************************************************************************)

(* What a step may do to the table of data objects.                         *)
LEMMA StoredStep ==
    ASSUME [Next]_vars
    PROVE  \/ stored' \subseteq stored
           \/ \E d \in PlainObjects : stored' = stored \cup {d}
           \/ \E d \in Descriptions :
                 Newest(d) /\ stored' = (stored \ SameNode(d)) \cup {d}
<1> USE DEF tables
<1>1. CASE Thread
  <2>1. CASE _insertDataObject
      BY <2>1 DEF _insertDataObject
  <2>2. CASE _insertNodeDescription
      BY <2>2 DEF _insertNodeDescription
  <2>3. CASE _deleteDataObjectById \/ _deleteDataObject \/ _ageDataObjects
      BY <2>3 DEF _deleteDataObjectById, _deleteDataObject, _ageDataObjects
  <2>4. CASE \/ runTake \/ runExit \/ runWait \/ runWoken
             \/ _readRepository \/ _insertRepository \/ _doNothingHere
      BY <2>4 DEF runTake, runExit, runWait, runWoken, _readRepository,
         _insertRepository, _doNothingHere
  <2> QED
      BY <1>1, <2>1, <2>2, <2>3, <2>4 DEF Thread
<1>2. CASE DataManager
    BY <1>2 DEF DataManager, onIncomingDataObject, onVerifiedDataObject,
       onBadDataObject, onGetLocalBF, onInsertedDataObject,
       onDeletedDataObject, onAgedDataObjects, onAging, onConfig, onShutdown
<1>3. CASE Callers
    BY <1>3 DEF Callers, deleteDataObjectById, deleteDataObject,
       doDataObjectQuery, cancelDataObjectQueries
<1>4. CASE \/ stop \/ setClockBack \/ wakeSpuriously \/ restart \/ crash
           \/ UNCHANGED vars
    BY <1>4 DEF stop, cancel, hookCancel, join, setClockBack, wakeSpuriously,
       restart, crash, vars
<1> QED
    BY <1>1, <1>2, <1>3, <1>4 DEF Next

LEMMA OneDescriptionStep ==
    ASSUME OneDescriptionPerNode, [Next]_vars
    PROVE  OneDescriptionPerNode'
<1>0. SUFFICES ASSUME NEW d \in stored' \cap Descriptions,
                      NEW e \in stored' \cap Descriptions, nodeOf[d] = nodeOf[e]
               PROVE  d = e
    BY DEF OneDescriptionPerNode
<1>1. CASE stored' \subseteq stored
    BY <1>0, <1>1 DEF OneDescriptionPerNode
<1>2. ASSUME NEW p \in PlainObjects, stored' = stored \cup {p} PROVE d = e
    BY <1>0, <1>2, StoreConstants DEF OneDescriptionPerNode
<1>3. ASSUME NEW x \in Descriptions, stored' = (stored \ SameNode(x)) \cup {x}
      PROVE  d = e
  <2>1. \A s \in stored' \cap Descriptions : nodeOf[s] = nodeOf[x] => s = x
      BY <1>3 DEF SameNode
  <2>2. CASE nodeOf[d] = nodeOf[x]
      BY <1>0, <2>1, <2>2
  <2>3. CASE nodeOf[d] # nodeOf[x]
    <3>1. d \in stored /\ e \in stored
        BY <1>0, <1>3, <2>3
    <3> QED
        BY <1>0, <3>1 DEF OneDescriptionPerNode
  <2> QED
      BY <2>2, <2>3
<1> QED
    BY <1>1, <1>2, <1>3, StoredStep

(* However descriptions come in, are deleted and expire, the table holds    *)
(* one per node (SQLDataStore::_insertNodeDescription).                     *)
THEOREM OneDescription == Spec => []OneDescriptionPerNode
<1>1. Init => OneDescriptionPerNode
    BY DEF Init, OneDescriptionPerNode
<1> QED
    BY <1>1, OneDescriptionStep, PTL DEF Spec

(* No step puts a description beside, or in the place of, one of the same   *)
(* node that is as new.                                                     *)
THEOREM NewerDescriptions == Spec => DescriptionsGetNewer
<1>1. ASSUME [Next]_vars,
             NEW d \in stored \cap Descriptions,
             NEW e \in (stored' \ stored) \cap Descriptions,
             nodeOf[d] = nodeOf[e]
      PROVE  d \notin stored' /\ createTime[d] < createTime[e]
  <2>1. \A p \in PlainObjects : stored' # stored \cup {p}
      BY <1>1, StoreConstants
  <2>2. PICK x \in Descriptions :
            Newest(x) /\ stored' = (stored \ SameNode(x)) \cup {x}
      BY <1>1, <2>1, StoredStep
  <2>3. e = x /\ d \in SameNode(x) /\ d # x
      BY <1>1, <2>2 DEF SameNode
  <2> QED
      BY <2>2, <2>3 DEF Newest
<1>2. [Next]_vars => [NewerReplaces]_vars
    BY <1>1 DEF NewerReplaces
<1> QED
    BY <1>2, PTL DEF Spec, DescriptionsGetNewer
-----------------------------------------------------------------------------
(***************************************************************************)
(* One announcement                                                         *)
(***************************************************************************)

(* Events that announce d, and that report its deletion.                    *)
Announces(e, d) == e.type = "INSERTED" /\ ~e.flag /\ d \in e.objs
Retracts(e, d) == e.type = "DELETED" /\ d \in e.objs

(* An announcement of d: what was announced already stands before the       *)
(* queue, at 0.                                                             *)
AnnouncedAt(q, ann, d, i) ==
    IF i = 0 THEN d \in ann ELSE Announces(q[i], d)

(* A deletion of d is reported between two announcements of it, and after   *)
(* the last one if d is not stored.                                         *)
Alternate(q, ann, st, d) ==
    /\ \A i, j \in 0..Len(q) :
          i < j /\ AnnouncedAt(q, ann, d, i) /\ AnnouncedAt(q, ann, d, j)
          => \E k \in (i + 1)..(j - 1) : Retracts(q[k], d)
    /\ \A i \in 0..Len(q) :
          AnnouncedAt(q, ann, d, i) /\ d \notin st
          => \E k \in (i + 1)..Len(q) : Retracts(q[k], d)

AnnounceInv ==
    /\ ~twice
    /\ \A d \in DataObjects : Alternate(events, announced, stored, d)

(* An event is queued and the table changed: a deletion comes with its      *)
(* report, and an announcement only for what is not stored.                 *)
Reported(e, st, st2, d) ==
    /\ Announces(e, d) => d \notin st
    /\ d \notin st2 => (d \notin st /\ ~Announces(e, d)) \/ Retracts(e, d)

LEMMA AlternateAppend ==
    ASSUME NEW q \in Seq(Events), NEW e \in Events, NEW ann, NEW st, NEW st2,
           NEW d, Alternate(q, ann, st, d), Reported(e, st, st2, d)
    PROVE  Alternate(Append(q, e), ann, st2, d)
<1> DEFINE r == Append(q, e)
           n == Len(q)
<1>1. /\ n \in Nat /\ Len(r) = n + 1 /\ r[n + 1] = e
      /\ \A i \in 1..n : r[i] = q[i]
    OBVIOUS
<1> HIDE DEF r, n
<1>2. ASSUME NEW i \in 0..n
      PROVE  AnnouncedAt(r, ann, d, i) <=> AnnouncedAt(q, ann, d, i)
    BY <1>1 DEF AnnouncedAt
<1>3. AnnouncedAt(r, ann, d, n + 1) <=> Announces(e, d)
    BY <1>1 DEF AnnouncedAt
<1>4. ASSUME NEW i \in 0..n, AnnouncedAt(r, ann, d, i), d \notin st
      PROVE  \E k \in (i + 1)..n : Retracts(r[k], d)
  <2>1. PICK k \in (i + 1)..n : Retracts(q[k], d)
      BY <1>2, <1>4 DEF Alternate, n
  <2>2. k \in 1..n
      BY <1>1, <2>1
  <2>3. Retracts(r[k], d)
      BY <1>1, <2>1, <2>2
  <2> QED
      BY <2>1, <2>3
<1>5. ASSUME NEW i \in 0..(n + 1), NEW j \in 0..(n + 1), i < j,
             AnnouncedAt(r, ann, d, i), AnnouncedAt(r, ann, d, j)
      PROVE  \E k \in (i + 1)..(j - 1) : Retracts(r[k], d)
  <2>1. CASE j = n + 1
    <3>1. d \notin st /\ i \in 0..n
        BY <1>1, <1>3, <1>5, <2>1 DEF Reported
    <3>2. PICK k \in (i + 1)..n : Retracts(r[k], d)
        BY <1>4, <1>5, <3>1
    <3>3. k \in (i + 1)..(j - 1)
        BY <1>1, <2>1
    <3> QED
        BY <3>2, <3>3
  <2>2. CASE j # n + 1
    <3>1. i \in 0..n /\ j \in 0..n
        BY <1>1, <1>5, <2>2
    <3>2. AnnouncedAt(q, ann, d, i) /\ AnnouncedAt(q, ann, d, j)
        BY <1>2, <1>5, <3>1
    <3>3. PICK k \in (i + 1)..(j - 1) : Retracts(q[k], d)
        BY <1>5, <3>1, <3>2 DEF Alternate, n
    <3>4. k \in 1..n
        BY <1>1, <3>1, <3>3
    <3>5. Retracts(r[k], d)
        BY <1>1, <3>3, <3>4
    <3> QED
        BY <3>3, <3>5
  <2> QED
      BY <2>1, <2>2
<1>6. ASSUME NEW i \in 0..(n + 1), AnnouncedAt(r, ann, d, i), d \notin st2
      PROVE  \E k \in (i + 1)..(n + 1) : Retracts(r[k], d)
  <2>1. CASE Retracts(e, d)
    <3>1. i # n + 1
        BY <1>3, <1>6, <2>1 DEF Retracts, Announces
    <3>2. n + 1 \in (i + 1)..(n + 1)
        BY <1>1, <3>1
    <3>3. Retracts(r[n + 1], d)
        BY <1>1, <2>1
    <3> QED
        BY <3>2, <3>3
  <2>2. CASE d \notin st /\ ~Announces(e, d)
    <3>1. i \in 0..n
        BY <1>1, <1>3, <1>6, <2>2
    <3>2. PICK k \in (i + 1)..n : Retracts(r[k], d)
        BY <1>4, <1>6, <2>2, <3>1
    <3>3. k \in (i + 1)..(n + 1)
        BY <1>1, <3>1
    <3> QED
        BY <3>2, <3>3
  <2> QED
      BY <1>6, <2>1, <2>2 DEF Reported
<1>7. Alternate(r, ann, st2, d)
    BY <1>1, <1>5, <1>6 DEF Alternate
<1> QED
    BY <1>7 DEF r

(* The first event is handled: an announced data object was announced and   *)
(* is not retracted by it, or is announced by it.                           *)
LEMMA AlternateTail ==
    ASSUME NEW q \in Seq(Events), q # <<>>, NEW ann, NEW ann2, NEW st, NEW d,
           Alternate(q, ann, st, d),
           d \in ann2 => \/ d \in ann /\ ~Retracts(Head(q), d)
                         \/ Announces(Head(q), d)
    PROVE  Alternate(Tail(q), ann2, st, d)
<1> DEFINE r == Tail(q)
           n == Len(r)
<1>1. /\ n \in Nat /\ Len(q) = n + 1 /\ q[1] = Head(q)
      /\ \A i \in 1..n : r[i] = q[i + 1]
    OBVIOUS
<1> HIDE DEF r, n
<1>2. ASSUME NEW i \in 0..n, AnnouncedAt(r, ann2, d, i)
      PROVE  \E h \in 0..(i + 1) :
                /\ AnnouncedAt(q, ann, d, h)
                /\ h = i + 1 \/ (i = 0 /\ h = 0 /\ ~Retracts(q[1], d))
  <2>1. CASE i = 0 /\ d \in ann /\ ~Retracts(q[1], d)
    <3>1. AnnouncedAt(q, ann, d, 0) /\ 0 \in 0..(i + 1)
        BY <2>1 DEF AnnouncedAt
    <3> QED
        BY <2>1, <3>1
  <2>2. CASE i = 0 /\ Announces(q[1], d)
    <3>1. AnnouncedAt(q, ann, d, 1) /\ 1 \in 0..(i + 1) /\ 1 = i + 1
        BY <2>2 DEF AnnouncedAt
    <3> QED
        BY <3>1
  <2>3. CASE i # 0
    <3>1. i \in 1..n /\ i + 1 # 0 /\ i + 1 \in 0..(i + 1)
        BY <1>1, <2>3
    <3>2. Announces(r[i], d) /\ r[i] = q[i + 1]
        BY <1>1, <1>2, <2>3, <3>1 DEF AnnouncedAt
    <3>3. AnnouncedAt(q, ann, d, i + 1)
        BY <3>1, <3>2 DEF AnnouncedAt
    <3> QED
        BY <3>1, <3>3
  <2>4. i = 0 => d \in ann2
      BY <1>2 DEF AnnouncedAt
  <2> QED
      BY <1>1, <2>1, <2>2, <2>3, <2>4
<1>3. ASSUME NEW h \in 0..(n + 1), NEW i \in 0..n, NEW m \in 0..n,
             h = i + 1 \/ (i = 0 /\ h = 0 /\ ~Retracts(q[1], d)),
             NEW k \in (h + 1)..(m + 1), Retracts(q[k], d)
      PROVE  k - 1 \in (i + 1)..m /\ Retracts(r[k - 1], d)
  <2>1. k # 1 \/ h = i + 1
      BY <1>3
  <2>2. k - 1 \in (i + 1)..m
      BY <1>1, <1>3, <2>1
  <2>3. k - 1 \in 1..n /\ k = (k - 1) + 1
      BY <1>1, <1>3, <2>2
  <2>4. r[k - 1] = q[k]
      BY <1>1, <2>3
  <2> QED
      BY <1>3, <2>2, <2>4
<1>4. ASSUME NEW i \in 0..n, NEW j \in 0..n, i < j,
             AnnouncedAt(r, ann2, d, i), AnnouncedAt(r, ann2, d, j)
      PROVE  \E k \in (i + 1)..(j - 1) : Retracts(r[k], d)
  <2>1. PICK h \in 0..(i + 1) :
                /\ AnnouncedAt(q, ann, d, h)
                /\ h = i + 1 \/ (i = 0 /\ h = 0 /\ ~Retracts(q[1], d))
      BY <1>2, <1>4
  <2>2. AnnouncedAt(q, ann, d, j + 1)
    <3>1. j # 0
        BY <1>1, <1>4
    <3> QED
        BY <1>2, <1>4, <3>1
  <2>3. h \in 0..Len(q) /\ j + 1 \in 0..Len(q) /\ h < j + 1
        /\ h \in 0..(n + 1) /\ j - 1 \in 0..n /\ (j + 1) - 1 = (j - 1) + 1
      BY <1>1, <1>4, <2>1
  <2>4. PICK k \in (h + 1)..((j + 1) - 1) : Retracts(q[k], d)
      BY <2>1, <2>2, <2>3 DEF Alternate
  <2>5. k \in (h + 1)..((j - 1) + 1)
      BY <2>3, <2>4
  <2>6. k - 1 \in (i + 1)..(j - 1) /\ Retracts(r[k - 1], d)
      BY <1>3, <2>1, <2>3, <2>4, <2>5
  <2> QED
      BY <2>6
<1>5. ASSUME NEW i \in 0..n, AnnouncedAt(r, ann2, d, i), d \notin st
      PROVE  \E k \in (i + 1)..n : Retracts(r[k], d)
  <2>1. PICK h \in 0..(i + 1) :
                /\ AnnouncedAt(q, ann, d, h)
                /\ h = i + 1 \/ (i = 0 /\ h = 0 /\ ~Retracts(q[1], d))
      BY <1>2, <1>5
  <2>2. h \in 0..Len(q) /\ h \in 0..(n + 1) /\ n \in 0..n
      BY <1>1, <1>5, <2>1
  <2>3. PICK k \in (h + 1)..Len(q) : Retracts(q[k], d)
      BY <1>5, <2>1, <2>2 DEF Alternate
  <2>4. k \in (h + 1)..(n + 1)
      BY <1>1, <2>3
  <2>5. k - 1 \in (i + 1)..n /\ Retracts(r[k - 1], d)
      BY <1>3, <2>1, <2>2, <2>3, <2>4
  <2> QED
      BY <2>5
<1>6. Alternate(r, ann2, st, d)
    BY <1>4, <1>5 DEF Alternate, n
<1> QED
    BY <1>6 DEF r

(* The queue with one and with two events posted.                           *)
LEMMA AppendPosted ==
    ASSUME NEW q \in Seq(Events), NEW a \in Events, NEW b \in Events
    PROVE  /\ q \o <<a>> = Append(q, a)
           /\ q \o <<a, b>> = Append(Append(q, a), b)
           /\ q \o (<<>> \o <<b>>) = Append(q, b)
           /\ q \o (<<a>> \o <<b>>) = Append(Append(q, a), b)
<1>1. q \o <<a>> = Append(q, a) /\ q \o <<b>> = Append(q, b)
    OBVIOUS
<1>2. q \o <<a, b>> = Append(Append(q, a), b)
    OBVIOUS
<1>3. q \o (<<>> \o <<b>>) = Append(q, b)
  <2>1. <<b>> \in Seq(Events)
      OBVIOUS
  <2>2. <<>> \o <<b>> = <<b>>
      BY <2>1, ConcatEmptySeq
  <2> QED
      BY <1>1, <2>2
<1>4. q \o (<<a>> \o <<b>>) = Append(Append(q, a), b)
  <2>1. q \o (<<a>> \o <<b>>) = (q \o <<a>>) \o <<b>>
    <3>1. <<a>> \in Seq(Events) /\ <<b>> \in Seq(Events)
        OBVIOUS
    <3> QED
        BY <3>1, ConcatAssociative
  <2>2. Append(q, a) \in Seq(Events)
      OBVIOUS
  <2>3. Append(q, a) \o <<b>> = Append(Append(q, a), b)
      BY <2>2
  <2> QED
      BY <1>1, <2>1, <2>3
<1> QED
    BY <1>1, <1>2, <1>3, <1>4

LEMMA AnnounceTask ==
    ASSUME TypeInv, AnnounceInv, Thread
    PROVE  AnnounceInv'
<1> USE DEF tables, managerVars, history
<1>0. /\ RestTyped /\ events \in Seq(Events) /\ stored \subseteq DataObjects
      /\ ~twice /\ \A d \in DataObjects : Alternate(events, announced, stored, d)
    BY TypeParts DEF RestTyped, AnnounceInv
<1>a. ASSUME NEW objs \in SUBSET DataObjects, NEW flag \in BOOLEAN,
             NEW type \in {"GET_LOCAL_BF", "INSERTED", "DELETED", "AGED"}
      PROVE  /\ Event(type, objs, flag) \in Events
             /\ Event(type, objs, flag).type = type
             /\ Event(type, objs, flag).objs = objs
             /\ Event(type, objs, flag).flag = flag
    BY DEF Event, Events
<1>b. ASSUME NEW e \in Events, events' = Append(events, e),
             UNCHANGED <<announced, twice>>,
             \A d \in DataObjects : Reported(e, stored, stored', d)
      PROVE  AnnounceInv'
  <2>1. ASSUME NEW d \in DataObjects
        PROVE  Alternate(Append(events, e), announced, stored', d)
      BY <1>0, <1>b, <2>1, AlternateAppend
  <2> QED
      BY <1>0, <1>b, <2>1 DEF AnnounceInv
<1>c. ASSUME NEW e \in Events, NEW f \in Events, NEW mid,
             events' = Append(Append(events, e), f),
             UNCHANGED <<announced, twice>>,
             \A d \in DataObjects : Reported(e, stored, mid, d)
                                    /\ Reported(f, mid, stored', d)
      PROVE  AnnounceInv'
  <2>1. ASSUME NEW d \in DataObjects
        PROVE  Alternate(Append(events, e), announced, mid, d)
      BY <1>0, <1>c, <2>1, AlternateAppend
  <2>2. Append(events, e) \in Seq(Events)
      BY <1>0
  <2>3. ASSUME NEW d \in DataObjects
        PROVE  Alternate(Append(Append(events, e), f), announced, stored', d)
      BY <1>c, <2>1, <2>2, AlternateAppend
  <2> QED
      BY <1>0, <1>c, <2>3 DEF AnnounceInv
<1>1. CASE _insertDataObject
  <2>1. task.arg \in DataObjects
      BY <1>1 DEF _insertDataObject, DataObjects
  <2> DEFINE duplicate == task.arg \in stored
             e == Event("INSERTED", {task.arg}, duplicate)
  <2>2. /\ duplicate \in BOOLEAN
        /\ duplicate <=> task.arg \in stored
        /\ {task.arg} \in SUBSET DataObjects
        /\ Post(<<e>>) /\ stored' = stored \cup {task.arg}
        /\ UNCHANGED <<announced, twice>>
      BY <1>1, <2>1 DEF _insertDataObject
  <2> HIDE DEF duplicate
  <2>3. /\ e \in Events /\ e.type = "INSERTED" /\ e.objs = {task.arg}
        /\ e.flag = duplicate
      BY <1>a, <2>1, <2>2
  <2> HIDE DEF e
  <2>4. events' = Append(events, e)
      BY <1>0, <2>2, <2>3, AppendPosted DEF Post
  <2>5. \A d \in DataObjects : Reported(e, stored, stored', d)
      BY <2>2, <2>3 DEF Reported, Announces, Retracts
  <2> QED
      BY <1>b, <2>2, <2>3, <2>4, <2>5
<1>2. CASE _insertNodeDescription /\ Newest(task.arg)
  <2> DEFINE x == task.arg
             S == SameNode(x)
             e == Event("DELETED", S, FALSE)
             f == Event("INSERTED", {x}, FALSE)
  <2>1. /\ x \in DataObjects /\ S \subseteq stored /\ S \subseteq DataObjects
        /\ UNCHANGED <<announced, twice>> /\ stored' = (stored \ S) \cup {x}
        /\ Post((IF S = {} THEN <<>> ELSE <<e>>) \o <<f>>)
      BY <1>0, <1>2 DEF _insertNodeDescription, DataObjects, SameNode
  <2>2. x \notin stored
    <3>1. x \in Descriptions /\ createTime[x] \in Nat
        BY <1>2, StoreConstants DEF _insertNodeDescription
    <3>2. x \in stored => x \in SameNode(x)
        BY <3>1 DEF SameNode
    <3>3. x \in SameNode(x) => createTime[x] < createTime[x]
        BY <1>2 DEF Newest
    <3> QED
        BY <3>1, <3>2, <3>3
  <2> HIDE DEF S, x
  <2>3. /\ e \in Events /\ e.type = "DELETED" /\ e.objs = S
        /\ f \in Events /\ f.type = "INSERTED" /\ f.objs = {x} /\ f.flag = FALSE
    <3>1. e \in Events /\ e.type = "DELETED" /\ e.objs = S
        BY <2>1 DEF Event, Events
    <3>2. f \in Events /\ f.type = "INSERTED" /\ f.objs = {x}
          /\ f.flag = FALSE
        BY <2>1 DEF Event, Events
    <3> QED
        BY <3>1, <3>2
  <2> HIDE DEF e, f
  <2>4. CASE S = {}
    <3>1. events' = Append(events, f)
        BY <1>0, <2>1, <2>3, <2>4, AppendPosted DEF Post
    <3>2. \A d \in DataObjects : Reported(f, stored, stored', d)
        BY <2>1, <2>2, <2>3, <2>4 DEF Reported, Announces, Retracts
    <3> QED
        BY <1>b, <2>1, <2>3, <3>1, <3>2
  <2>5. CASE S # {}
    <3>1. events' = Append(Append(events, e), f)
        BY <1>0, <2>1, <2>3, <2>5, AppendPosted DEF Post
    <3>2. \A d \in DataObjects : Reported(e, stored, stored \ S, d)
        BY <2>1, <2>2, <2>3 DEF Reported, Announces, Retracts
    <3>3. \A d \in DataObjects : Reported(f, stored \ S, stored', d)
        BY <2>1, <2>2, <2>3 DEF Reported, Announces, Retracts
    <3> QED
        BY <1>c, <2>1, <2>3, <3>1, <3>2, <3>3
  <2> QED
      BY <2>4, <2>5
<1>3. CASE _insertNodeDescription /\ ~Newest(task.arg)
    BY <1>0, <1>3 DEF _insertNodeDescription, AnnounceInv
<1>4. CASE _deleteDataObjectById \/ _deleteDataObject
  <2> DEFINE e == Event("DELETED", {task.arg}, task.keep)
  <2>1. task.arg \in DataObjects /\ task.keep \in BOOLEAN
      BY <1>4, ExecutedTask DEF _deleteDataObjectById, _deleteDataObject,
         GoodTasks
  <2>2. e \in Events /\ e.type = "DELETED" /\ e.objs = {task.arg}
      BY <1>a, <2>1
  <2>3. /\ stored' = stored \ {task.arg} /\ UNCHANGED <<announced, twice>>
        /\ Post(<<e>>) \/ (task.arg \notin stored /\ UNCHANGED events)
      BY <1>4 DEF _deleteDataObjectById, _deleteDataObject
  <2> HIDE DEF e
  <2>4. CASE Post(<<e>>)
    <3>1. events' = Append(events, e)
        BY <1>0, <2>2, <2>4, AppendPosted DEF Post
    <3>2. \A d \in DataObjects : Reported(e, stored, stored', d)
        BY <2>2, <2>3 DEF Reported, Announces, Retracts
    <3> QED
        BY <1>b, <2>2, <2>3, <3>1, <3>2
  <2>5. CASE task.arg \notin stored /\ UNCHANGED events
    <3>1. stored' = stored
        BY <2>3, <2>5
    <3> QED
        BY <1>0, <2>3, <2>5, <3>1 DEF AnnounceInv
  <2> QED
      BY <2>3, <2>4, <2>5
<1>5. CASE _ageDataObjects
  <2>1. PICK old \in SUBSET stored :
            /\ stored' = stored \ old
            /\ Post(<<Event("DELETED", old, task.keep),
                      Event("AGED", old, TRUE)>>)
      BY <1>5 DEF _ageDataObjects
  <2> DEFINE e == Event("DELETED", old, task.keep)
             f == Event("AGED", old, TRUE)
  <2>2. /\ task.keep \in BOOLEAN /\ old \in SUBSET DataObjects
        /\ UNCHANGED <<announced, twice>>
      BY <1>0, <1>5, ExecutedTask DEF _ageDataObjects
  <2>3. /\ e \in Events /\ e.type = "DELETED" /\ e.objs = old
        /\ f \in Events /\ f.type = "AGED"
    <3>1. e \in Events /\ e.type = "DELETED" /\ e.objs = old
        BY <1>a, <2>2
    <3>2. f \in Events /\ f.type = "AGED"
        BY <2>2 DEF Event, Events
    <3> QED
        BY <3>1, <3>2
  <2>4. Post(<<e, f>>)
      BY <2>1
  <2> HIDE DEF e, f
  <2>5. events' = Append(Append(events, e), f)
      BY <1>0, <2>3, <2>4, AppendPosted DEF Post
  <2>6. \A d \in DataObjects : Reported(e, stored, stored', d)
                               /\ Reported(f, stored', stored', d)
      BY <2>1, <2>3 DEF Reported, Announces, Retracts
  <2> QED
      BY <1>c, <2>2, <2>3, <2>5, <2>6
<1>6. CASE _readRepository
  <2> DEFINE e == Event("GET_LOCAL_BF", saved.filter, saved.present)
  <2>1. e \in Events /\ e.type = "GET_LOCAL_BF"
      BY <1>0, <1>a DEF RestTyped
  <2>2. Post(<<e>>) /\ UNCHANGED <<stored, announced, twice>>
      BY <1>6 DEF _readRepository
  <2> HIDE DEF e
  <2>3. events' = Append(events, e)
      BY <1>0, <2>1, <2>2, AppendPosted DEF Post
  <2>4. \A d \in DataObjects : Reported(e, stored, stored', d)
      BY <2>1, <2>2 DEF Reported, Announces, Retracts
  <2> QED
      BY <1>b, <2>1, <2>2, <2>3, <2>4
<1>7. CASE \/ runTake \/ runExit \/ runWait \/ runWoken
           \/ _insertRepository \/ _doNothingHere
  <2>1. UNCHANGED <<events, announced, stored, twice>>
      BY <1>7 DEF runTake, runExit, runWait, runWoken, _insertRepository,
         _doNothingHere
  <2> QED
      BY <1>0, <2>1 DEF AnnounceInv
<1> QED
    BY <1>1, <1>2, <1>3, <1>4, <1>5, <1>6, <1>7 DEF Thread

LEMMA AnnounceStep ==
    ASSUME TypeInv, AnnounceInv, [Next]_vars
    PROVE  AnnounceInv'
<1> USE DEF tables, managerVars, history, threadVars
<1>0. /\ RestTyped /\ events \in Seq(Events)
      /\ ~twice /\ \A d \in DataObjects : Alternate(events, announced, stored, d)
    BY TypeParts DEF RestTyped, AnnounceInv
<1>a. ASSUME UNCHANGED <<events, announced, stored, twice>>
      PROVE  AnnounceInv'
    BY <1>0, <1>a DEF AnnounceInv
<1>b. ASSUME events # <<>>, events' = Tail(events), UNCHANGED stored, ~twice',
             \A d \in announced' : \/ d \in announced
                                      /\ ~Retracts(Head(events), d)
                                   \/ Announces(Head(events), d)
      PROVE  AnnounceInv'
  <2>1. ASSUME NEW d \in DataObjects
        PROVE  Alternate(Tail(events), announced', stored, d)
      BY <1>0, <1>b, <2>1, AlternateTail
  <2> QED
      BY <1>b, <2>1 DEF AnnounceInv
<1>1. CASE onInsertedDataObject
  <2> DEFINE h == Head(events)
  <2>1. /\ events # <<>> /\ events' = Tail(events) /\ h.type = "INSERTED"
        /\ UNCHANGED stored
      BY <1>1 DEF onInsertedDataObject, Handle
  <2>2. h \in Events /\ h.flag \in BOOLEAN /\ h.objs \subseteq DataObjects
      BY <1>0, <1>1, FirstEvent DEF onInsertedDataObject
  <2>3. CASE h.flag
    <3>1. UNCHANGED <<announced, twice>>
        BY <1>1, <2>3 DEF onInsertedDataObject
    <3> QED
        BY <1>0, <1>b, <2>1, <3>1 DEF Retracts
  <2>4. CASE ~h.flag
    <3>1. /\ announced' = announced \cup h.objs
          /\ twice' = (twice \/ h.objs \cap announced # {})
        BY <1>1, <2>4 DEF onInsertedDataObject
    <3>2. ASSUME NEW d \in h.objs, d \in announced PROVE FALSE
      <4>1. Alternate(events, announced, stored, d)
          BY <1>0, <2>2
      <4>2. Len(events) \in Nat /\ Len(events) > 0 /\ events[1] = h
          BY <1>0, <2>1
      <4>3. /\ AnnouncedAt(events, announced, d, 0)
            /\ AnnouncedAt(events, announced, d, 1)
          BY <2>1, <2>4, <3>2, <4>2 DEF AnnouncedAt, Announces
      <4>4. 0 \in 0..Len(events) /\ 1 \in 0..Len(events) /\ 0 < 1
          BY <4>2
      <4>5. \E k \in (0 + 1)..(1 - 1) : Retracts(events[k], d)
          BY <4>1, <4>3, <4>4 DEF Alternate
      <4> QED
          BY <4>5
    <3>3. ~twice'
        BY <1>0, <3>1, <3>2
    <3> QED
        BY <1>b, <2>1, <2>4, <3>1, <3>3 DEF Retracts, Announces
  <2> QED
      BY <2>3, <2>4
<1>2. CASE onDeletedDataObject
    BY <1>0, <1>2, <1>b DEF onDeletedDataObject, Handle, Retracts
<1>3. CASE onGetLocalBF \/ onAgedDataObjects
  <2>1. /\ events # <<>> /\ events' = Tail(events)
        /\ UNCHANGED <<stored, announced, twice>>
        /\ Head(events).type # "DELETED"
      BY <1>3 DEF onGetLocalBF, onAgedDataObjects, Handle
  <2> QED
      BY <1>0, <1>b, <2>1 DEF Retracts
<1>4. CASE DataManager /\ ~(onInsertedDataObject \/ onDeletedDataObject
                            \/ onGetLocalBF \/ onAgedDataObjects)
    BY <1>4, <1>a DEF DataManager, onIncomingDataObject, onVerifiedDataObject,
       onBadDataObject, onAging, onConfig, onShutdown
<1>5. CASE Callers
    BY <1>5, <1>a DEF Callers, deleteDataObjectById, deleteDataObject,
       doDataObjectQuery, cancelDataObjectQueries
<1>6. CASE stop \/ setClockBack \/ wakeSpuriously \/ UNCHANGED vars
    BY <1>6, <1>a DEF stop, cancel, hookCancel, join, setClockBack, wakeSpuriously, vars
<1>7. CASE restart \/ crash
  <2>1. /\ events' = <<>> /\ announced' = announced \cap stored
        /\ UNCHANGED <<stored, twice>>
      BY <1>7 DEF restart, crash, NewProcess
  <2>2. ASSUME NEW d \in DataObjects
        PROVE  Alternate(<<>>, announced \cap stored, stored, d)
    <3>1. Len(<<>>) = 0
        OBVIOUS
    <3>2. 0..0 = {0}
        OBVIOUS
    <3> QED
        BY <3>1, <3>2 DEF Alternate, AnnouncedAt
  <2> QED
      BY <1>0, <2>1, <2>2 DEF AnnounceInv
<1> QED
    BY <1>1, <1>2, <1>3, <1>4, <1>5, <1>6, <1>7, AnnounceTask DEF Next

(* The data manager raises the NEW event for a data object once as long as  *)
(* it is not deleted, for duplicates, after deletions whose events are      *)
(* still queued, and across crashes.                                        *)
THEOREM OneAnnouncement == Spec => []AnnouncedOnce
<1>1. Init => AnnounceInv
  <2> SUFFICES ASSUME Init PROVE AnnounceInv
      OBVIOUS
  <2>1. events = <<>> /\ announced = {} /\ ~twice /\ Len(<<>>) = 0
      BY DEF Init
  <2>2. 0..0 = {0}
      OBVIOUS
  <2> QED
      BY <2>1, <2>2 DEF AnnounceInv, Alternate, AnnouncedAt
<1>2. AnnounceInv => AnnouncedOnce
    BY DEF AnnounceInv, AnnouncedOnce
<1> QED
    BY <1>1, <1>2, TypeInvariant, AnnounceStep, PTL DEF Spec
-----------------------------------------------------------------------------
(***************************************************************************)
(* The start of the process                                                 *)
(***************************************************************************)

(* Whether an element of T is in list l, and whether at most one is.        *)
Occurs(l, T) == \E i \in 1..Len(l) : l[i] \in T
OccursOnce(l, T) == \A i, j \in 1..Len(l) : l[i] \in T /\ l[j] \in T => i = j

Reads == {t \in Tasks : t.type = "READ_REPOSITORY"}
Gets == {e \in Events : e.type = "GET_LOCAL_BF"}

(* Until the saved filter has been read nothing else is asked for: the      *)
(* request is queued, in hand, or answered.                                 *)
Starting ==
    /\ verifying = {} /\ localBF = {}
    /\ \/ taskQ = <<FirstTask>> /\ task = NoTask /\ events = <<>>
       \/ taskQ = <<>> /\ task = FirstTask /\ events = <<>>
       \/ /\ taskQ = <<>> /\ task = NoTask
          /\ events = <<Event("GET_LOCAL_BF", saved.filter, saved.present)>>

StartInv ==
    /\ starts # 0
    /\ pc # "busy" => task = NoTask
    /\ kernel = "starting" => Starting
    /\ kernel # "starting" => /\ ~Occurs(taskQ, Reads) /\ task \notin Reads
                              /\ ~Occurs(events, Gets)
    /\ starts = 1 /\ kernel = "starting" => ~saved.present /\ stored = {}

(* An empty list, and a list of one.                                        *)
LEMMA OccursShort ==
    ASSUME NEW S, NEW T, NEW a \in S
    PROVE  /\ ~Occurs(<<>>, T) /\ OccursOnce(<<>>, T)
           /\ Occurs(<<a>>, T) <=> a \in T
           /\ OccursOnce(<<a>>, T)
<1>1. Len(<<>>) = 0 /\ Len(<<a>>) = 1 /\ <<a>>[1] = a
    OBVIOUS
<1>2. 1..0 = {} /\ 1..1 = {1}
    OBVIOUS
<1> QED
    BY <1>1, <1>2 DEF Occurs, OccursOnce

LEMMA OccursAppend ==
    ASSUME NEW S, NEW T, NEW l \in Seq(S), NEW a \in S
    PROVE  /\ Occurs(Append(l, a), T) <=> Occurs(l, T) \/ a \in T
           /\ OccursOnce(l, T) /\ ~(Occurs(l, T) /\ a \in T)
              => OccursOnce(Append(l, a), T)
<1> DEFINE r == Append(l, a)
           n == Len(l)
<1>1. /\ n \in Nat /\ Len(r) = n + 1 /\ r[n + 1] = a
      /\ \A i \in 1..n : r[i] = l[i]
    OBVIOUS
<1> HIDE DEF r, n
<1>2. ASSUME NEW i \in 1..(n + 1) PROVE i \in 1..n \/ i = n + 1
    BY <1>1
<1>3. 1..n \subseteq 1..(n + 1) /\ n + 1 \in 1..(n + 1)
    BY <1>1
<1>4. Occurs(r, T) <=> Occurs(l, T) \/ a \in T
    BY <1>1, <1>2, <1>3 DEF Occurs, n
<1>5. ASSUME OccursOnce(l, T), ~(Occurs(l, T) /\ a \in T),
             NEW i \in 1..(n + 1), NEW j \in 1..(n + 1), r[i] \in T, r[j] \in T
      PROVE  i = j
  <2>1. CASE i \in 1..n /\ j \in 1..n
      BY <1>1, <1>5, <2>1 DEF OccursOnce, n
  <2>2. CASE i = n + 1 /\ j \in 1..n
      BY <1>1, <1>5, <2>2 DEF Occurs, n
  <2>3. CASE j = n + 1 /\ i \in 1..n
      BY <1>1, <1>5, <2>3 DEF Occurs, n
  <2> QED
      BY <1>2, <2>1, <2>2, <2>3
<1>6. OccursOnce(l, T) /\ ~(Occurs(l, T) /\ a \in T) => OccursOnce(r, T)
    BY <1>1, <1>5 DEF OccursOnce
<1> QED
    BY <1>4, <1>6 DEF r

LEMMA OccursTail ==
    ASSUME NEW S, NEW T, NEW l \in Seq(S), l # <<>>
    PROVE  /\ Occurs(l, T) <=> Head(l) \in T \/ Occurs(Tail(l), T)
           /\ OccursOnce(l, T) => /\ OccursOnce(Tail(l), T)
                                  /\ ~(Head(l) \in T /\ Occurs(Tail(l), T))
<1> DEFINE r == Tail(l)
           n == Len(r)
<1>1. /\ n \in Nat /\ Len(l) = n + 1 /\ l[1] = Head(l)
      /\ \A i \in 1..n : r[i] = l[i + 1]
    OBVIOUS
<1> HIDE DEF r, n
<1>2. ASSUME NEW i \in 1..(n + 1), i # 1 PROVE i - 1 \in 1..n /\ i = (i - 1) + 1
    BY <1>1, <1>2
<1>3. ASSUME NEW i \in 1..n
      PROVE  i + 1 \in 1..(n + 1) /\ i + 1 # 1
    BY <1>1
<1>4. 1 \in 1..(n + 1)
    BY <1>1
<1>5. ASSUME Occurs(l, T) PROVE Head(l) \in T \/ Occurs(r, T)
  <2>1. PICK i \in 1..(n + 1) : l[i] \in T
      BY <1>1, <1>5 DEF Occurs
  <2>2. CASE i = 1
      BY <1>1, <2>1, <2>2
  <2>3. CASE i # 1
    <3>1. i - 1 \in 1..n /\ r[i - 1] \in T
        BY <1>1, <1>2, <2>1, <2>3
    <3> QED
        BY <3>1 DEF Occurs, n
  <2> QED
      BY <2>2, <2>3
<1>6. ASSUME Head(l) \in T \/ Occurs(r, T) PROVE Occurs(l, T)
    BY <1>1, <1>3, <1>4, <1>6 DEF Occurs, n
<1>7. ASSUME OccursOnce(l, T)
      PROVE  OccursOnce(r, T) /\ ~(Head(l) \in T /\ Occurs(r, T))
  <2>1. ASSUME NEW i \in 1..n, NEW j \in 1..n, r[i] \in T, r[j] \in T
        PROVE  i = j
    <3>1. i + 1 = j + 1
        BY <1>1, <1>3, <1>7, <2>1 DEF OccursOnce
    <3> QED
        BY <3>1
  <2>2. ASSUME Head(l) \in T, NEW i \in 1..n, r[i] \in T PROVE FALSE
      BY <1>1, <1>3, <1>4, <1>7, <2>2 DEF OccursOnce
  <2> QED
      BY <2>1, <2>2 DEF OccursOnce, Occurs, n
<1> QED
    BY <1>5, <1>6, <1>7 DEF r

(* insert() keeps every task and adds one.                                  *)
LEMMA OccursInsert ==
    ASSUME NEW T, NEW l \in Seq(GoodTasks), NEW t \in GoodTasks,
           NEW p \in 1..(Len(l) + 1)
    PROVE  /\ Occurs(InsertAt(l, p, t), T) <=> Occurs(l, T) \/ t \in T
           /\ OccursOnce(l, T) /\ ~(Occurs(l, T) /\ t \in T)
              => OccursOnce(InsertAt(l, p, t), T)
<1> DEFINE r == InsertAt(l, p, t)
           n == Len(l)
           back(i) == IF i < p THEN i ELSE i - 1
<1>1. n \in Nat /\ Len(r) = n + 1 /\ p \in 1..(n + 1)
    BY InsertType
<1>2. /\ \A i \in 1..(n + 1) : i < p => r[i] = l[i]
      /\ r[p] = t
      /\ \A i \in 1..(n + 1) : i > p => r[i] = l[i - 1]
    BY DEF InsertAt
<1> HIDE DEF r, n
<1>3. ASSUME NEW i \in 1..(n + 1), i # p
      PROVE  back(i) \in 1..n /\ r[i] = l[back(i)]
    BY <1>1, <1>2, <1>3
<1>4. ASSUME NEW i \in 1..(n + 1), i # p, NEW j \in 1..(n + 1), j # p,
             back(i) = back(j)
      PROVE  i = j
    BY <1>1, <1>4
<1>5. ASSUME NEW k \in 1..n PROVE \E i \in 1..(n + 1) : r[i] = l[k]
  <2>1. CASE k < p
    <3>1. k \in 1..(n + 1) /\ r[k] = l[k]
        BY <1>1, <1>2, <2>1
    <3> QED
        BY <3>1
  <2>2. CASE ~(k < p)
    <3>1. k + 1 \in 1..(n + 1) /\ k + 1 > p /\ (k + 1) - 1 = k
        BY <1>1, <2>2
    <3>2. r[k + 1] = l[(k + 1) - 1]
        BY <1>2, <3>1
    <3> QED
        BY <3>1, <3>2
  <2> QED
      BY <2>1, <2>2
<1> HIDE DEF back
<1>6. Occurs(r, T) => Occurs(l, T) \/ t \in T
    BY <1>1, <1>2, <1>3 DEF Occurs, n
<1>7. Occurs(l, T) \/ t \in T => Occurs(r, T)
    BY <1>1, <1>2, <1>5 DEF Occurs, n
<1>8. ASSUME OccursOnce(l, T), ~(Occurs(l, T) /\ t \in T),
             NEW i \in 1..(n + 1), NEW j \in 1..(n + 1), r[i] \in T, r[j] \in T
      PROVE  i = j
  <2>1. CASE i # p /\ j # p
      BY <1>3, <1>4, <1>8, <2>1 DEF OccursOnce, n
  <2>2. CASE i = p /\ j # p
      BY <1>2, <1>3, <1>8, <2>2 DEF Occurs, n
  <2>3. CASE j = p /\ i # p
      BY <1>2, <1>3, <1>8, <2>3 DEF Occurs, n
  <2> QED
      BY <2>1, <2>2, <2>3
<1>9. OccursOnce(l, T) /\ ~(Occurs(l, T) /\ t \in T) => OccursOnce(r, T)
    BY <1>1, <1>8 DEF OccursOnce
<1> QED
    BY <1>6, <1>7, <1>9 DEF r

(* cancelDataObjectQueries() keeps every task but the cancelled queries.    *)
LEMMA OccursCancel ==
    ASSUME TypeInv, NEW n \in Nodes, cancelDataObjectQueries(n), NEW T
    PROVE  /\ Occurs(taskQ', T) => Occurs(taskQ, T)
           /\ (\A t \in T : t.type # "DATAOBJECT_QUERY")
              => (Occurs(taskQ, T) => Occurs(taskQ', T))
           /\ OccursOnce(taskQ, T) => OccursOnce(taskQ', T)
<1> DEFINE Left == {i \in 1..Len(taskQ) : ~Cancelled(n, taskQ[i])}
           m == Cardinality(Left)
<1>0. taskQ \in Seq(GoodTasks) /\ Len(taskQ) \in Nat
    BY DEF TypeInv
<1>1. IsFiniteSet(Left) /\ m \in Nat
  <2>1. IsFiniteSet(1..Len(taskQ))
      BY <1>0, FS_Interval
  <2>2. IsFiniteSet(Left)
      BY <2>1, FS_Subset
  <2> QED
      BY <2>2, FS_CardinalityType
<1>2. Left \subseteq 1..Len(taskQ)
    OBVIOUS
<1>3. PICK g \in [1..m -> Left] :
          /\ \A i, j \in DOMAIN g : i < j => g[i] < g[j]
          /\ taskQ' = [k \in DOMAIN g |-> taskQ[g[k]]]
    BY DEF cancelDataObjectQueries
<1>4. \A i \in 1..Len(taskQ) : i \notin Left => Cancelled(n, taskQ[i])
    OBVIOUS
<1>x. m = Cardinality(Left)
    OBVIOUS
<1> HIDE DEF Left, m
<1>5. DOMAIN g = 1..m /\ \A k \in 1..m : g[k] \in 1..Len(taskQ)
    BY <1>2
<1>6. taskQ' \in [1..m -> GoodTasks]
    BY <1>0, <1>3, <1>5
<1>7. Len(taskQ') = m /\ \A k \in 1..m : taskQ'[k] = taskQ[g[k]]
    BY <1>1, <1>3, <1>5, <1>6
<1>8. ASSUME NEW i \in 1..m, NEW j \in 1..m, i # j PROVE g[i] # g[j]
  <2>1. i < j \/ j < i
      BY <1>1, <1>8
  <2>2. g[i] < g[j] \/ g[j] < g[i]
      BY <1>3, <1>5, <2>1
  <2> QED
      BY <1>0, <1>5, <2>2
<1>9. ASSUME NEW x \in Left PROVE \E k \in 1..m : g[k] = x
  <2>1. SUFFICES ASSUME \A k \in 1..m : g[k] # x PROVE FALSE
      OBVIOUS
  <2> DEFINE U == Left \ {x}
  <2>2. IsFiniteSet(U) /\ Cardinality(U) = m - 1
      BY <1>1, <1>x, <1>9, FS_RemoveElement
  <2>3. g \in [1..m -> U]
      BY <2>1
  <2>4. IsFiniteSet(1..m) /\ Cardinality(1..m) = m
      BY <1>1, FS_Interval
  <2> HIDE DEF U
  <2>5. Cardinality(1..m) > Cardinality(U)
      BY <1>1, <2>2, <2>4
  <2>6. \E i, j \in 1..m : i # j /\ g[i] = g[j]
      BY <2>2, <2>3, <2>4, <2>5, FS_PigeonHole
  <2> QED
      BY <1>8, <2>6
<1>10. Occurs(taskQ', T) => Occurs(taskQ, T)
    BY <1>5, <1>7 DEF Occurs
<1>11. ASSUME \A t \in T : t.type # "DATAOBJECT_QUERY", Occurs(taskQ, T)
       PROVE  Occurs(taskQ', T)
  <2>1. PICK i \in 1..Len(taskQ) : taskQ[i] \in T
      BY <1>11 DEF Occurs
  <2>2. i \in Left
      BY <1>4, <1>11, <2>1 DEF Cancelled
  <2>3. PICK k \in 1..m : g[k] = i
      BY <1>9, <2>2
  <2> QED
      BY <1>7, <2>1, <2>3 DEF Occurs
<1>12. OccursOnce(taskQ, T) => OccursOnce(taskQ', T)
    BY <1>5, <1>7, <1>8 DEF OccursOnce
<1> QED
    BY <1>10, <1>11, <1>12

(* What a submission adds to the queue.                                     *)
LEMMA SubmitOccurs ==
    ASSUME TypeInv, NEW type, NEW arg, NEW keep,
           Task(type, arg, keep) \in GoodTasks, submit(type, arg, keep), NEW T
    PROVE  /\ Occurs(taskQ', T) <=> \/ Occurs(taskQ, T)
                                    \/ Task(type, arg, keep) \in T
           /\ OccursOnce(taskQ, T)
              /\ ~(Occurs(taskQ, T) /\ Task(type, arg, keep) \in T)
              => OccursOnce(taskQ', T)
<1> DEFINE t == Task(type, arg, keep)
<1>1. taskQ' = InsertAt(taskQ, Place(t, taskQ), t)
    BY DEF submit, Insert
<1>2. taskQ \in Seq(GoodTasks) /\ t \in GoodTasks
    BY DEF TypeInv
<1> HIDE DEF t
<1>3. Place(t, taskQ) \in 1..(Len(taskQ) + 1)
    BY <1>2, PlaceFound
<1>4. /\ Occurs(taskQ', T) <=> Occurs(taskQ, T) \/ t \in T
      /\ OccursOnce(taskQ, T) /\ ~(Occurs(taskQ, T) /\ t \in T)
         => OccursOnce(taskQ', T)
    BY <1>1, <1>2, <1>3, OccursInsert
<1> QED
    BY <1>4 DEF t

(* The tasks that are submitted, by kind.                                   *)
LEMMA SubmittedKinds ==
    ASSUME TypeInv
    PROVE  /\ \A d \in DataObjects :
                 /\ Task("INSERT_DATAOBJECT", d, FALSE) \in GoodTasks
                 /\ Task("DELETE_DATAOBJECT", d, TRUE) \in GoodTasks
                 /\ \A keep \in BOOLEAN :
                       Task("DELETE_DATAOBJECT_BY_ID", d, keep) \in GoodTasks
           /\ \A n \in Nodes : Task("DATAOBJECT_QUERY", n, FALSE) \in GoodTasks
           /\ Task("DELETE_REPOSITORY", None, FALSE) \in GoodTasks
           /\ Task("AGE_DATAOBJECTS", None, KeepOnAging) \in GoodTasks
           /\ Task("INSERT_REPOSITORY", localBF, FALSE) \in GoodTasks
           /\ Task("EXIT", None, FALSE) \in GoodTasks
<1>1. ASSUME NEW d \in DataObjects
      PROVE  /\ Task("INSERT_DATAOBJECT", d, FALSE) \in GoodTasks
             /\ Task("DELETE_DATAOBJECT", d, TRUE) \in GoodTasks
    BY <1>1, NewTask DEF High
<1>2. ASSUME NEW d \in DataObjects, NEW keep \in BOOLEAN
      PROVE  Task("DELETE_DATAOBJECT_BY_ID", d, keep) \in GoodTasks
    BY <1>2, NewTask DEF High
<1>3. ASSUME NEW n \in Nodes
      PROVE  Task("DATAOBJECT_QUERY", n, FALSE) \in GoodTasks
    BY <1>3, NewTask DEF Medium
<1>4. /\ Task("DELETE_REPOSITORY", None, FALSE) \in GoodTasks
      /\ Task("EXIT", None, FALSE) \in GoodTasks
    BY NewTask DEF High, Low
<1>5. Task("AGE_DATAOBJECTS", None, KeepOnAging) \in GoodTasks
    BY NewTask, StoreConstants DEF Low
<1>6. Task("INSERT_REPOSITORY", localBF, FALSE) \in GoodTasks
  <2>1. localBF \in SUBSET DataObjects
      BY DEF TypeInv, TypeOK
  <2> QED
      BY <2>1, NewTask DEF High
<1> QED
    BY <1>1, <1>2, <1>3, <1>4, <1>5, <1>6

(* A task is added to the queue, and a waiting thread woken.                *)
Adds(t) ==
    /\ t \in GoodTasks
    /\ \A T : /\ Occurs(taskQ', T) <=> Occurs(taskQ, T) \/ t \in T
              /\ OccursOnce(taskQ, T) /\ ~(Occurs(taskQ, T) /\ t \in T)
                 => OccursOnce(taskQ', T)
    /\ pc' = IF pc = "waiting" THEN "woken" ELSE pc

LEMMA SubmitAdds ==
    ASSUME TypeInv, NEW type, NEW arg, NEW keep,
           Task(type, arg, keep) \in GoodTasks, submit(type, arg, keep)
    PROVE  /\ Adds(Task(type, arg, keep))
           /\ Task(type, arg, keep).type = type
           /\ Task(type, arg, keep).arg = arg
           /\ Task(type, arg, keep).keep = keep
<1>1. Adds(Task(type, arg, keep))
    BY SubmitOccurs DEF Adds, submit
<1> QED
    BY <1>1 DEF Task

(* No handler of the kernel thread asks for the saved filter again.         *)
LEMMA KernelNoRead ==
    ASSUME TypeInv, DataManager \/ Callers \/ hookCancel,
           ~Occurs(taskQ, Reads)
    PROVE  ~Occurs(taskQ', Reads)
<1>1. ASSUME NEW type, NEW arg, NEW keep, type # "READ_REPOSITORY",
             Task(type, arg, keep) \in GoodTasks, submit(type, arg, keep)
      PROVE  ~Occurs(taskQ', Reads)
  <2>1. Adds(Task(type, arg, keep)) /\ Task(type, arg, keep).type = type
      BY <1>1, SubmitAdds
  <2>2. Task(type, arg, keep) \notin Reads
      BY <1>1, <2>1 DEF Reads
  <2> QED
      BY <2>1, <2>2 DEF Adds
<1>2. ASSUME UNCHANGED taskQ PROVE ~Occurs(taskQ', Reads)
    BY <1>2
<1>3. ASSUME NEW d \in DataObjects,
             \/ onIncomingDataObject(d) \/ onVerifiedDataObject(d)
             \/ onBadDataObject(d)
      PROVE  ~Occurs(taskQ', Reads)
    BY <1>1, <1>2, <1>3, SubmittedKinds DEF onIncomingDataObject,
       onVerifiedDataObject, onBadDataObject
<1>4. ASSUME \/ onGetLocalBF \/ onInsertedDataObject \/ onDeletedDataObject
             \/ onAgedDataObjects
      PROVE  ~Occurs(taskQ', Reads)
    BY <1>1, <1>2, <1>4, SubmittedKinds DEF onGetLocalBF,
       onInsertedDataObject, onDeletedDataObject, onAgedDataObjects
<1>5. ASSUME onAging \/ onConfig \/ onShutdown \/ hookCancel
      PROVE  ~Occurs(taskQ', Reads)
    BY <1>1, <1>2, <1>5, SubmittedKinds DEF onAging, onConfig, onShutdown,
       hookCancel
<1>6. ASSUME NEW d \in DataObjects, deleteDataObject(d)
      PROVE  ~Occurs(taskQ', Reads)
    BY <1>1, <1>6, SubmittedKinds DEF deleteDataObject
<1>7. ASSUME NEW d \in DataObjects, NEW keep \in BOOLEAN,
             deleteDataObjectById(d, keep)
      PROVE  ~Occurs(taskQ', Reads)
    BY <1>1, <1>7, SubmittedKinds DEF deleteDataObjectById
<1>8. ASSUME NEW n \in Nodes, doDataObjectQuery(n)
      PROVE  ~Occurs(taskQ', Reads)
    BY <1>1, <1>8, SubmittedKinds DEF doDataObjectQuery
<1>9. ASSUME NEW n \in Nodes, cancelDataObjectQueries(n)
      PROVE  ~Occurs(taskQ', Reads)
    BY <1>9, OccursCancel
<1> QED
    BY <1>3, <1>4, <1>5, <1>6, <1>7, <1>8, <1>9 DEF DataManager, Callers

(* What a task posts: nothing, one event or two, and GET_LOCAL_BF only for  *)
(* the request to read the saved filter.                                    *)
LEMMA ThreadEvents ==
    ASSUME TypeInv, Thread, NEW T, \A e \in T : e.type = "GET_LOCAL_BF",
           task.type # "READ_REPOSITORY", ~Occurs(events, T)
    PROVE  ~Occurs(events', T)
<1> USE DEF tables, managerVars, history
<1>0. RestTyped /\ events \in Seq(Events) /\ stored \subseteq DataObjects
    BY TypeParts DEF RestTyped
<1>a. ASSUME NEW objs \in SUBSET DataObjects, NEW flag \in BOOLEAN,
             NEW type \in {"INSERTED", "DELETED", "AGED"}
      PROVE  Event(type, objs, flag) \in Events
             /\ Event(type, objs, flag) \notin T
    BY DEF Event, Events
<1>b. ASSUME NEW e \in Events, e \notin T, events' = Append(events, e)
      PROVE  ~Occurs(events', T)
    BY <1>0, <1>b, OccursAppend
<1>c. ASSUME NEW e \in Events, e \notin T, NEW f \in Events, f \notin T,
             events' = Append(Append(events, e), f)
      PROVE  ~Occurs(events', T)
  <2>1. Append(events, e) \in Seq(Events) /\ ~Occurs(Append(events, e), T)
      BY <1>0, <1>c, OccursAppend
  <2> QED
      BY <1>c, <2>1, OccursAppend
<1>1. CASE _insertDataObject
  <2> DEFINE duplicate == task.arg \in stored
             e == Event("INSERTED", {task.arg}, duplicate)
  <2>1. /\ duplicate \in BOOLEAN /\ {task.arg} \in SUBSET DataObjects
        /\ Post(<<e>>)
      BY <1>1 DEF _insertDataObject, DataObjects
  <2> HIDE DEF duplicate
  <2>2. e \in Events /\ e \notin T
      BY <1>a, <2>1
  <2> HIDE DEF e
  <2> QED
      BY <1>0, <1>b, <2>1, <2>2, AppendPosted DEF Post
<1>2. CASE _insertNodeDescription
  <2> DEFINE x == task.arg
             S == SameNode(x)
             e == Event("DELETED", S, FALSE)
             f == Event("INSERTED", {x}, FALSE)
  <2>1. /\ {x} \in SUBSET DataObjects /\ S \in SUBSET DataObjects
        /\ \/ UNCHANGED events
           \/ Post((IF S = {} THEN <<>> ELSE <<e>>) \o <<f>>)
      BY <1>0, <1>2 DEF _insertNodeDescription, DataObjects, SameNode
  <2> HIDE DEF S, x
  <2>2. e \in Events /\ e \notin T /\ f \in Events /\ f \notin T
      BY <1>a, <2>1
  <2> HIDE DEF e, f
  <2>3. CASE UNCHANGED events
      BY <2>3
  <2>4. CASE Post((IF S = {} THEN <<>> ELSE <<e>>) \o <<f>>)
    <3>1. CASE S = {}
        BY <1>0, <1>b, <2>2, <2>4, <3>1, AppendPosted DEF Post
    <3>2. CASE S # {}
        BY <1>0, <1>c, <2>2, <2>4, <3>2, AppendPosted DEF Post
    <3> QED
        BY <3>1, <3>2
  <2> QED
      BY <2>1, <2>3, <2>4
<1>3. CASE _deleteDataObjectById \/ _deleteDataObject
  <2> DEFINE e == Event("DELETED", {task.arg}, task.keep)
  <2>1. {task.arg} \in SUBSET DataObjects /\ task.keep \in BOOLEAN
      BY <1>3, ExecutedTask DEF _deleteDataObjectById, _deleteDataObject,
         GoodTasks
  <2>2. e \in Events /\ e \notin T
      BY <1>a, <2>1
  <2>3. Post(<<e>>) \/ UNCHANGED events
      BY <1>3 DEF _deleteDataObjectById, _deleteDataObject
  <2> HIDE DEF e
  <2>4. CASE Post(<<e>>)
      BY <1>0, <1>b, <2>2, <2>4, AppendPosted DEF Post
  <2>5. CASE UNCHANGED events
      BY <2>5
  <2> QED
      BY <2>3, <2>4, <2>5
<1>4. CASE _ageDataObjects
  <2>1. PICK old \in SUBSET stored :
            Post(<<Event("DELETED", old, task.keep), Event("AGED", old, TRUE)>>)
      BY <1>4 DEF _ageDataObjects
  <2> DEFINE e == Event("DELETED", old, task.keep)
             f == Event("AGED", old, TRUE)
  <2>2. task.keep \in BOOLEAN /\ old \in SUBSET DataObjects /\ Post(<<e, f>>)
      BY <1>0, <1>4, <2>1, ExecutedTask DEF _ageDataObjects
  <2>3. e \in Events /\ e \notin T
      BY <1>a, <2>2
  <2>4. f \in Events /\ f \notin T
      BY <2>2 DEF Event, Events
  <2> HIDE DEF e, f
  <2> QED
      BY <1>0, <1>c, <2>2, <2>3, <2>4, AppendPosted DEF Post
<1>5. CASE \/ runTake \/ runExit \/ runWait \/ runWoken
           \/ _readRepository \/ _insertRepository \/ _doNothingHere
    BY <1>5 DEF runTake, runExit, runWait, runWoken, _insertRepository,
       _doNothingHere, _readRepository, Executing
<1> QED
    BY <1>1, <1>2, <1>3, <1>4, <1>5 DEF Thread

(* What run() does with the task in hand.                                   *)
LEMMA ThreadHand ==
    ASSUME Thread
    PROVE  /\ UNCHANGED <<kernel, starts, verifying, localBF, cancelled, intact>>
           /\ \/ pc = "busy" /\ pc' = "ready" /\ task' = NoTask /\ UNCHANGED taskQ
              \/ pc # "busy" /\ pc' = "busy" /\ TakeFront /\ taskQ # <<>>
                 /\ UNCHANGED <<events, stored, saved>>
              \/ /\ pc # "busy" /\ pc' # "busy"
                 /\ pc' = "exited" => cancelled /\ taskQ = <<>>
                 /\ UNCHANGED <<task, taskQ, events, stored, saved>>
<1> USE DEF managerVars, counters, tables, history
<1>1. CASE runTake \/ runExit \/ runWait \/ runWoken
    BY <1>1 DEF runTake, runExit, runWait, runWoken, TakeFront
<1>2. CASE \/ _insertDataObject \/ _insertNodeDescription
           \/ _deleteDataObjectById \/ _deleteDataObject \/ _ageDataObjects
           \/ _readRepository \/ _insertRepository \/ _doNothingHere
    BY <1>2 DEF _insertDataObject, _insertNodeDescription,
       _deleteDataObjectById, _deleteDataObject, _ageDataObjects,
       _readRepository, _insertRepository, _doNothingHere, Executing
<1> QED
    BY <1>1, <1>2 DEF Thread

LEMMA NoTaskType == NoTask.type = "none" /\ FirstTask.type = "READ_REPOSITORY"
BY DEF NoTask, FirstTask

(* After the start.                                                         *)
LEMMA StartedStep ==
    ASSUME TypeInv, StartInv, kernel # "starting", [Next]_vars,
           kernel' # "starting"
    PROVE  StartInv'
<1> USE DEF threadVars, tables, managerVars, counters, history
<1>0. /\ taskQ \in Seq(GoodTasks) /\ events \in Seq(Events) /\ starts # 0
      /\ ~Occurs(taskQ, Reads) /\ task \notin Reads /\ ~Occurs(events, Gets)
      /\ pc # "busy" => task = NoTask
    BY TypeParts DEF RestTyped, StartInv
<1>a. NoTask \notin Reads
    BY NoTaskType DEF Reads
<1>b. ASSUME ~Occurs(taskQ', Reads), task' \notin Reads, ~Occurs(events', Gets),
             pc' # "busy" => task' = NoTask, starts' # 0
      PROVE  StartInv'
    BY <1>b DEF StartInv, Reads, Gets, Occurs, Tasks, Events, High, Medium, Low
<1>c. task.type # "READ_REPOSITORY"
  <2>1. task \in Tasks \/ task = NoTask
      BY DEF TypeInv, TypeOK
  <2> QED
      BY <1>0, <2>1, NoTaskType DEF Reads
<1>1. CASE Thread
  <2>1. ~Occurs(events', Gets)
      BY <1>0, <1>1, <1>c, ThreadEvents DEF Gets
  <2>2. starts' = starts
      BY <1>1, ThreadHand
  <2>3. CASE task' = NoTask /\ UNCHANGED taskQ
      BY <1>0, <1>a, <1>b, <2>1, <2>2, <2>3
  <2>4. CASE TakeFront /\ taskQ # <<>>
    <3>1. Head(taskQ) \notin Reads /\ ~Occurs(Tail(taskQ), Reads)
        BY <1>0, <2>4, OccursTail
    <3> QED
        BY <1>0, <1>b, <2>1, <2>2, <2>4, <3>1 DEF TakeFront
  <2>5. CASE pc # "busy" /\ UNCHANGED <<task, taskQ>>
      BY <1>0, <1>b, <2>1, <2>2, <2>5
  <2> QED
      BY <1>1, <2>3, <2>4, <2>5, ThreadHand
<1>2. CASE DataManager \/ Callers \/ hookCancel
  <2>1. ~Occurs(taskQ', Reads)
      BY <1>0, <1>2, KernelNoRead
  <2>2. /\ UNCHANGED <<task, starts>>
        /\ pc' = pc \/ (pc = "waiting" /\ pc' = "woken")
      BY <1>2 DEF DataManager, onIncomingDataObject, onVerifiedDataObject,
         onBadDataObject, onGetLocalBF, onInsertedDataObject,
         onDeletedDataObject, onAgedDataObjects, onAging, onConfig, onShutdown,
         Callers, deleteDataObjectById, deleteDataObject, doDataObjectQuery,
         cancelDataObjectQueries, Call, Input, submit, hookCancel
  <2>3. UNCHANGED events \/ (events # <<>> /\ events' = Tail(events))
      BY <1>2 DEF DataManager, onIncomingDataObject, onVerifiedDataObject,
         onBadDataObject, onGetLocalBF, onInsertedDataObject,
         onDeletedDataObject, onAgedDataObjects, onAging, onConfig, onShutdown,
         Callers, deleteDataObjectById, deleteDataObject, doDataObjectQuery,
         cancelDataObjectQueries, Handle, hookCancel
  <2>4. ~Occurs(events', Gets)
    <3>1. CASE UNCHANGED events
        BY <1>0, <3>1
    <3>2. CASE events # <<>> /\ events' = Tail(events)
        BY <1>0, <3>2, OccursTail
    <3> QED
        BY <2>3, <3>1, <3>2
  <2> QED
      BY <1>0, <1>b, <2>1, <2>2, <2>4
<1>3. CASE cancel \/ join \/ setClockBack \/ wakeSpuriously \/ UNCHANGED vars
  <2>1. /\ UNCHANGED <<taskQ, task, events, starts>>
        /\ pc' = pc \/ (pc = "waiting" /\ pc' = "woken")
      BY <1>3 DEF cancel, join, setClockBack, wakeSpuriously, vars
  <2> QED
      BY <1>0, <1>b, <2>1
<1>4. CASE restart \/ crash
    BY <1>4 DEF restart, crash, NewProcess
<1> QED
    BY <1>1, <1>2, <1>3, <1>4 DEF Next, stop

(* The new process.                                                         *)
LEMMA StartOver ==
    ASSUME TypeInv, StartInv, restart \/ crash
    PROVE  StartInv'
<1>1. /\ Starting' /\ kernel' = "starting" /\ task' = NoTask
      /\ starts' = starts + 1
    BY DEF restart, crash, NewProcess, Starting
<1>2. starts \in Nat /\ starts # 0
    BY TypeParts DEF RestTyped, StartInv
<1>3. starts' # 1 /\ starts' # 0
    BY <1>1, <1>2
<1> QED
    BY <1>1, <1>3 DEF StartInv

(* Until the saved filter has been read.                                    *)
LEMMA StartingStep ==
    ASSUME TypeInv, StartInv, kernel = "starting", [Next]_vars
    PROVE  /\ StartInv'
           /\ \/ restart \/ crash
              \/ onGetLocalBF
              \/ /\ UNCHANGED <<kernel, stored, saved, intact, localBF, starts>>
                 /\ UNCHANGED <<verifying, cancelled, kept>>
                 /\ Starting'
                 /\ pc' = "exited" => pc = "exited" \/ cancelled
<1> USE DEF threadVars, tables, managerVars, counters, history
<1>0. /\ Starting /\ starts # 0
      /\ pc # "busy" => task = NoTask
      /\ starts = 1 => ~saved.present /\ stored = {}
    BY DEF StartInv
<1>t. /\ taskQ \in Seq(GoodTasks) /\ events \in Seq(Events) /\ starts \in Nat
      /\ saved \in [present : BOOLEAN, filter : SUBSET DataObjects]
    BY TypeParts DEF RestTyped
<1>a. ASSUME UNCHANGED <<kernel, stored, saved, intact, localBF, starts>>,
             Starting', pc' # "busy" => task' = NoTask
      PROVE  StartInv'
    BY <1>0, <1>a DEF StartInv
<1>h. Head(<<FirstTask>>) = FirstTask /\ Tail(<<FirstTask>>) = <<>>
    OBVIOUS
<1>n. <<FirstTask>> # <<>>
    BY StarterTask
<1>1. CASE Thread
  <2>1. UNCHANGED <<kernel, starts, localBF, verifying, intact, kept>>
        /\ UNCHANGED cancelled
      BY <1>1, ThreadHand DEF Thread, runTake, runExit, runWait, runWoken,
         _insertDataObject, _insertNodeDescription, _deleteDataObjectById,
         _deleteDataObject, _ageDataObjects, _readRepository,
         _insertRepository, _doNothingHere
  <2>2. CASE pc = "busy" /\ pc' = "ready"
    <3>1. task.type = "READ_REPOSITORY" \/ task.type = "none"
        BY <1>0, NoTaskType DEF Starting
    <3>2. _readRepository
        BY <1>1, <2>2, <3>1 DEF Thread, runTake, runExit, runWait, runWoken,
           _insertDataObject, _insertNodeDescription, _deleteDataObjectById,
           _deleteDataObject, _ageDataObjects, _readRepository,
           _insertRepository, _doNothingHere, Executing
    <3>3. taskQ = <<>> /\ events = <<>>
        BY <1>0, <3>2, NoTaskType DEF _readRepository, Executing, Starting
    <3> DEFINE e == Event("GET_LOCAL_BF", saved.filter, saved.present)
    <3>4. e \in Events
        BY <1>t DEF Event, Events
    <3>5. /\ events' = <<>> \o <<e>> /\ task' = NoTask
          /\ UNCHANGED <<taskQ, stored, saved>>
        BY <3>2, <3>3 DEF _readRepository, Executing, Post
    <3>6. events' = <<e>>
      <4> HIDE DEF e
      <4>1. <<e>> \in Seq(Events)
          BY <3>4
      <4> QED
          BY <3>5, <4>1, ConcatEmptySeq
    <3>7. Starting'
      <4>1. e' = e
          BY <3>5 DEF Event
      <4> QED
          BY <1>0, <2>1, <3>3, <3>5, <3>6, <4>1 DEF Starting
    <3> QED
        BY <1>a, <2>1, <2>2, <3>5, <3>7
  <2>3. CASE pc # "busy" /\ pc' = "busy" /\ TakeFront /\ taskQ # <<>>
             /\ UNCHANGED <<events, stored, saved>>
    <3>1. taskQ = <<FirstTask>> /\ events = <<>>
        BY <1>0, <2>3 DEF Starting
    <3>2. taskQ' = <<>> /\ task' = FirstTask
        BY <1>h, <2>3, <3>1 DEF TakeFront
    <3>3. Starting'
        BY <1>0, <2>1, <2>3, <3>1, <3>2 DEF Starting
    <3> QED
        BY <1>a, <2>1, <2>3, <3>3
  <2>4. CASE pc # "busy" /\ pc' # "busy"
             /\ (pc' = "exited" => cancelled /\ taskQ = <<>>)
             /\ UNCHANGED <<task, taskQ, events, stored, saved>>
    <3>1. Starting'
        BY <1>0, <2>1, <2>4 DEF Starting, Event
    <3> QED
        BY <1>0, <1>a, <2>1, <2>4, <3>1
  <2>5. pc = "busy" => pc # "exited"
      OBVIOUS
  <2> QED
      BY <1>1, <2>2, <2>3, <2>4, ThreadHand
<1>2. CASE onGetLocalBF
  <2>1. kernel' = "running" /\ UNCHANGED <<task, starts>>
      BY <1>2 DEF onGetLocalBF
  <2>2. events # <<>> /\ events' = Tail(events)
      BY <1>2 DEF onGetLocalBF, Handle
  <2> DEFINE e == Event("GET_LOCAL_BF", saved.filter, saved.present)
  <2>3. taskQ = <<>> /\ task = NoTask /\ events = <<e>>
      BY <1>0, <2>2 DEF Starting
  <2> HIDE DEF e
  <2>4. events' = <<>>
      BY <2>2, <2>3
  <2>5. FirstTask \in GoodTasks
      BY StarterTask
  <2>6. ~Occurs(events', Gets) /\ ~Occurs(taskQ, Reads)
      BY <2>3, <2>4, <2>5, OccursShort
  <2>7. ~Occurs(taskQ', Reads)
      BY <1>2, <2>6, KernelNoRead DEF DataManager
  <2>8. task' \notin Reads /\ task' = NoTask
      BY <2>1, <2>3, NoTaskType DEF Reads
  <2>9. StartInv'
      BY <1>0, <2>1, <2>6, <2>7, <2>8
         DEF StartInv, Reads, Gets, Occurs, Tasks, Events, High, Medium, Low
  <2> QED
      BY <1>2, <2>9
<1>3. CASE onInsertedDataObject \/ onDeletedDataObject \/ onAgedDataObjects
  <2>1. /\ events # <<>>
        /\ Head(events).type \in {"INSERTED", "DELETED", "AGED"}
      BY <1>3 DEF onInsertedDataObject, onDeletedDataObject,
         onAgedDataObjects, Handle
  <2>2. events = <<Event("GET_LOCAL_BF", saved.filter, saved.present)>>
      BY <1>0, <2>1 DEF Starting
  <2>3. Head(events).type = "GET_LOCAL_BF"
      BY <2>2 DEF Event
  <2> QED
      BY <2>1, <2>3
<1>4. CASE setClockBack \/ wakeSpuriously \/ UNCHANGED vars
  <2>1. /\ UNCHANGED <<taskQ, task, cancelled, stored, saved, localBF>>
        /\ UNCHANGED <<verifying, kernel, events, starts, intact, kept>>
        /\ pc' = pc \/ (pc = "waiting" /\ pc' = "woken")
      BY <1>4 DEF setClockBack, wakeSpuriously, vars
  <2>2. Starting'
      BY <1>0, <2>1 DEF Starting, Event
  <2> QED
      BY <1>0, <1>a, <2>1, <2>2
<1>5. CASE restart \/ crash
    BY <1>5, StartOver
<1>6. ~Callers /\ ~stop
    BY DEF Callers, stop, cancel, hookCancel, join, deleteDataObjectById,
       deleteDataObject, doDataObjectQuery, cancelDataObjectQueries, Call
<1>7. DataManager => \/ onGetLocalBF \/ onInsertedDataObject
                     \/ onDeletedDataObject \/ onAgedDataObjects
    BY DEF DataManager, onIncomingDataObject, onVerifiedDataObject,
       onBadDataObject, onAging, onConfig, Call, onShutdown
<1> QED
    BY <1>1, <1>2, <1>3, <1>4, <1>5, <1>6, <1>7 DEF Next

LEMMA StartStep ==
    ASSUME TypeInv, StartInv, [Next]_vars
    PROVE  StartInv'
<1>1. CASE kernel = "starting"
    BY <1>1, StartingStep
<1>2. CASE kernel # "starting" /\ kernel' # "starting"
    BY <1>2, StartedStep
<1>3. CASE kernel # "starting" /\ kernel' = "starting"
  <2>1. restart \/ crash
    <3> USE DEF threadVars, tables, managerVars, counters, history
    <3>1. Thread => UNCHANGED kernel
        BY ThreadHand
    <3>2. DataManager => kernel' # "starting"
        BY <1>3 DEF DataManager, onIncomingDataObject, onVerifiedDataObject,
           onBadDataObject, onGetLocalBF, onInsertedDataObject,
           onDeletedDataObject, onAgedDataObjects, onAging, onConfig, onShutdown
    <3>3. Callers \/ stop \/ setClockBack \/ wakeSpuriously \/ UNCHANGED vars
          => kernel' # "starting"
        BY <1>3 DEF Callers, deleteDataObjectById, deleteDataObject,
           doDataObjectQuery, cancelDataObjectQueries, stop, cancel,
           hookCancel, join, setClockBack, wakeSpuriously, vars
    <3> QED
        BY <1>3, <3>1, <3>2, <3>3 DEF Next
  <2> QED
      BY <2>1, StartOver
<1> QED
    BY <1>1, <1>2, <1>3

LEMMA StartInvariant == Spec => []StartInv
<1>1. Init => StartInv
    BY DEF Init, StartInv, Starting
<1> QED
    BY <1>1, TypeInvariant, StartStep, PTL DEF Spec
-----------------------------------------------------------------------------
(***************************************************************************)
(* What is known is held                                                    *)
(***************************************************************************)

Inserts(d) == {t \in Tasks : t.type = "INSERT_DATAOBJECT" /\ t.arg = d}
Deletes(d) == {e \in Events : e.type = "DELETED" /\ d \in e.objs}

Held(d) ==
    \/ d \in stored \cup verifying \cup kept \cup refused
    \/ task \in Inserts(d)
    \/ Occurs(taskQ, Inserts(d))
    \/ Occurs(events, Deletes(d))

HeldInv == starts = 1 => \A d \in localBF \cap PlainObjects : Held(d)

(* The events posted by a task.                                             *)
LEMMA PostedStay ==
    ASSUME NEW q \in Seq(Events), NEW es \in Seq(Events), NEW T
    PROVE  /\ Occurs(q, T) => Occurs(q \o es, T)
           /\ Occurs(es, T) => Occurs(q \o es, T)
<1> DEFINE r == q \o es
           n == Len(q)
           m == Len(es)
<1>1. /\ n \in Nat /\ m \in Nat /\ Len(r) = n + m
      /\ \A i \in 1..n : r[i] = q[i]
      /\ \A i \in 1..m : r[n + i] = es[i]
    OBVIOUS
<1> HIDE DEF r, n, m
<1>2. 1..n \subseteq 1..(n + m) /\ \A i \in 1..m : n + i \in 1..(n + m)
    BY <1>1
<1>3. Occurs(q, T) => Occurs(r, T)
    BY <1>1, <1>2 DEF Occurs, n
<1>4. Occurs(es, T) => Occurs(r, T)
    BY <1>1, <1>2 DEF Occurs, m
<1> QED
    BY <1>3, <1>4 DEF r

LEMMA HeldThread ==
    ASSUME TypeInv, StartInv, Thread, NEW d \in PlainObjects, Held(d)
    PROVE  Held(d)'
<1> USE DEF tables, managerVars, history
<1>0. /\ RestTyped /\ events \in Seq(Events) /\ stored \subseteq DataObjects
      /\ taskQ \in Seq(GoodTasks) /\ d \in DataObjects /\ d \notin Descriptions
    BY TypeParts, StoreConstants DEF RestTyped, DataObjects
<1>a. ASSUME NEW objs \in SUBSET DataObjects, NEW flag \in BOOLEAN,
             NEW type \in {"INSERTED", "DELETED", "AGED"}
      PROVE  /\ Event(type, objs, flag) \in Events
             /\ type = "DELETED" /\ d \in objs
                => Event(type, objs, flag) \in Deletes(d)
    BY DEF Event, Events, Deletes
<1>c. NoTask \notin Inserts(d)
    BY NoTaskType DEF Inserts
<1>b. ASSUME NEW es \in Seq(Events), Post(es),
             UNCHANGED <<taskQ, verifying, kept, refused>>,
             d \in stored /\ d \notin stored' => Occurs(es, Deletes(d)),
             task \in Inserts(d) => d \in stored'
      PROVE  Held(d)'
  <2>1. Occurs(events, Deletes(d)) => Occurs(events', Deletes(d))
      BY <1>0, <1>b, PostedStay DEF Post
  <2>2. Occurs(es, Deletes(d)) => Occurs(events', Deletes(d))
      BY <1>0, <1>b, PostedStay DEF Post
  <2> QED
      BY <1>b, <2>1, <2>2 DEF Held, Inserts, Deletes
<1>1. CASE _insertDataObject
  <2> DEFINE duplicate == task.arg \in stored
             e == Event("INSERTED", {task.arg}, duplicate)
  <2>1. /\ duplicate \in BOOLEAN /\ {task.arg} \in SUBSET DataObjects
        /\ Post(<<e>>) /\ stored' = stored \cup {task.arg}
        /\ UNCHANGED <<taskQ, verifying, kept, refused>>
      BY <1>1 DEF _insertDataObject, DataObjects
  <2> HIDE DEF duplicate
  <2>2. e \in Events
      BY <1>a, <2>1
  <2> HIDE DEF e
  <2>3. <<e>> \in Seq(Events)
      BY <2>2
  <2>4. task \in Inserts(d) => task.arg = d
      BY DEF Inserts
  <2> QED
      BY <1>b, <2>1, <2>3, <2>4
<1>2. CASE _insertNodeDescription /\ Newest(task.arg)
  <2> DEFINE x == task.arg
             S == SameNode(x)
             e == Event("DELETED", S, FALSE)
             f == Event("INSERTED", {x}, FALSE)
             es == (IF S = {} THEN <<>> ELSE <<e>>) \o <<f>>
  <2>1. /\ {x} \in SUBSET DataObjects /\ S \in SUBSET DataObjects
        /\ Post(es) /\ stored' = (stored \ S) \cup {x}
        /\ d \notin S /\ x \in Descriptions
        /\ UNCHANGED <<taskQ, verifying, kept, refused>>
      BY <1>0, <1>2 DEF _insertNodeDescription, DataObjects, SameNode
  <2>2. task \notin Inserts(d)
      BY <1>0, <2>1 DEF Inserts
  <2> HIDE DEF S, x
  <2>3. e \in Events /\ f \in Events
      BY <1>a, <2>1
  <2> HIDE DEF e, f
  <2>4. es \in Seq(Events)
    <3>1. <<f>> \in Seq(Events) /\ <<e>> \in Seq(Events) /\ <<>> \in Seq(Events)
        BY <2>3
    <3> QED
        BY <3>1
  <2> HIDE DEF es
  <2> QED
      BY <1>b, <2>1, <2>2, <2>4
<1>3. CASE _insertNodeDescription /\ ~Newest(task.arg)
  <2>1. /\ UNCHANGED <<taskQ, verifying, kept, refused, stored, events>>
        /\ task.arg \in Descriptions
      BY <1>3 DEF _insertNodeDescription
  <2>2. task \notin Inserts(d)
      BY <1>0, <2>1 DEF Inserts
  <2> QED
      BY <2>1, <2>2 DEF Held, Inserts, Deletes
<1>4. CASE _deleteDataObjectById \/ _deleteDataObject
  <2> DEFINE e == Event("DELETED", {task.arg}, task.keep)
  <2>1. {task.arg} \in SUBSET DataObjects /\ task.keep \in BOOLEAN
      BY <1>4, ExecutedTask DEF _deleteDataObjectById, _deleteDataObject,
         GoodTasks
  <2>2. e \in Events /\ (d = task.arg => e \in Deletes(d))
      BY <1>a, <2>1
  <2>3. /\ stored' = stored \ {task.arg}
        /\ Post(<<e>>) \/ (task.arg \notin stored /\ UNCHANGED events)
        /\ UNCHANGED <<taskQ, verifying, kept, refused>>
        /\ task.type # "INSERT_DATAOBJECT"
      BY <1>4 DEF _deleteDataObjectById, _deleteDataObject, Executing
  <2> HIDE DEF e
  <2>4. task \notin Inserts(d)
      BY <2>3 DEF Inserts
  <2>5. CASE Post(<<e>>)
    <3>1. <<e>> \in Seq(Events)
        BY <2>2
    <3>2. d \in stored /\ d \notin stored' => Occurs(<<e>>, Deletes(d))
        BY <2>2, <2>3, OccursShort
    <3> QED
        BY <1>b, <2>3, <2>4, <2>5, <3>1, <3>2
  <2>6. CASE task.arg \notin stored /\ UNCHANGED events
    <3>1. UNCHANGED stored
        BY <2>3, <2>6
    <3> QED
        BY <2>3, <2>4, <2>6, <3>1 DEF Held, Inserts, Deletes
  <2> QED
      BY <2>3, <2>5, <2>6
<1>5. CASE _ageDataObjects
  <2>1. PICK old \in SUBSET stored :
            /\ stored' = stored \ old
            /\ Post(<<Event("DELETED", old, task.keep),
                      Event("AGED", old, TRUE)>>)
      BY <1>5 DEF _ageDataObjects
  <2> DEFINE e == Event("DELETED", old, task.keep)
             f == Event("AGED", old, TRUE)
  <2>2. /\ task.keep \in BOOLEAN /\ old \in SUBSET DataObjects
        /\ Post(<<e, f>>) /\ UNCHANGED <<taskQ, verifying, kept, refused>>
        /\ task.type # "INSERT_DATAOBJECT"
      BY <1>0, <1>5, <2>1, ExecutedTask DEF _ageDataObjects, Executing
  <2>3. e \in Events /\ (d \in old => e \in Deletes(d))
      BY <1>a, <2>2
  <2>4. f \in Events
      BY <2>2 DEF Event, Events
  <2> HIDE DEF e, f
  <2>5. <<e, f>> \in Seq(Events)
      BY <2>3, <2>4
  <2>6. task \notin Inserts(d)
      BY <2>2 DEF Inserts
  <2>7. d \in old => Occurs(<<e, f>>, Deletes(d))
    <3>1. Len(<<e, f>>) = 2 /\ <<e, f>>[1] = e /\ 1 \in 1..2
        OBVIOUS
    <3> QED
        BY <2>3, <3>1 DEF Occurs
  <2> QED
      BY <1>b, <2>1, <2>2, <2>5, <2>6, <2>7
<1>6. CASE _readRepository
  <2> DEFINE e == Event("GET_LOCAL_BF", saved.filter, saved.present)
  <2>1. e \in Events
      BY <1>0 DEF RestTyped, Event, Events
  <2>2. /\ Post(<<e>>) /\ UNCHANGED <<stored, taskQ, verifying, kept, refused>>
        /\ task.type # "INSERT_DATAOBJECT"
      BY <1>6 DEF _readRepository, Executing
  <2> HIDE DEF e
  <2>3. <<e>> \in Seq(Events) /\ task \notin Inserts(d)
      BY <2>1, <2>2 DEF Inserts
  <2> QED
      BY <1>b, <2>2, <2>3
<1>7. CASE _insertRepository \/ _doNothingHere
  <2>1. /\ UNCHANGED <<stored, taskQ, verifying, kept, refused, events>>
        /\ task.type # "INSERT_DATAOBJECT"
      BY <1>7 DEF _insertRepository, _doNothingHere, Executing
  <2>2. task \notin Inserts(d)
      BY <2>1 DEF Inserts
  <2> QED
      BY <2>1, <2>2 DEF Held, Inserts, Deletes
<1>8. CASE runTake \/ runExit \/ runWait \/ runWoken
  <2>1. /\ UNCHANGED <<stored, verifying, kept, refused, events>> /\ pc # "busy"
        /\ UNCHANGED <<task, taskQ>> \/ (TakeFront /\ taskQ # <<>>)
      BY <1>8 DEF runTake, runExit, runWait, runWoken
  <2>2. task \notin Inserts(d)
      BY <1>c, <2>1 DEF StartInv
  <2>3. CASE UNCHANGED <<task, taskQ>>
      BY <2>1, <2>3 DEF Held, Inserts, Deletes
  <2>4. CASE TakeFront /\ taskQ # <<>>
    <3>1. Occurs(taskQ, Inserts(d))
          => Head(taskQ) \in Inserts(d) \/ Occurs(Tail(taskQ), Inserts(d))
        BY <1>0, <2>4, OccursTail
    <3>2. Occurs(taskQ, Inserts(d))
          => task' \in Inserts(d) \/ Occurs(taskQ', Inserts(d))
        BY <2>4, <3>1 DEF TakeFront
    <3> QED
        BY <2>1, <2>2, <3>2 DEF Held, Inserts, Deletes
  <2> QED
      BY <2>1, <2>3, <2>4
<1> QED
    BY <1>1, <1>2, <1>3, <1>4, <1>5, <1>6, <1>7, <1>8 DEF Thread

(* No handler takes an INSERT task away.                                    *)
LEMMA KernelInserts ==
    ASSUME TypeInv, DataManager \/ Callers \/ hookCancel, NEW d \in DataObjects,
           Occurs(taskQ, Inserts(d))
    PROVE  Occurs(taskQ', Inserts(d))
<1> DEFINE T == Inserts(d)
<1>1. ASSUME NEW type, NEW arg, NEW keep,
             Task(type, arg, keep) \in GoodTasks, submit(type, arg, keep)
      PROVE  Occurs(taskQ', T)
    BY <1>1, SubmitAdds DEF Adds
<1>2. ASSUME UNCHANGED taskQ PROVE Occurs(taskQ', T)
    BY <1>2
<1>x. \A t \in T : t.type # "DATAOBJECT_QUERY"
    BY DEF Inserts
<1>y. Occurs(taskQ, T)
    OBVIOUS
<1> HIDE DEF T
<1>3. ASSUME NEW x \in DataObjects,
             \/ onIncomingDataObject(x) \/ onVerifiedDataObject(x)
             \/ onBadDataObject(x)
      PROVE  Occurs(taskQ', T)
    BY <1>1, <1>2, <1>3, SubmittedKinds DEF onIncomingDataObject,
       onVerifiedDataObject, onBadDataObject
<1>4. ASSUME \/ onGetLocalBF \/ onInsertedDataObject \/ onDeletedDataObject
             \/ onAgedDataObjects
      PROVE  Occurs(taskQ', T)
    BY <1>1, <1>2, <1>4, SubmittedKinds DEF onGetLocalBF,
       onInsertedDataObject, onDeletedDataObject, onAgedDataObjects
<1>5. ASSUME onAging \/ onConfig \/ onShutdown \/ hookCancel
      PROVE  Occurs(taskQ', T)
    BY <1>1, <1>2, <1>5, SubmittedKinds DEF onAging, onConfig, onShutdown,
       hookCancel
<1>6. ASSUME NEW x \in DataObjects, deleteDataObject(x)
      PROVE  Occurs(taskQ', T)
    BY <1>1, <1>6, SubmittedKinds DEF deleteDataObject
<1>7. ASSUME NEW x \in DataObjects, NEW keep \in BOOLEAN,
             deleteDataObjectById(x, keep)
      PROVE  Occurs(taskQ', T)
    BY <1>1, <1>7, SubmittedKinds DEF deleteDataObjectById
<1>8. ASSUME NEW n \in Nodes, doDataObjectQuery(n)
      PROVE  Occurs(taskQ', T)
    BY <1>1, <1>8, SubmittedKinds DEF doDataObjectQuery
<1>9. ASSUME NEW n \in Nodes, cancelDataObjectQueries(n)
      PROVE  Occurs(taskQ', T)
    BY <1>9, <1>x, <1>y, OccursCancel
<1>10. Occurs(taskQ', T)
    BY <1>3, <1>4, <1>5, <1>6, <1>7, <1>8, <1>9 DEF DataManager, Callers
<1> QED
    BY <1>10 DEF T

LEMMA HeldStep ==
    ASSUME TypeInv, StartInv, HeldInv, [Next]_vars
    PROVE  HeldInv'
<1> USE DEF threadVars, tables, managerVars, counters, history
<1>0. /\ RestTyped /\ events \in Seq(Events) /\ starts \in Nat /\ starts # 0
    BY TypeParts DEF RestTyped, StartInv
<1>1. CASE restart \/ crash
  <2>1. starts' = starts + 1
      BY <1>1 DEF restart, crash
  <2> QED
      BY <1>0, <2>1 DEF HeldInv
<1>2. SUFFICES ASSUME starts = 1, ~(restart \/ crash),
                      NEW d \in localBF' \cap PlainObjects
               PROVE  Held(d)'
  <2>1. CASE restart \/ crash
      BY <1>1, <2>1
  <2>2. CASE ~(restart \/ crash)
    <3>1. starts' = starts
        BY <2>2 DEF Next, Thread, runTake, runExit, runWait, runWoken,
           _insertDataObject, _insertNodeDescription, _deleteDataObjectById,
           _deleteDataObject, _ageDataObjects, _readRepository,
           _insertRepository, _doNothingHere, DataManager,
           onIncomingDataObject, onVerifiedDataObject, onBadDataObject,
           onGetLocalBF, onInsertedDataObject, onDeletedDataObject,
           onAgedDataObjects, onAging, onConfig, onShutdown, Callers,
           deleteDataObjectById, deleteDataObject, doDataObjectQuery,
           cancelDataObjectQueries, Call, Input, stop, cancel, hookCancel,
           join, setClockBack, wakeSpuriously, vars
    <3> QED
        BY <1>2, <2>2, <3>1 DEF HeldInv
  <2> QED
      BY <2>1, <2>2
<1>a. d \in DataObjects /\ (d \in localBF => Held(d))
    BY <1>2 DEF HeldInv, DataObjects
<1>b. ASSUME d \in localBF,
             d \in stored \cup verifying \cup kept \cup refused
                 => d \in stored' \cup verifying' \cup kept' \cup refused',
             UNCHANGED <<task, events>>,
             Occurs(taskQ, Inserts(d)) => Occurs(taskQ', Inserts(d))
      PROVE  Held(d)'
    BY <1>a, <1>b DEF Held, Inserts, Deletes
<1>3. CASE kernel = "starting"
  <2>1. Starting /\ ~saved.present
      BY <1>2, <1>3 DEF StartInv
  <2>2. localBF' = {}
    <3>1. CASE onGetLocalBF
      <4>1. events = <<Event("GET_LOCAL_BF", saved.filter, saved.present)>>
          BY <2>1, <3>1 DEF Starting, onGetLocalBF, Handle
      <4>2. Head(events).flag = saved.present
          BY <4>1 DEF Event
      <4>3. localBF' = localBF
          BY <2>1, <3>1, <4>2 DEF onGetLocalBF
      <4> QED
          BY <2>1, <4>3 DEF Starting
    <3>2. CASE UNCHANGED localBF
        BY <2>1, <3>2 DEF Starting
    <3> QED
        BY <1>2, <1>3, <3>1, <3>2, StartingStep
  <2> QED
      BY <2>2
<1>4. CASE Thread
  <2>1. UNCHANGED localBF
      BY <1>4, ThreadHand
  <2> QED
      BY <1>2, <1>4, <1>a, <2>1, HeldThread
<1>k. ASSUME DataManager \/ Callers \/ hookCancel
      PROVE  Occurs(taskQ, Inserts(d)) => Occurs(taskQ', Inserts(d))
    BY <1>a, <1>k, KernelInserts
<1>5. ASSUME NEW x \in DataObjects, onIncomingDataObject(x)
      PROVE  Held(d)'
  <2>1. /\ localBF' = localBF \cup {x} /\ verifying' = verifying \cup {x}
        /\ kept' = kept \ {x} /\ refused' = refused \ {x}
        /\ UNCHANGED <<task, events, stored, taskQ>>
      BY <1>5 DEF onIncomingDataObject
  <2>2. CASE d = x
      BY <2>1, <2>2 DEF Held
  <2>3. CASE d # x
      BY <1>2, <1>b, <2>1, <2>3
  <2> QED
      BY <2>2, <2>3
<1>6. ASSUME NEW x \in DataObjects, onVerifiedDataObject(x)
      PROVE  Held(d)'
  <2>1. /\ verifying' = verifying \ {x} /\ submit("INSERT_DATAOBJECT", x, FALSE)
        /\ UNCHANGED <<task, events, stored, kept, refused, localBF>>
      BY <1>6 DEF onVerifiedDataObject
  <2> DEFINE t == Task("INSERT_DATAOBJECT", x, FALSE)
  <2>2. /\ Adds(t) /\ t \in GoodTasks /\ t.type = "INSERT_DATAOBJECT"
        /\ t.arg = x
    <3>1. t \in GoodTasks
        BY SubmittedKinds
    <3>2. Adds(t)
        BY <2>1, <3>1, SubmitAdds
    <3> QED
        BY <3>1, <3>2 DEF Task
  <2> HIDE DEF t
  <2>3. CASE d = x
    <3>1. t \in Inserts(d)
        BY <2>2, <2>3 DEF Inserts, GoodTasks
    <3>2. Occurs(taskQ', Inserts(d))
        BY <2>2, <3>1 DEF Adds
    <3> QED
        BY <3>2 DEF Held, Inserts
  <2>4. CASE d # x
    <3>1. Occurs(taskQ, Inserts(d)) => Occurs(taskQ', Inserts(d))
        BY <2>2 DEF Adds
    <3>2. d \in localBF
        BY <1>2, <2>1
    <3> QED
        BY <1>a, <2>1, <2>4, <3>1, <3>2 DEF Held, Inserts, Deletes
  <2> QED
      BY <2>3, <2>4
<1>7. ASSUME NEW x \in DataObjects, onBadDataObject(x)
      PROVE  Held(d)'
  <2>1. /\ verifying' = verifying \ {x} /\ refused' = refused \cup {x}
        /\ UNCHANGED <<task, events, stored, kept, localBF, taskQ>>
      BY <1>7 DEF onBadDataObject
  <2> QED
      BY <1>2, <1>b, <2>1
<1>8. CASE onInsertedDataObject \/ onAgedDataObjects
  <2>1. /\ events # <<>> /\ events' = Tail(events)
        /\ Head(events).type # "DELETED"
        /\ UNCHANGED <<task, stored, verifying, kept, refused, localBF>>
      BY <1>8 DEF onInsertedDataObject, onAgedDataObjects, Handle
  <2>2. Head(events) \notin Deletes(d)
      BY <2>1 DEF Deletes
  <2>3. Occurs(events, Deletes(d)) => Occurs(events', Deletes(d))
      BY <1>0, <2>1, <2>2, OccursTail
  <2>4. Occurs(taskQ, Inserts(d)) => Occurs(taskQ', Inserts(d))
      BY <1>8, <1>k DEF DataManager
  <2> QED
      BY <1>2, <1>a, <2>1, <2>3, <2>4 DEF Held, Inserts, Deletes
<1>9. CASE onDeletedDataObject
  <2> DEFINE h == Head(events)
  <2>1. /\ events # <<>> /\ events' = Tail(events) /\ h.type = "DELETED"
        /\ localBF' = localBF \ RemovedFromFilter(h)
        /\ kept' = IF h.flag THEN kept \cup h.objs ELSE kept
        /\ UNCHANGED <<task, stored, verifying, refused, taskQ>>
      BY <1>9 DEF onDeletedDataObject, Handle
  <2>2. h.flag \in BOOLEAN
      BY <1>0, <1>9, FirstEvent DEF onDeletedDataObject
  <2>3. d \in localBF /\ d \notin RemovedFromFilter(h) /\ d \notin Descriptions
      BY <1>2, <2>1, StoreConstants
  <2>4. d \in h.objs => h.flag
      BY <2>3 DEF RemovedFromFilter
  <2>5. d \in h.objs => d \in kept'
      BY <2>1, <2>4
  <2>6. d \notin h.objs => (Occurs(events, Deletes(d)) => Occurs(events', Deletes(d)))
    <3>1. d \notin h.objs => h \notin Deletes(d)
        BY DEF Deletes
    <3> QED
        BY <1>0, <2>1, <3>1, OccursTail
  <2>7. kept \subseteq kept'
      BY <2>1
  <2>8. CASE d \in h.objs
      BY <2>5, <2>8 DEF Held
  <2>9. CASE d \notin h.objs
      BY <1>a, <2>1, <2>3, <2>6, <2>7, <2>9 DEF Held, Inserts, Deletes
  <2> QED
      BY <2>8, <2>9
<1>10. CASE onGetLocalBF /\ kernel # "starting"
  <2>1. events # <<>> /\ Head(events).type = "GET_LOCAL_BF"
      BY <1>10 DEF onGetLocalBF, Handle
  <2>2. Head(events) \in Events
      BY <1>0, <2>1
  <2>3. Occurs(events, Gets)
      BY <1>0, <2>1, <2>2, OccursTail DEF Gets
  <2> QED
      BY <1>10, <2>3 DEF StartInv
<1>11. CASE onAging \/ onConfig \/ onShutdown \/ Callers \/ hookCancel
  <2>1. UNCHANGED <<task, stored, verifying, kept, refused, localBF, events>>
      BY <1>11 DEF onAging, onConfig, onShutdown, Callers, deleteDataObjectById,
         deleteDataObject, doDataObjectQuery, cancelDataObjectQueries,
         hookCancel
  <2>2. Occurs(taskQ, Inserts(d)) => Occurs(taskQ', Inserts(d))
      BY <1>11, <1>k DEF DataManager
  <2> QED
      BY <1>2, <1>b, <2>1, <2>2
<1>12. CASE cancel \/ join \/ setClockBack \/ wakeSpuriously \/ UNCHANGED vars
  <2>1. /\ UNCHANGED <<task, stored, verifying, kept, refused, localBF, events>>
        /\ UNCHANGED taskQ
      BY <1>12 DEF cancel, join, setClockBack, wakeSpuriously, vars
  <2> QED
      BY <1>2, <1>b, <2>1
<1> QED
    BY <1>2, <1>3, <1>4, <1>5, <1>6, <1>7, <1>8, <1>9, <1>10, <1>11, <1>12
       DEF Next, DataManager, stop

(* In its first run the data manager's filter refuses no data object that   *)
(* is not stored, on its way into the store, reported as deleted, deleted   *)
(* to be kept in the filter, or known as a copy that was found bad.         *)
THEOREM KnownHeld == Spec => []KnownIsHeld
<1>1. Init => HeldInv
    BY DEF Init, HeldInv
<1>2. TypeInv /\ HeldInv => KnownIsHeld
  <2> SUFFICES ASSUME TypeInv, HeldInv, starts = 1,
                      NEW d \in localBF \cap PlainObjects
               PROVE  \/ d \in stored \cup verifying \cup kept \cup refused
                      \/ Inserting(d)
                      \/ \E i \in 1..Len(events) :
                            events[i].type = "DELETED" /\ d \in events[i].objs
      BY DEF KnownIsHeld
  <2>1. Held(d)
      BY DEF HeldInv
  <2>2. task \in Inserts(d) \/ Occurs(taskQ, Inserts(d)) => Inserting(d)
      BY DEF Inserts, Occurs, Inserting
  <2>3. Occurs(events, Deletes(d))
        => \E i \in 1..Len(events) :
              events[i].type = "DELETED" /\ d \in events[i].objs
      BY DEF Deletes, Occurs
  <2> QED
      BY <2>1, <2>2, <2>3 DEF Held
<1> QED
    BY <1>1, <1>2, TypeInvariant, StartInvariant, HeldStep, PTL DEF Spec
-----------------------------------------------------------------------------
(***************************************************************************)
(* What is stored is known                                                  *)
(***************************************************************************)

(* Reports that take d out of the filter; requests to save a filter, and    *)
(* another one than f; requests that would drop a description from it.      *)
Drops(d) == {e \in Events : /\ e.type = "DELETED" /\ ~e.flag
                            /\ d \in e.objs /\ d \in PlainObjects}
Saves == {t \in Tasks : t.type = "INSERT_REPOSITORY"}
OtherSaves(f) == {t \in Saves : t.arg # f}
Forgets == {t \in Tasks : t.type = "DELETE_DATAOBJECT" /\ ~t.keep}

(* A data object is in one place: it is verified, waits for the thread, is  *)
(* being inserted, is stored, or was deleted and is to leave the filter.    *)
OnePlace(d) ==
    /\ OccursOnce(taskQ, Inserts(d)) /\ OccursOnce(events, Drops(d))
    /\ d \in verifying =>
          /\ ~Occurs(taskQ, Inserts(d)) /\ task \notin Inserts(d)
          /\ d \notin stored /\ ~Occurs(events, Drops(d))
    /\ Occurs(taskQ, Inserts(d)) =>
          task \notin Inserts(d) /\ d \notin stored /\ ~Occurs(events, Drops(d))
    /\ task \in Inserts(d) => d \notin stored /\ ~Occurs(events, Drops(d))
    /\ d \in stored => ~Occurs(events, Drops(d))

InPlace(d) ==
    \/ d \in verifying
    \/ Occurs(taskQ, Inserts(d))
    \/ task \in Inserts(d)
    \/ d \in stored
    \/ Occurs(events, Drops(d))

(* As long as it is in one, it is in the filter.                            *)
PlaceInv ==
    /\ ~Occurs(taskQ, Forgets) /\ task \notin Forgets
    /\ \A d \in DataObjects : OnePlace(d)
    /\ kernel # "starting" => \A d \in DataObjects : InPlace(d) => d \in localBF

(* The filter is saved once, when it does not change any more.              *)
Saving ==
    \/ saved.present /\ saved.filter = localBF
    \/ pc # "exited" /\ Occurs(taskQ, Saves)
    \/ pc # "exited" /\ task \in Saves

SaveInv ==
    /\ kernel \in {"starting", "running"} =>
          ~Occurs(taskQ, Saves) /\ task \notin Saves
    /\ kernel \notin {"starting", "running"} =>
          /\ ~Occurs(taskQ, OtherSaves(localBF))
          /\ task \notin OtherSaves(localBF)
          /\ Saving
    /\ pc = "exited" => cancelled
    /\ kernel = "down" => pc = "exited"
    /\ kernel = "starting" => /\ saved.present => stored \subseteq saved.filter
                              /\ ~saved.present => stored = {}

KnownInv == intact => SaveInv /\ PlaceInv

(* While the process starts, no task or event is about a data object.       *)
LEMMA StartingEmpty ==
    ASSUME NEW q, NEW t, NEW es, NEW e \in Events, e.type = "GET_LOCAL_BF",
           \/ q = <<FirstTask>> /\ t = NoTask /\ es = <<>>
           \/ q = <<>> /\ t = FirstTask /\ es = <<>>
           \/ q = <<>> /\ t = NoTask /\ es = <<e>>,
           NEW T, \A x \in T : x.type \notin {"READ_REPOSITORY", "none",
                                              "GET_LOCAL_BF"}
    PROVE  /\ ~Occurs(q, T) /\ OccursOnce(q, T) /\ t \notin T
           /\ ~Occurs(es, T) /\ OccursOnce(es, T)
<1>1. FirstTask \in GoodTasks
    BY StarterTask
<1>2. FirstTask \notin T /\ NoTask \notin T /\ e \notin T
    BY NoTaskType
<1>3. /\ ~Occurs(<<>>, T) /\ OccursOnce(<<>>, T)
      /\ ~Occurs(<<FirstTask>>, T) /\ OccursOnce(<<FirstTask>>, T)
    BY <1>1, <1>2, OccursShort
<1>4. ~Occurs(<<e>>, T) /\ OccursOnce(<<e>>, T)
    BY <1>2, OccursShort
<1> QED
    BY <1>2, <1>3, <1>4

LEMMA StartingPlaces ==
    ASSUME RestTyped', Starting'
    PROVE  /\ ~Occurs(taskQ', Saves) /\ task' \notin Saves
           /\ ~Occurs(taskQ', Forgets) /\ task' \notin Forgets
           /\ \A d \in DataObjects :
                 /\ OnePlace(d)'
                 /\ InPlace(d)' => d \in stored'
<1> DEFINE e == Event("GET_LOCAL_BF", saved'.filter, saved'.present)
<1>1. e \in Events /\ e.type = "GET_LOCAL_BF"
    BY DEF RestTyped, Event, Events
<1>2. /\ \/ taskQ' = <<FirstTask>> /\ task' = NoTask /\ events' = <<>>
         \/ taskQ' = <<>> /\ task' = FirstTask /\ events' = <<>>
         \/ taskQ' = <<>> /\ task' = NoTask /\ events' = <<e>>
      /\ verifying' = {}
    BY DEF Starting, Event
<1> HIDE DEF e
<1>3. ASSUME NEW T, \A x \in T : x.type \notin {"READ_REPOSITORY", "none",
                                                "GET_LOCAL_BF"}
      PROVE  /\ ~Occurs(taskQ', T) /\ OccursOnce(taskQ', T) /\ task' \notin T
             /\ ~Occurs(events', T) /\ OccursOnce(events', T)
    BY <1>1, <1>2, <1>3, StartingEmpty
<1>4. ~Occurs(taskQ', Saves) /\ task' \notin Saves
    BY <1>3 DEF Saves
<1>5. ~Occurs(taskQ', Forgets) /\ task' \notin Forgets
    BY <1>3 DEF Forgets
<1>6. ASSUME NEW d \in DataObjects
      PROVE  OnePlace(d)' /\ (InPlace(d)' => d \in stored')
  <2>1. /\ ~Occurs(taskQ', Inserts(d)) /\ OccursOnce(taskQ', Inserts(d))
        /\ task' \notin Inserts(d)
      BY <1>3 DEF Inserts
  <2>2. ~Occurs(events', Drops(d)) /\ OccursOnce(events', Drops(d))
      BY <1>3 DEF Drops
  <2> QED
      BY <1>2, <2>1, <2>2 DEF OnePlace, InPlace, Inserts, Drops
<1> QED
    BY <1>4, <1>5, <1>6

(* A task stores only the data object it was made for, and a report that    *)
(* takes one out of the filter comes with its deletion.                     *)
Moves(d) ==
    /\ d \in stored' => d \in stored \/ task \in Inserts(d)
    /\ Occurs(events', Drops(d)) => \/ Occurs(events, Drops(d))
                                    \/ d \in stored /\ d \notin stored'
    /\ OccursOnce(events, Drops(d)) /\ (d \in stored => ~Occurs(events, Drops(d)))
       => OccursOnce(events', Drops(d))

LEMMA TaskMoves ==
    ASSUME TypeInv, Thread, task \notin Forgets, NEW d \in DataObjects
    PROVE  Moves(d)
<1> USE DEF tables, managerVars, history
<1>0. /\ RestTyped /\ events \in Seq(Events) /\ stored \subseteq DataObjects
      /\ task \in GoodTasks \cup {NoTask} /\ GoodTasks \subseteq Tasks
    BY TypeParts DEF RestTyped, GoodTasks
<1>a. ASSUME NEW e \in Events, events' = Append(events, e),
             d \in stored' => d \in stored \/ task \in Inserts(d),
             e \in Drops(d) => d \in stored /\ d \notin stored'
      PROVE  Moves(d)
    BY <1>0, <1>a, OccursAppend DEF Moves
<1>b. ASSUME NEW e \in Events, NEW f \in Events,
             events' = Append(Append(events, e), f),
             d \in stored' => d \in stored \/ task \in Inserts(d),
             e \in Drops(d) => d \in stored /\ d \notin stored',
             f \notin Drops(d)
      PROVE  Moves(d)
  <2> DEFINE q == Append(events, e)
  <2>1. q \in Seq(Events)
      BY <1>0
  <2>2. /\ Occurs(q, Drops(d)) <=> Occurs(events, Drops(d)) \/ e \in Drops(d)
        /\ OccursOnce(events, Drops(d))
           /\ ~(Occurs(events, Drops(d)) /\ e \in Drops(d))
           => OccursOnce(q, Drops(d))
      BY <1>0, OccursAppend
  <2> HIDE DEF q
  <2>3. /\ Occurs(Append(q, f), Drops(d)) <=> Occurs(q, Drops(d))
        /\ OccursOnce(q, Drops(d)) => OccursOnce(Append(q, f), Drops(d))
      BY <1>b, <2>1, OccursAppend
  <2>4. events' = Append(q, f)
      BY <1>b DEF q
  <2> QED
      BY <1>b, <2>2, <2>3, <2>4 DEF Moves
<1>c. ASSUME UNCHANGED events, stored' \subseteq stored
      PROVE  Moves(d)
    BY <1>c DEF Moves
<1>d. ASSUME Executing("INSERT_DATAOBJECT") PROVE task \in Inserts(task.arg)
  <2>1. task \in Tasks
      BY <1>0, <1>d, NoTaskType DEF Executing
  <2> QED
      BY <1>d, <2>1 DEF Inserts, Executing
<1>1. CASE _insertDataObject
  <2> DEFINE duplicate == task.arg \in stored
             e == Event("INSERTED", {task.arg}, duplicate)
  <2>1. /\ duplicate \in BOOLEAN /\ {task.arg} \in SUBSET DataObjects
        /\ Post(<<e>>) /\ stored' = stored \cup {task.arg}
        /\ task \in Inserts(task.arg)
      BY <1>1, <1>d DEF _insertDataObject, DataObjects
  <2> HIDE DEF duplicate
  <2>2. e \in Events /\ e \notin Drops(d)
      BY <2>1 DEF Event, Events, Drops
  <2> HIDE DEF e
  <2>3. events' = Append(events, e)
      BY <1>0, <2>1, <2>2, AppendPosted DEF Post
  <2>4. d \in stored' => d \in stored \/ task \in Inserts(d)
      BY <2>1
  <2> QED
      BY <1>a, <2>2, <2>3, <2>4
<1>2. CASE _insertNodeDescription /\ Newest(task.arg)
  <2> DEFINE x == task.arg
             S == SameNode(x)
             e == Event("DELETED", S, FALSE)
             f == Event("INSERTED", {x}, FALSE)
  <2>1. /\ {x} \in SUBSET DataObjects /\ S \in SUBSET DataObjects
        /\ Post((IF S = {} THEN <<>> ELSE <<e>>) \o <<f>>)
        /\ stored' = (stored \ S) \cup {x} /\ task \in Inserts(x)
        /\ S \cap PlainObjects = {}
      BY <1>0, <1>2, <1>d, StoreConstants
         DEF _insertNodeDescription, DataObjects, SameNode
  <2> HIDE DEF S, x
  <2>2. e \in Events /\ e \notin Drops(d) /\ f \in Events /\ f \notin Drops(d)
      BY <2>1 DEF Event, Events, Drops
  <2>3. d \in stored' => d \in stored \/ task \in Inserts(d)
      BY <2>1
  <2> HIDE DEF e, f
  <2>4. CASE S = {}
    <3>1. events' = Append(events, f)
        BY <1>0, <2>1, <2>2, <2>4, AppendPosted DEF Post
    <3> QED
        BY <1>a, <2>2, <2>3, <3>1
  <2>5. CASE S # {}
    <3>1. events' = Append(Append(events, e), f)
        BY <1>0, <2>1, <2>2, <2>5, AppendPosted DEF Post
    <3> QED
        BY <1>b, <2>2, <2>3, <3>1
  <2> QED
      BY <2>4, <2>5
<1>3. CASE _insertNodeDescription /\ ~Newest(task.arg)
    BY <1>3, <1>c DEF _insertNodeDescription
<1>4. CASE _deleteDataObjectById
  <2> DEFINE e == Event("DELETED", {task.arg}, task.keep)
  <2>1. {task.arg} \in SUBSET DataObjects /\ task.keep \in BOOLEAN
      BY <1>4, ExecutedTask DEF _deleteDataObjectById, GoodTasks
  <2>2. e \in Events /\ (e \in Drops(d) => d = task.arg)
      BY <2>1 DEF Event, Events, Drops
  <2>3. /\ stored' = stored \ {task.arg}
        /\ (Post(<<e>>) /\ task.arg \in stored) \/ UNCHANGED events
      BY <1>4 DEF _deleteDataObjectById
  <2> HIDE DEF e
  <2>4. CASE Post(<<e>>) /\ task.arg \in stored
    <3>1. events' = Append(events, e)
        BY <1>0, <2>2, <2>4, AppendPosted DEF Post
    <3> QED
        BY <1>a, <2>2, <2>3, <2>4, <3>1
  <2>5. CASE UNCHANGED events
      BY <1>c, <2>3, <2>5
  <2> QED
      BY <2>3, <2>4, <2>5
<1>5. CASE _deleteDataObject
  <2> DEFINE e == Event("DELETED", {task.arg}, task.keep)
  <2>1. /\ {task.arg} \in SUBSET DataObjects /\ task.keep \in BOOLEAN
        /\ task \in Tasks /\ task.type = "DELETE_DATAOBJECT"
      BY <1>5, ExecutedTask DEF _deleteDataObject, GoodTasks
  <2>2. task.keep
      BY <2>1 DEF Forgets
  <2>3. e \in Events /\ e \notin Drops(d)
      BY <2>1, <2>2 DEF Event, Events, Drops
  <2>4. stored' = stored \ {task.arg} /\ Post(<<e>>)
      BY <1>5 DEF _deleteDataObject
  <2> HIDE DEF e
  <2>5. events' = Append(events, e)
      BY <1>0, <2>3, <2>4, AppendPosted DEF Post
  <2> QED
      BY <1>a, <2>3, <2>4, <2>5
<1>6. CASE _ageDataObjects
  <2>1. PICK old \in SUBSET stored :
            /\ stored' = stored \ old
            /\ Post(<<Event("DELETED", old, task.keep),
                      Event("AGED", old, TRUE)>>)
      BY <1>6 DEF _ageDataObjects
  <2> DEFINE e == Event("DELETED", old, task.keep)
             f == Event("AGED", old, TRUE)
  <2>2. /\ task.keep \in BOOLEAN /\ old \in SUBSET DataObjects
        /\ Post(<<e, f>>)
      BY <1>0, <1>6, <2>1, ExecutedTask DEF _ageDataObjects
  <2>3. e \in Events /\ (e \in Drops(d) => d \in old)
      BY <2>2 DEF Event, Events, Drops
  <2>4. f \in Events /\ f \notin Drops(d)
      BY <2>2 DEF Event, Events, Drops
  <2> HIDE DEF e, f
  <2>5. events' = Append(Append(events, e), f)
      BY <1>0, <2>2, <2>3, <2>4, AppendPosted DEF Post
  <2> QED
      BY <1>b, <2>1, <2>3, <2>4, <2>5
<1>7. CASE _readRepository
  <2> DEFINE e == Event("GET_LOCAL_BF", saved.filter, saved.present)
  <2>1. e \in Events /\ e \notin Drops(d)
      BY <1>0 DEF RestTyped, Event, Events, Drops
  <2>2. Post(<<e>>) /\ UNCHANGED stored
      BY <1>7 DEF _readRepository
  <2> HIDE DEF e
  <2>3. events' = Append(events, e)
      BY <1>0, <2>1, <2>2, AppendPosted DEF Post
  <2> QED
      BY <1>a, <2>1, <2>2, <2>3
<1>8. CASE \/ _insertRepository \/ _doNothingHere
           \/ runTake \/ runExit \/ runWait \/ runWoken
    BY <1>8, <1>c DEF _insertRepository, _doNothingHere, runTake, runExit,
       runWait, runWoken
<1> QED
    BY <1>1, <1>2, <1>3, <1>4, <1>5, <1>6, <1>7, <1>8 DEF Thread

LEMMA PlaceThread ==
    ASSUME TypeInv, StartInv, PlaceInv, Thread
    PROVE  PlaceInv'
<1>0. /\ taskQ \in Seq(GoodTasks) /\ ~Occurs(taskQ, Forgets)
      /\ task \notin Forgets
      /\ pc # "busy" => task = NoTask
    BY DEF TypeInv, StartInv, PlaceInv
<1>a. NoTask \notin Forgets /\ \A d \in DataObjects : NoTask \notin Inserts(d)
    BY NoTaskType DEF Forgets, Inserts
<1>1. UNCHANGED <<kernel, verifying, localBF>>
    BY ThreadHand
<1>2. ASSUME NEW d \in DataObjects
      PROVE  OnePlace(d)' /\ (InPlace(d)' => InPlace(d))
  <2>1. OnePlace(d) /\ Moves(d)
      BY <1>0, TaskMoves DEF PlaceInv
  <2>2. CASE task' = NoTask /\ UNCHANGED taskQ
      BY <1>1, <1>a, <2>1, <2>2 DEF OnePlace, InPlace, Moves, Inserts, Drops
  <2>3. CASE pc # "busy" /\ TakeFront /\ taskQ # <<>>
             /\ UNCHANGED <<events, stored>>
    <3>1. task \notin Inserts(d)
        BY <1>0, <1>a, <2>3
    <3>2. /\ Occurs(taskQ, Inserts(d)) <=> task' \in Inserts(d)
                                           \/ Occurs(taskQ', Inserts(d))
          /\ OccursOnce(taskQ, Inserts(d)) =>
                /\ OccursOnce(taskQ', Inserts(d))
                /\ ~(task' \in Inserts(d) /\ Occurs(taskQ', Inserts(d)))
        BY <1>0, <2>3, OccursTail DEF TakeFront
    <3> QED
        BY <1>1, <2>1, <2>3, <3>1, <3>2 DEF OnePlace, InPlace, Inserts, Drops
  <2>4. CASE UNCHANGED <<task, taskQ, events, stored>>
      BY <1>1, <2>1, <2>4 DEF OnePlace, InPlace, Inserts, Drops
  <2> QED
      BY <2>2, <2>3, <2>4, ThreadHand
<1>3. ~Occurs(taskQ', Forgets) /\ task' \notin Forgets
  <2>1. CASE task' = NoTask /\ UNCHANGED taskQ
      BY <1>0, <1>a, <2>1
  <2>2. CASE TakeFront /\ taskQ # <<>>
      BY <1>0, <2>2, OccursTail DEF TakeFront
  <2>3. CASE UNCHANGED <<task, taskQ>>
      BY <1>0, <2>3
  <2> QED
      BY <2>1, <2>2, <2>3, ThreadHand
<1> QED
    BY <1>1, <1>2, <1>3 DEF PlaceInv, Forgets

(* The queue gets no new element of T.                                      *)
Quiet(T) ==
    /\ Occurs(taskQ', T) => Occurs(taskQ, T)
    /\ OccursOnce(taskQ, T) => OccursOnce(taskQ', T)

(* A set of tasks that a step of the kernel thread does not submit.         *)
Spared(T) ==
    /\ \A t \in T : \/ t.type \in {"INSERT_DATAOBJECT", "INSERT_REPOSITORY"}
                    \/ t \in Forgets
    /\ onShutdown => \A t \in T : t.type # "INSERT_REPOSITORY"
    /\ \A x \in DataObjects :
          onVerifiedDataObject(x) => \A t \in T : t.type = "INSERT_DATAOBJECT"
                                                  => t.arg # x

LEMMA KernelQuiet ==
    ASSUME TypeInv, DataManager \/ Callers \/ hookCancel, NEW T, Spared(T)
    PROVE  Quiet(T)
<1>1. ASSUME NEW type, NEW arg, NEW keep, submit(type, arg, keep),
             Task(type, arg, keep) \in GoodTasks,
             Task(type, arg, keep) \notin T
      PROVE  Quiet(T)
    BY <1>1, SubmitAdds DEF Adds, Quiet
<1>2. ASSUME UNCHANGED taskQ PROVE Quiet(T)
    BY <1>2 DEF Quiet
<1>3. ASSUME NEW type, NEW arg, NEW keep,
             type \notin {"INSERT_DATAOBJECT", "INSERT_REPOSITORY"},
             type = "DELETE_DATAOBJECT" => keep
      PROVE  Task(type, arg, keep) \notin T
    BY <1>3 DEF Spared, Task, Forgets
<1>4. ASSUME NEW x \in DataObjects, onVerifiedDataObject(x)
      PROVE  Quiet(T)
  <2>1. Task("INSERT_DATAOBJECT", x, FALSE) \notin T
      BY <1>4 DEF Spared, Task
  <2> QED
      BY <1>1, <1>4, <2>1, SubmittedKinds DEF onVerifiedDataObject
<1>5. ASSUME NEW x \in DataObjects, onIncomingDataObject(x) \/ onBadDataObject(x)
      PROVE  Quiet(T)
    BY <1>2, <1>5 DEF onIncomingDataObject, onBadDataObject
<1>6. CASE onShutdown
  <2>1. Task("INSERT_REPOSITORY", localBF, FALSE) \notin T
      BY <1>6 DEF Spared, Task
  <2> QED
      BY <1>1, <1>6, <2>1, SubmittedKinds DEF onShutdown
<1>7. CASE onInsertedDataObject \/ onDeletedDataObject
    BY <1>2, <1>7 DEF onInsertedDataObject, onDeletedDataObject
<1>8. CASE onGetLocalBF
  <2>1. Task("DELETE_REPOSITORY", None, FALSE) \notin T
      BY <1>3
  <2> QED
      BY <1>1, <1>2, <1>8, <2>1, SubmittedKinds DEF onGetLocalBF
<1>9. CASE onAgedDataObjects \/ onAging \/ onConfig
  <2>1. Task("AGE_DATAOBJECTS", None, KeepOnAging) \notin T
      BY <1>3
  <2> QED
      BY <1>1, <1>2, <1>9, <2>1, SubmittedKinds DEF onAgedDataObjects, onAging,
         onConfig
<1>10. CASE hookCancel
  <2>1. Task("EXIT", None, FALSE) \notin T
      BY <1>3
  <2> QED
      BY <1>1, <1>10, <2>1, SubmittedKinds DEF hookCancel
<1>11. ASSUME NEW x \in DataObjects, deleteDataObject(x)
       PROVE  Quiet(T)
  <2>1. Task("DELETE_DATAOBJECT", x, TRUE) \notin T
      BY <1>3
  <2> QED
      BY <1>1, <1>11, <2>1, SubmittedKinds DEF deleteDataObject
<1>12. ASSUME NEW x \in DataObjects, NEW keep \in BOOLEAN,
              deleteDataObjectById(x, keep)
       PROVE  Quiet(T)
  <2>1. Task("DELETE_DATAOBJECT_BY_ID", x, keep) \notin T
      BY <1>3
  <2> QED
      BY <1>1, <1>12, <2>1, SubmittedKinds DEF deleteDataObjectById
<1>13. ASSUME NEW n \in Nodes, doDataObjectQuery(n)
       PROVE  Quiet(T)
  <2>1. Task("DATAOBJECT_QUERY", n, FALSE) \notin T
      BY <1>3
  <2> QED
      BY <1>1, <1>13, <2>1, SubmittedKinds DEF doDataObjectQuery
<1>14. ASSUME NEW n \in Nodes, cancelDataObjectQueries(n)
       PROVE  Quiet(T)
    BY <1>14, OccursCancel DEF Quiet
<1> QED
    BY <1>4, <1>5, <1>6, <1>7, <1>8, <1>9, <1>10, <1>11, <1>12, <1>13, <1>14
       DEF DataManager, Callers

LEMMA ForgetsSpared == Spared(Forgets)
BY DEF Spared, Forgets

LEMMA InsertsSpared ==
    ASSUME NEW d \in DataObjects, ~onVerifiedDataObject(d)
    PROVE  Spared(Inserts(d))
BY DEF Spared, Inserts

LEMMA SavesSpared ==
    ASSUME ~onShutdown
    PROVE  Spared(Saves)
BY DEF Spared, Saves

(* A handler that leaves d where it is, or takes its report away.           *)
LEMMA Stays ==
    ASSUME NEW d \in DataObjects, OnePlace(d), Quiet(Inserts(d)),
           UNCHANGED <<task, stored>>, d \in verifying' => d \in verifying,
           Occurs(events', Drops(d)) => Occurs(events, Drops(d)),
           OccursOnce(events', Drops(d))
    PROVE  OnePlace(d)' /\ (InPlace(d)' => InPlace(d))
BY DEF OnePlace, InPlace, Quiet, Inserts, Drops

LEMMA PlaceManager ==
    ASSUME TypeInv, StartInv, PlaceInv, kernel # "starting",
           DataManager \/ Callers \/ hookCancel
    PROVE  PlaceInv'
<1> USE DEF threadVars, tables, managerVars, counters, history
<1>0. /\ RestTyped /\ events \in Seq(Events) /\ localBF \subseteq DataObjects
      /\ task \notin Forgets /\ \A d \in DataObjects : OnePlace(d)
      /\ \A d \in DataObjects : InPlace(d) => d \in localBF
    BY TypeParts DEF RestTyped, PlaceInv
<1>1. ~Occurs(taskQ', Forgets)
    BY ForgetsSpared, KernelQuiet DEF Quiet, PlaceInv
<1>2. UNCHANGED <<task, stored>>
    BY DEF DataManager, onIncomingDataObject, onVerifiedDataObject,
       onBadDataObject, onGetLocalBF, onInsertedDataObject,
       onDeletedDataObject, onAgedDataObjects, onAging, onConfig, onShutdown,
       Callers, deleteDataObjectById, deleteDataObject, doDataObjectQuery,
       cancelDataObjectQueries, hookCancel
<1>3. SUFFICES ASSUME NEW d \in DataObjects
               PROVE  OnePlace(d)' /\ (InPlace(d)' => d \in localBF')
    BY <1>0, <1>1, <1>2, <1>3 DEF PlaceInv, Forgets
<1>p. OnePlace(d) /\ (InPlace(d) => d \in localBF)
    BY <1>0
<1>q. ~onVerifiedDataObject(d) => Quiet(Inserts(d))
    BY InsertsSpared, KernelQuiet
<1>e. ASSUME UNCHANGED events \/ (events # <<>> /\ events' = Tail(events))
      PROVE  /\ Occurs(events', Drops(d)) => Occurs(events, Drops(d))
             /\ OccursOnce(events', Drops(d))
  <2>1. OccursOnce(events, Drops(d))
      BY <1>p DEF OnePlace
  <2>2. CASE UNCHANGED events
      BY <2>1, <2>2
  <2>3. CASE events # <<>> /\ events' = Tail(events)
      BY <1>0, <2>1, <2>3, OccursTail
  <2> QED
      BY <1>e, <2>2, <2>3
<1>4. ASSUME NEW x \in DataObjects, onIncomingDataObject(x)
      PROVE  OnePlace(d)' /\ (InPlace(d)' => d \in localBF')
  <2>1. /\ x \notin localBF /\ localBF' = localBF \cup {x}
        /\ verifying' = verifying \cup {x} /\ UNCHANGED <<events, taskQ>>
      BY <1>4 DEF onIncomingDataObject
  <2>2. CASE d = x
    <3>1. ~InPlace(d)
        BY <1>p, <2>1, <2>2
    <3> QED
        BY <1>2, <1>p, <2>1, <2>2, <3>1 DEF OnePlace, InPlace, Inserts, Drops
  <2>3. CASE d # x
      BY <1>2, <1>p, <2>1, <2>3 DEF OnePlace, InPlace, Inserts, Drops
  <2> QED
      BY <2>2, <2>3
<1>5. ASSUME NEW x \in DataObjects, onVerifiedDataObject(x)
      PROVE  OnePlace(d)' /\ (InPlace(d)' => d \in localBF')
  <2>1. /\ x \in verifying /\ verifying' = verifying \ {x}
        /\ submit("INSERT_DATAOBJECT", x, FALSE) /\ UNCHANGED <<events, localBF>>
      BY <1>5 DEF onVerifiedDataObject
  <2> DEFINE t == Task("INSERT_DATAOBJECT", x, FALSE)
  <2>2. Adds(t) /\ t.arg = x
    <3>1. t \in GoodTasks
        BY SubmittedKinds
    <3>2. Adds(t)
        BY <2>1, <3>1, SubmitAdds
    <3> QED
        BY <3>1, <3>2 DEF Task
  <2> HIDE DEF t
  <2>3. CASE d = x
    <3>1. /\ ~Occurs(taskQ, Inserts(d)) /\ OccursOnce(taskQ, Inserts(d))
          /\ task \notin Inserts(d)
          /\ d \notin stored /\ ~Occurs(events, Drops(d)) /\ InPlace(d)
        BY <1>p, <2>1, <2>3 DEF OnePlace, InPlace
    <3>2. OccursOnce(taskQ', Inserts(d))
        BY <2>2, <3>1 DEF Adds
    <3> QED
        BY <1>2, <1>p, <2>1, <2>3, <3>1, <3>2
           DEF OnePlace, InPlace, Inserts, Drops
  <2>4. CASE d # x
    <3>1. t \notin Inserts(d)
        BY <2>2, <2>4 DEF Inserts
    <3>2. Quiet(Inserts(d))
        BY <2>2, <3>1 DEF Adds, Quiet
    <3>3. OnePlace(d)' /\ (InPlace(d)' => InPlace(d))
        BY <1>2, <1>e, <1>p, <2>1, <3>2, Stays
    <3> QED
        BY <1>p, <2>1, <3>3
  <2> QED
      BY <2>3, <2>4
<1>6. ASSUME NEW x \in DataObjects, onBadDataObject(x)
      PROVE  OnePlace(d)' /\ (InPlace(d)' => d \in localBF')
  <2>1. /\ x \in verifying /\ verifying' = verifying \ {x}
        /\ UNCHANGED <<localBF, events, taskQ>>
      BY <1>6 DEF onBadDataObject
  <2> QED
      BY <1>2, <1>p, <2>1 DEF OnePlace, InPlace, Inserts, Drops
<1>7. CASE onDeletedDataObject
  <2> DEFINE h == Head(events)
  <2>1. /\ events # <<>> /\ events' = Tail(events) /\ h.type = "DELETED"
        /\ localBF' = localBF \ RemovedFromFilter(h)
        /\ UNCHANGED <<verifying, taskQ>>
      BY <1>7 DEF onDeletedDataObject, Handle
  <2>2. h \in Events /\ h.flag \in BOOLEAN
      BY <1>0, <1>7, FirstEvent DEF onDeletedDataObject
  <2>3. Quiet(Inserts(d))
      BY <2>1 DEF Quiet
  <2>4. OnePlace(d)' /\ (InPlace(d)' => InPlace(d))
      BY <1>2, <1>e, <1>p, <2>1, <2>3, Stays
  <2>5. ASSUME d \in RemovedFromFilter(h), InPlace(d)' PROVE FALSE
    <3>1. ~h.flag /\ d \in h.objs /\ d \in PlainObjects
        BY <2>2, <2>5 DEF RemovedFromFilter, DataObjects
    <3>2. h \in Drops(d)
        BY <2>1, <2>2, <3>1 DEF Drops
    <3>3. Occurs(events, Drops(d)) /\ OccursOnce(events, Drops(d))
        BY <1>0, <1>p, <2>1, <3>2, OccursTail DEF OnePlace
    <3>4. ~Occurs(events', Drops(d))
        BY <1>0, <2>1, <3>2, <3>3, OccursTail
    <3> QED
        BY <1>2, <1>p, <2>1, <2>5, <3>3, <3>4
           DEF OnePlace, InPlace, Inserts, Drops
  <2> QED
      BY <1>p, <2>1, <2>4, <2>5
<1>8. CASE onInsertedDataObject \/ onAgedDataObjects
  <2>1. /\ events # <<>> /\ events' = Tail(events)
        /\ UNCHANGED <<verifying, localBF>> /\ Quiet(Inserts(d))
    <3>1. ~onVerifiedDataObject(d)
      <4>1. events # <<>> /\ events' = Tail(events)
          BY <1>8 DEF onInsertedDataObject, onAgedDataObjects, Handle
      <4>2. Len(Tail(events)) # Len(events)
          BY <1>0, <4>1
      <4> QED
          BY <4>1, <4>2 DEF onVerifiedDataObject
    <3> QED
        BY <1>8, <1>q, <3>1 DEF onInsertedDataObject, onAgedDataObjects, Handle
  <2>2. OnePlace(d)' /\ (InPlace(d)' => InPlace(d))
      BY <1>2, <1>e, <1>p, <2>1, Stays
  <2> QED
      BY <1>p, <2>1, <2>2
<1>9. CASE onAging \/ onConfig \/ onShutdown \/ Callers \/ hookCancel
  <2>1. UNCHANGED <<verifying, localBF, events>>
      BY <1>9 DEF onAging, onConfig, onShutdown, Callers, deleteDataObjectById,
         deleteDataObject, doDataObjectQuery, cancelDataObjectQueries,
         hookCancel
  <2>2. Quiet(Inserts(d))
    <3>1. CASE onVerifiedDataObject(d)
        BY <1>5, <2>1, <3>1 DEF onVerifiedDataObject
    <3> QED
        BY <1>q, <3>1
  <2>3. OnePlace(d)' /\ (InPlace(d)' => InPlace(d))
      BY <1>2, <1>e, <1>p, <2>1, <2>2, Stays
  <2> QED
      BY <1>p, <2>1, <2>3
<1>10. CASE onGetLocalBF
  <2>1. events # <<>> /\ Head(events).type = "GET_LOCAL_BF"
      BY <1>10 DEF onGetLocalBF, Handle
  <2>2. Head(events) \in Events
      BY <1>0, <2>1
  <2>3. Occurs(events, Gets)
      BY <1>0, <2>1, <2>2, OccursTail DEF Gets
  <2> QED
      BY <2>3 DEF StartInv
<1> QED
    BY <1>4, <1>5, <1>6, <1>7, <1>8, <1>9, <1>10 DEF DataManager

LEMMA ThreadAlive ==
    ASSUME Thread
    PROVE  pc # "exited"
BY DEF Thread, runTake, runExit, runWait, runWoken, _insertDataObject,
       _insertNodeDescription, _deleteDataObjectById, _deleteDataObject,
       _ageDataObjects, _readRepository, _insertRepository, _doNothingHere,
       Executing

LEMMA SavedByTask ==
    ASSUME TypeInv, Thread, pc = "busy"
    PROVE  IF task \in Saves
           THEN saved'.present /\ saved'.filter = task.arg
           ELSE UNCHANGED saved
<1> USE DEF tables
<1>1. task \in Saves => task.type = "INSERT_REPOSITORY"
    BY DEF Saves
<1>2. task.type = "INSERT_REPOSITORY" => task \in Saves
    BY NoTaskType DEF TypeInv, TypeOK, Saves
<1>3. CASE task.type = "INSERT_REPOSITORY"
  <2>1. _insertRepository
      BY <1>3 DEF Thread, runTake, runExit, runWait, runWoken,
         _insertDataObject, _insertNodeDescription, _deleteDataObjectById,
         _deleteDataObject, _ageDataObjects, _readRepository,
         _insertRepository, _doNothingHere, Executing
  <2>2. saved' = [present |-> TRUE, filter |-> task.arg]
      BY <2>1 DEF _insertRepository
  <2>3. saved'.present /\ saved'.filter = task.arg
      BY <2>2
  <2> QED
      BY <1>2, <1>3, <2>3
<1>4. CASE task.type # "INSERT_REPOSITORY"
  <2>1. UNCHANGED saved
      BY <1>4 DEF Thread, runTake, runExit, runWait, runWoken,
         _insertDataObject, _insertNodeDescription, _deleteDataObjectById,
         _deleteDataObject, _ageDataObjects, _readRepository,
         _insertRepository, _doNothingHere, Executing
  <2> QED
      BY <1>1, <1>4, <2>1
<1> QED
    BY <1>3, <1>4

LEMMA SaveThread ==
    ASSUME TypeInv, StartInv, SaveInv, Thread, kernel # "starting"
    PROVE  SaveInv'
<1>0. /\ taskQ \in Seq(GoodTasks) /\ kernel' = kernel /\ localBF' = localBF
      /\ cancelled' = cancelled /\ pc # "exited" /\ kernel # "down"
    BY ThreadHand, ThreadAlive DEF TypeInv, SaveInv
<1>1. ASSUME NEW T, NoTask \notin T, ~Occurs(taskQ, T), task \notin T
      PROVE  ~Occurs(taskQ', T) /\ task' \notin T
  <2>1. CASE task' = NoTask /\ UNCHANGED taskQ
      BY <1>1, <2>1
  <2>2. CASE TakeFront /\ taskQ # <<>>
      BY <1>0, <1>1, <2>2, OccursTail DEF TakeFront
  <2>3. CASE UNCHANGED <<task, taskQ>>
      BY <1>1, <2>3
  <2> QED
      BY <2>1, <2>2, <2>3, ThreadHand
<1>2. NoTask \notin Saves /\ NoTask \notin OtherSaves(localBF)
    BY NoTaskType DEF Saves, OtherSaves
<1>3. pc' = "exited" => cancelled /\ taskQ = <<>> /\ pc # "busy"
                        /\ UNCHANGED <<task, taskQ, saved>>
    BY ThreadHand
<1>4. CASE kernel = "running"
  <2>1. ~Occurs(taskQ', Saves) /\ task' \notin Saves
      BY <1>1, <1>2, <1>4 DEF SaveInv
  <2> QED
      BY <1>0, <1>3, <1>4, <2>1 DEF SaveInv, Saves, Tasks, High, Medium, Low
<1>5. CASE kernel # "running"
  <2>1. /\ ~Occurs(taskQ', OtherSaves(localBF)) /\ task' \notin OtherSaves(localBF)
        /\ Saving /\ task \notin OtherSaves(localBF)
      BY <1>1, <1>2, <1>5 DEF SaveInv
  <2>2. Saving'
    <3>1. CASE pc = "busy"
      <4>1. pc' = "ready" /\ UNCHANGED taskQ
          BY <3>1, ThreadHand
      <4>2. CASE task \in Saves
        <5>1. task.arg = localBF
            BY <2>1, <4>2 DEF OtherSaves
        <5> QED
            BY <1>0, <3>1, <4>2, <5>1, SavedByTask DEF Saving
      <4>3. CASE task \notin Saves
        <5>1. UNCHANGED saved
            BY <3>1, <4>3, SavedByTask
        <5> QED
            BY <1>0, <2>1, <4>1, <4>3, <5>1 DEF Saving, Saves
      <4> QED
          BY <4>2, <4>3
    <3>2. CASE pc # "busy" /\ pc' = "busy" /\ TakeFront /\ taskQ # <<>>
               /\ UNCHANGED saved
      <4>1. Occurs(taskQ, Saves) => task' \in Saves \/ Occurs(taskQ', Saves)
          BY <1>0, <3>2, OccursTail DEF TakeFront
      <4>2. task \notin Saves
          BY <1>2, <3>2 DEF StartInv
      <4> QED
          BY <1>0, <2>1, <3>2, <4>1, <4>2 DEF Saving, Saves
    <3>3. CASE pc # "busy" /\ pc' # "busy" /\ UNCHANGED <<task, taskQ, saved>>
      <4>1. task \notin Saves
          BY <1>2, <3>3 DEF StartInv
      <4>2. CASE pc' # "exited"
          BY <1>0, <2>1, <3>3, <4>1, <4>2 DEF Saving, Saves
      <4>3. CASE pc' = "exited"
        <5>1. NoTask \in {NoTask} /\ taskQ = <<>>
            BY <1>3, <4>3
        <5>2. ~Occurs(taskQ, Saves)
            BY <5>1, OccursShort
        <5> QED
            BY <1>0, <2>1, <3>3, <4>1, <5>2 DEF Saving
      <4> QED
          BY <4>2, <4>3
    <3> QED
        BY <3>1, <3>2, <3>3, ThreadHand
  <2>3. (~Occurs(taskQ, OtherSaves(localBF)))' /\ (task \notin OtherSaves(localBF))'
      BY <1>0, <2>1 DEF OtherSaves, Saves
  <2> QED
      BY <1>0, <1>3, <1>5, <2>2, <2>3 DEF SaveInv
<1> QED
    BY <1>4, <1>5

LEMMA SaveManager ==
    ASSUME TypeInv, WaitInv, StartInv, SaveInv, kernel # "starting",
           DataManager \/ Callers
    PROVE  SaveInv'
<1> USE DEF threadVars, tables, managerVars, counters, history
<1>0. kernel = "running" /\ ~cancelled /\ pc # "exited"
  <2>1. kernel \in {"starting", "running"}
      BY DEF DataManager, onIncomingDataObject, onVerifiedDataObject,
         onBadDataObject, onGetLocalBF, onInsertedDataObject,
         onDeletedDataObject, onAgedDataObjects, onAging, onConfig, onShutdown,
         Callers, deleteDataObjectById, deleteDataObject, doDataObjectQuery,
         cancelDataObjectQueries, Call, Handle, Running
  <2> QED
      BY <2>1 DEF WaitInv, SaveInv
<1>1. /\ UNCHANGED <<task, cancelled, saved>>
      /\ pc' = pc \/ (pc = "waiting" /\ pc' = "woken")
    BY DEF DataManager, onIncomingDataObject, onVerifiedDataObject,
       onBadDataObject, onGetLocalBF, onInsertedDataObject,
       onDeletedDataObject, onAgedDataObjects, onAging, onConfig, onShutdown,
       Callers, deleteDataObjectById, deleteDataObject, doDataObjectQuery,
       cancelDataObjectQueries, submit
<1>2. pc' # "exited" /\ task \notin Saves /\ ~Occurs(taskQ, Saves)
    BY <1>0, <1>1 DEF SaveInv
<1>3. CASE onShutdown
  <2>1. /\ kernel' = "unregistered" /\ UNCHANGED localBF
        /\ submit("INSERT_REPOSITORY", localBF, FALSE)
      BY <1>3 DEF onShutdown
  <2> DEFINE t == Task("INSERT_REPOSITORY", localBF, FALSE)
  <2>2. t \in GoodTasks
      BY SubmittedKinds
  <2>3. Adds(t)
      BY <2>1, <2>2, SubmitAdds
  <2>4. t \in Saves /\ t \notin OtherSaves(localBF)
      BY <2>2 DEF Saves, OtherSaves, Task, GoodTasks
  <2> HIDE DEF t
  <2>5. Occurs(taskQ', Saves)
      BY <2>3, <2>4 DEF Adds
  <2>6. ~Occurs(taskQ, OtherSaves(localBF)) /\ task \notin OtherSaves(localBF)
      BY <1>2 DEF Occurs, OtherSaves
  <2>7. ~Occurs(taskQ', OtherSaves(localBF))
      BY <2>3, <2>4, <2>6 DEF Adds
  <2>8. (~Occurs(taskQ, OtherSaves(localBF)))' /\ (task \notin OtherSaves(localBF))'
      BY <1>1, <2>1, <2>6, <2>7 DEF OtherSaves, Saves
  <2>9. Saving'
      BY <1>2, <2>5 DEF Saving, Saves
  <2> QED
      BY <1>2, <2>1, <2>8, <2>9 DEF SaveInv
<1>4. CASE ~onShutdown
  <2>1. ~Occurs(taskQ', Saves) /\ task' \notin Saves
      BY <1>1, <1>2, <1>4, SavesSpared, KernelQuiet DEF Quiet
  <2>2. kernel' = "running"
      BY <1>0, <1>4 DEF DataManager, onIncomingDataObject,
         onVerifiedDataObject, onBadDataObject, onGetLocalBF,
         onInsertedDataObject, onDeletedDataObject, onAgedDataObjects,
         onAging, onConfig, Callers, deleteDataObjectById, deleteDataObject,
         doDataObjectQuery, cancelDataObjectQueries
  <2> QED
      BY <1>2, <2>1, <2>2 DEF SaveInv, Saves
<1> QED
    BY <1>3, <1>4

LEMMA SaveStop ==
    ASSUME TypeInv, SaveInv, kernel # "starting",
           stop \/ setClockBack \/ wakeSpuriously \/ UNCHANGED vars
    PROVE  SaveInv'
<1> USE DEF threadVars, tables, managerVars, counters, history
<1>1. CASE hookCancel
  <2>1. /\ submit("EXIT", None, FALSE) /\ kernel = "cancelling"
        /\ kernel' = "joining"
        /\ UNCHANGED <<task, cancelled, saved, stored, localBF>>
      BY <1>1 DEF hookCancel
  <2> DEFINE t == Task("EXIT", None, FALSE)
  <2>2. t \in GoodTasks
      BY SubmittedKinds
  <2>3. Adds(t)
      BY <2>1, <2>2, SubmitAdds
  <2>4. t \notin OtherSaves(localBF)
      BY DEF Saves, OtherSaves, Task
  <2> HIDE DEF t
  <2>5. /\ Occurs(taskQ, Saves) => Occurs(taskQ', Saves)
        /\ ~Occurs(taskQ', OtherSaves(localBF))
      BY <2>1, <2>3, <2>4 DEF Adds, SaveInv
  <2>6. (~Occurs(taskQ, OtherSaves(localBF)))' /\ (task \notin OtherSaves(localBF))'
      BY <2>1, <2>5 DEF OtherSaves, Saves, SaveInv
  <2>7. pc' = "exited" <=> pc = "exited"
      BY <2>3 DEF Adds
  <2>8. Saving'
      BY <2>1, <2>5, <2>7 DEF Saving, Saves, SaveInv
  <2> QED
      BY <2>1, <2>6, <2>7, <2>8 DEF SaveInv
<1>2. CASE cancel \/ join \/ setClockBack \/ wakeSpuriously \/ UNCHANGED vars
  <2>1. /\ UNCHANGED <<taskQ, task, saved, stored, localBF>>
        /\ pc' = "exited" <=> pc = "exited"
        /\ cancelled => cancelled'
        /\ kernel' = "down" => pc = "exited"
        /\ kernel' # "starting"
        /\ kernel \in {"starting", "running"} <=> kernel' \in {"starting", "running"}
      BY <1>2 DEF cancel, join, setClockBack, wakeSpuriously, vars, SaveInv
  <2> QED
      BY <2>1 DEF SaveInv, Saving, Saves, OtherSaves
<1> QED
    BY <1>1, <1>2 DEF stop

LEMMA KnownStep ==
    ASSUME TypeInv, TypeInv', WaitInv, StartInv, KnownInv, [Next]_vars
    PROVE  KnownInv'
<1> USE DEF threadVars, tables, managerVars, counters, history
<1>1. CASE crash
    BY <1>1 DEF crash, KnownInv
<1>2. SUFFICES ASSUME ~crash, SaveInv, PlaceInv, intact
               PROVE  SaveInv' /\ PlaceInv'
  <2>1. intact' => intact \/ crash
      BY DEF Next, Thread, runTake, runExit, runWait, runWoken,
         _insertDataObject, _insertNodeDescription, _deleteDataObjectById,
         _deleteDataObject, _ageDataObjects, _readRepository,
         _insertRepository, _doNothingHere, DataManager,
         onIncomingDataObject, onVerifiedDataObject, onBadDataObject,
         onGetLocalBF, onInsertedDataObject, onDeletedDataObject,
         onAgedDataObjects, onAging, onConfig, onShutdown, Callers,
         deleteDataObjectById, deleteDataObject, doDataObjectQuery,
         cancelDataObjectQueries, stop, cancel, hookCancel, join,
         setClockBack, wakeSpuriously, restart, vars
  <2> QED
      BY <1>1, <1>2, <2>1 DEF KnownInv
<1>t. RestTyped' /\ RestTyped
  <2>1. RestTyped
      BY TypeParts
  <2>2. RestTyped'
      BY DEF TypeInv, TypeOK, RestTyped
  <2> QED
      BY <2>1, <2>2
<1>3. CASE restart
  <2>1. /\ kernel = "down" /\ kernel' = "starting" /\ UNCHANGED <<stored, saved>>
        /\ Starting' /\ pc' = "ready"
      BY <1>3 DEF restart, NewProcess, Starting
  <2>2. saved.present /\ saved.filter = localBF
      BY <1>2, <2>1 DEF SaveInv, Saving
  <2>3. stored \subseteq localBF
      BY <1>2, <1>t, <2>1 DEF PlaceInv, InPlace, RestTyped
  <2>4. SaveInv'
      BY <1>t, <2>1, <2>2, <2>3, StartingPlaces DEF SaveInv, Saves
  <2>5. PlaceInv'
      BY <1>t, <2>1, StartingPlaces DEF PlaceInv, Forgets
  <2> QED
      BY <2>4, <2>5
<1>4. CASE kernel = "starting" /\ onGetLocalBF
  <2>1. Starting /\ events # <<>> /\ kernel' = "running"
        /\ Head(events).type = "GET_LOCAL_BF" /\ events' = Tail(events)
        /\ UNCHANGED <<task, cancelled, stored, saved, verifying>>
      BY <1>4 DEF StartInv, onGetLocalBF, Handle
  <2> DEFINE e == Event("GET_LOCAL_BF", saved.filter, saved.present)
  <2>2. taskQ = <<>> /\ task = NoTask /\ verifying = {} /\ events = <<e>>
      BY <2>1 DEF Starting
  <2>3. e.objs = saved.filter /\ e.flag = saved.present
      BY DEF Event
  <2> HIDE DEF e
  <2>4. events' = <<>> /\ Head(events) = e
      BY <2>1, <2>2
  <2>5. stored \subseteq localBF'
    <3>1. CASE saved.present
      <4>1. localBF' = saved.filter
          BY <1>4, <2>3, <2>4, <3>1 DEF onGetLocalBF
      <4> QED
          BY <1>2, <1>4, <3>1, <4>1 DEF SaveInv
    <3>2. CASE ~saved.present
        BY <1>2, <1>4, <3>2 DEF SaveInv
    <3> QED
        BY <3>1, <3>2
  <2>6. FirstTask \in GoodTasks
      BY StarterTask
  <2>7. ASSUME NEW T
        PROVE  ~Occurs(events', T) /\ OccursOnce(events', T)
               /\ ~Occurs(taskQ, T) /\ OccursOnce(taskQ, T)
      BY <2>2, <2>4, <2>6, OccursShort
  <2>8. events' # events /\ ~onShutdown
    <3>1. events' # events
        BY <2>1, <2>4
    <3> QED
        BY <3>1 DEF onShutdown
  <2>9. ~Occurs(taskQ', Saves) /\ ~Occurs(taskQ', Forgets)
      BY <1>4, <2>7, <2>8, SavesSpared, ForgetsSpared, KernelQuiet
         DEF Quiet, DataManager
  <2>10. ASSUME NEW d \in DataObjects
         PROVE  ~Occurs(taskQ', Inserts(d)) /\ OccursOnce(taskQ', Inserts(d))
    <3>1. ~onVerifiedDataObject(d)
        BY <2>8 DEF onVerifiedDataObject
    <3> QED
        BY <1>4, <2>7, <3>1, InsertsSpared, KernelQuiet DEF Quiet, DataManager
  <2>11. task' \notin Saves /\ task' \notin Forgets
         /\ \A d \in DataObjects : task' \notin Inserts(d)
      BY <2>1, <2>2, NoTaskType DEF Saves, Forgets, Inserts
  <2>12. pc' = "exited" => cancelled'
    <3>1. pc' = "exited" => pc = "exited"
        BY <1>4 DEF onGetLocalBF, submit
    <3>2. pc = "exited" => cancelled
        BY <1>2 DEF SaveInv
    <3> QED
        BY <2>1, <3>1, <3>2
  <2>13. SaveInv'
      BY <2>1, <2>9, <2>11, <2>12 DEF SaveInv, Saves
  <2>14. PlaceInv'
    <3>1. ASSUME NEW d \in DataObjects
          PROVE  OnePlace(d)' /\ (InPlace(d)' => d \in localBF')
        BY <2>1, <2>2, <2>5, <2>7, <2>10, <2>11
           DEF OnePlace, InPlace, Inserts, Drops
    <3> QED
        BY <2>9, <2>11, <3>1 DEF PlaceInv, Forgets
  <2> QED
      BY <2>13, <2>14
<1>5. CASE kernel = "starting" /\ ~onGetLocalBF /\ ~restart
  <2>1. /\ UNCHANGED <<kernel, stored, saved, cancelled>> /\ Starting'
        /\ pc' = "exited" => pc = "exited" \/ cancelled
      BY <1>2, <1>5, StartingStep
  <2>2. SaveInv'
      BY <1>2, <1>5, <1>t, <2>1, StartingPlaces DEF SaveInv, Saves
  <2>3. PlaceInv'
      BY <1>5, <1>t, <2>1, StartingPlaces DEF PlaceInv, Forgets
  <2> QED
      BY <2>2, <2>3
<1>6. CASE kernel # "starting" /\ Thread
    BY <1>2, <1>6, PlaceThread, SaveThread
<1>7. CASE kernel # "starting" /\ (DataManager \/ Callers)
    BY <1>2, <1>7, PlaceManager, SaveManager
<1>8. CASE kernel # "starting" /\ (stop \/ setClockBack \/ wakeSpuriously
                                      \/ UNCHANGED vars)
  <2>1. SaveInv'
      BY <1>2, <1>8, SaveStop
  <2>2. CASE hookCancel
      BY <1>2, <1>8, <2>1, <2>2, PlaceManager
  <2>3. CASE cancel \/ join \/ setClockBack \/ wakeSpuriously \/ UNCHANGED vars
    <3>1. /\ UNCHANGED <<taskQ, task, stored, localBF, verifying, events>>
          /\ kernel' # "starting"
        BY <1>8, <2>3 DEF cancel, join, setClockBack, wakeSpuriously, vars
    <3>2. PlaceInv'
        BY <1>2, <1>8, <3>1
           DEF PlaceInv, OnePlace, InPlace, Inserts, Drops, Forgets
    <3> QED
        BY <2>1, <3>2
  <2> QED
      BY <1>8, <2>2, <2>3 DEF stop
<1> QED
    BY <1>2, <1>3, <1>4, <1>5, <1>6, <1>7, <1>8 DEF Next

(* Without a crash every stored data object is in the data manager's filter *)
(* as soon as the process runs, also after a shutdown and restart and       *)
(* whatever the thread did after the filter was saved.                      *)
THEOREM StoredKnown == Spec => []StoredIsKnown
<1>1. Init => KnownInv
  <2> SUFFICES ASSUME Init PROVE SaveInv /\ PlaceInv
      BY DEF KnownInv
  <2>1. /\ taskQ = <<FirstTask>> /\ task = NoTask /\ events = <<>>
        /\ verifying = {} /\ stored = {} /\ kernel = "starting" /\ pc = "ready"
        /\ saved.present = FALSE
      BY DEF Init
  <2>2. FirstTask \in GoodTasks
      BY StarterTask
  <2>3. ASSUME NEW T, FirstTask \notin T
        PROVE  /\ ~Occurs(taskQ, T) /\ OccursOnce(taskQ, T)
               /\ ~Occurs(events, T) /\ OccursOnce(events, T)
      BY <2>1, <2>2, <2>3, OccursShort
  <2>4. /\ ~Occurs(taskQ, Saves) /\ task \notin Saves
        /\ ~Occurs(taskQ, Forgets) /\ task \notin Forgets
      BY <2>1, <2>3, NoTaskType DEF Saves, Forgets
  <2>5. ASSUME NEW d \in DataObjects PROVE OnePlace(d)
    <3>1. FirstTask \notin Inserts(d) /\ FirstTask \notin Drops(d)
          /\ NoTask \notin Inserts(d)
        BY NoTaskType DEF Inserts, Drops
    <3> QED
        BY <2>1, <2>3, <3>1 DEF OnePlace
  <2> QED
      BY <2>1, <2>4, <2>5 DEF SaveInv, PlaceInv
<1>2. TypeInv /\ KnownInv => StoredIsKnown
    BY DEF TypeInv, TypeOK, KnownInv, PlaceInv, InPlace, StoredIsKnown
<1>3. Spec => []WaitInv
  <2>1. Init => WaitInv
      BY DEF Init, WaitInv, WaitIsSafe
  <2> QED
      BY <2>1, TypeInvariant, WaitStep, PTL DEF Spec
<1> QED
    BY <1>1, <1>2, <1>3, TypeInvariant, StartInvariant, KnownStep, PTL DEF Spec
=============================================================================
