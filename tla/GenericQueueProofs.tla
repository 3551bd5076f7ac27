------------------------- MODULE GenericQueueProofs -------------------------
(***************************************************************************)
(* Proofs about GenericQueue, for any number of producers, elements and     *)
(* insert() calls.                                                          *)
(***************************************************************************)
EXTENDS GenericQueue, TLAPS, SequenceTheorems

(***************************************************************************)
(* The inductive invariant of the watchable overload.                       *)
(***************************************************************************)

(* The owner of the mutex is the thread inside a critical section.          *)
LockOwner == \A t \in Threads : Critical(t) <=> mutex = t

(* The signal is not raised beside an empty list, except after the last     *)
(* element was taken and before the signal is lowered ...                   *)
RaisedMeansElement ==
    /\ raised /\ pc[Consumer] # "lower" => lst # <<>>
    /\ pc[Consumer] = "lower" => lst = <<>>

(* ... and it is raised beside an element, except after an element was      *)
(* pushed and before the signal is raised.                                  *)
ElementMeansRaised ==
    /\ lst # <<>> /\ ~raised => \E p \in Producers : pc[p] = "raise"
    /\ \A p \in Producers : pc[p] = "raise" => lst # <<>>

(* On its way to an element the consumer relies on what it saw without the  *)
(* lock: only the consumer itself empties the list.                         *)
TakesAnElement ==
    /\ pc[Consumer] \in {"takeLock", "take"} => lst # <<>>
    /\ pc[Consumer] # "strayUnlock"

(* What insert() checked is still true when it pushes.                      *)
CheckStillHolds ==
    \A p \in Producers :
        pc[p] = "push" /\ arg[p][2] =>
            \A i \in 1..Len(lst) : lst[i] # arg[p][1]

IInv ==
    /\ TypeOK
    /\ LockOwner
    /\ RaisedMeansElement
    /\ ElementMeansRaised
    /\ TakesAnElement
    /\ CheckStillHolds

-----------------------------------------------------------------------------
(* TypeOK is inductive, whichever retrieve() the consumer calls.            *)
LEMMA TypeInduction == TypeOK /\ [PlainNext]_vars => TypeOK'
<1> SUFFICES ASSUME TypeOK, [PlainNext]_vars PROVE TypeOK'
    OBVIOUS
<1> USE ConstantsAssumption DEF TypeOK, Threads, ProducerLocations, ConsumerLocations,
        Results, Goto, Lock, Unlock, Raise, Lower, NoCall
<1>1. CASE UNCHANGED vars
    BY <1>1 DEF vars
<1>2. ASSUME NEW p \in Producers, InsertCall(p) PROVE TypeOK'
    BY <1>2 DEF InsertCall
<1>3. ASSUME NEW p \in Producers, InsertLock(p) PROVE TypeOK'
    BY <1>3 DEF InsertLock
<1>4. ASSUME NEW p \in Producers, InsertRefuse(p) PROVE TypeOK'
    BY <1>4 DEF InsertRefuse
<1>5. ASSUME NEW p \in Producers, InsertAdmit(p) PROVE TypeOK'
    BY <1>5 DEF InsertAdmit
<1>6. ASSUME NEW p \in Producers, InsertPush(p) PROVE TypeOK'
    BY <1>6 DEF InsertPush
<1>7. ASSUME NEW p \in Producers, InsertRaise(p) PROVE TypeOK'
    BY <1>7 DEF InsertRaise
<1>8. ASSUME NEW p \in Producers, InsertReturn(p) PROVE TypeOK'
    BY <1>8 DEF InsertReturn
<1>9. CASE Close
    BY <1>9 DEF Close
<1>10. CASE Cancel
    BY <1>10 DEF Cancel
<1>11. CASE RetrieveCall
    BY <1>11 DEF RetrieveCall
<1>12. CASE RetrieveCheckLock
    BY <1>12 DEF RetrieveCheckLock
<1>13. CASE RetrieveEmpty
    BY <1>13 DEF RetrieveEmpty
<1>14. CASE RetrieveMustWait
    BY <1>14 DEF RetrieveMustWait
<1>15. CASE RetrieveStrayUnlock
    BY <1>15 DEF RetrieveStrayUnlock
<1>16. CASE RetrieveGiveUp
    BY <1>16 DEF RetrieveGiveUp, WaitOutcomes
<1>17. CASE RetrieveWoken
    BY <1>17 DEF RetrieveWoken
<1>18. CASE RetrieveTakeLock
    BY <1>18 DEF RetrieveTakeLock
<1>19. CASE RetrieveTake
    BY <1>19 DEF RetrieveTake
<1>20. CASE RetrieveLower
    BY <1>20 DEF RetrieveLower
<1>21. CASE RetrieveReturn
    BY <1>21 DEF RetrieveReturn
<1>22. CASE ConsumerStop
    BY <1>22 DEF ConsumerStop
<1> QED
    BY <1>1, <1>2, <1>3, <1>4, <1>5, <1>6, <1>7, <1>8, <1>9, <1>10, <1>11,
       <1>12, <1>13, <1>14, <1>15, <1>16, <1>17, <1>18, <1>19, <1>20, <1>21,
       <1>22 DEF PlainNext, Next, Insert, Retrieve

(* The initial state is well typed.                                         *)
LEMMA InitTypeOK == Init => TypeOK
<1> SUFFICES ASSUME Init PROVE TypeOK
    OBVIOUS
<1>1. arg \in [Producers -> (Elements \cup {Garbage}) \X BOOLEAN]
    BY DEF Init, NoCall
<1>2. pc \in [Threads -> ProducerLocations \cup ConsumerLocations]
    BY DEF Init, ProducerLocations
<1>3. pc[Consumer] \in ConsumerLocations
    BY DEF Init, Threads, ConsumerLocations
<1>4. \A p \in Producers : pc[p] = "idle" /\ pc[p] \in ProducerLocations
    BY DEF Init, Threads, ProducerLocations
<1>5. calls \in 0..MaxInserts
    BY ConstantsAssumption DEF Init
<1>6. lst \in Seq(Elements) /\ accepted \in Seq(Elements)
    BY DEF Init
<1>7. taken \in Seq(Elements)
    BY DEF Init
<1> QED
    BY <1>1, <1>2, <1>3, <1>4, <1>5, <1>6, <1>7
    DEF Init, TypeOK, Results, Threads

(* The queue's variables keep their types, also in the plain retrieve()     *)
(* whose second unlock breaks the mutual exclusion.                         *)
THEOREM TypeCorrect == (Spec => []TypeOK) /\ (PlainSpec => []TypeOK)
<1>1. [Next]_vars => [PlainNext]_vars
    BY DEF PlainNext
<1>2. Spec => []TypeOK
    BY <1>1, InitTypeOK, TypeInduction, PTL DEF Spec
<1>3. PlainSpec => []TypeOK
    BY InitTypeOK, TypeInduction, PTL DEF PlainSpec
<1> QED
    BY <1>2, <1>3

-----------------------------------------------------------------------------
(* With the watchable overload the invariant is inductive.                  *)
LEMMA IInvInduction ==
    ASSUME Overload = "watchable", IInv, [Next]_vars
    PROVE  IInv'
<1>0. TypeOK'
    BY TypeInduction DEF IInv, PlainNext
<1> USE ConstantsAssumption, <1>0
    DEF IInv, TypeOK, LockOwner, RaisedMeansElement, ElementMeansRaised,
        TakesAnElement, CheckStillHolds, Threads, Critical, ProducerCritical,
        ConsumerCritical, ProducerLocations, ConsumerLocations, Goto, Lock,
        Unlock, Raise, Lower
<1>1. CASE UNCHANGED vars
    BY <1>1 DEF vars
<1>2. ASSUME NEW p \in Producers, InsertCall(p) PROVE IInv'
  <2>1. LockOwner'
      BY <1>2 DEF InsertCall
  <2>2. RaisedMeansElement'
      BY <1>2 DEF InsertCall
  <2>3. ElementMeansRaised'
      BY <1>2 DEF InsertCall
  <2>4. TakesAnElement'
      BY <1>2 DEF InsertCall
  <2>5. CheckStillHolds'
      BY <1>2 DEF InsertCall
  <2> QED
      BY <2>1, <2>2, <2>3, <2>4, <2>5
<1>3. ASSUME NEW p \in Producers, InsertLock(p) PROVE IInv'
    BY <1>3 DEF InsertLock
<1>4. ASSUME NEW p \in Producers, InsertRefuse(p) PROVE IInv'
  <2>1. LockOwner'
      BY <1>4 DEF InsertRefuse
  <2>2. RaisedMeansElement'
      BY <1>4 DEF InsertRefuse
  <2>3. ElementMeansRaised'
      BY <1>4 DEF InsertRefuse
  <2>4. TakesAnElement'
      BY <1>4 DEF InsertRefuse
  <2>5. CheckStillHolds'
      BY <1>4 DEF InsertRefuse
  <2> QED
      BY <2>1, <2>2, <2>3, <2>4, <2>5
<1>5. ASSUME NEW p \in Producers, InsertAdmit(p) PROVE IInv'
    BY <1>5 DEF InsertAdmit, Refused
<1>6. ASSUME NEW p \in Producers, InsertPush(p) PROVE IInv'
  <2>1. LockOwner'
      BY <1>6 DEF InsertPush
  <2>2. RaisedMeansElement'
    <3>1. pc[Consumer] # "lower" /\ pc'[Consumer] = pc[Consumer]
        BY <1>6 DEF InsertPush
    <3>2. lst' # <<>>
        BY <1>6 DEF InsertPush
    <3> QED
        BY <3>1, <3>2
  <2>3. ElementMeansRaised'
      BY <1>6 DEF InsertPush
  <2>4. TakesAnElement'
      BY <1>6 DEF InsertPush
  <2>5. CheckStillHolds'
      BY <1>6 DEF InsertPush
  <2> QED
      BY <2>1, <2>2, <2>3, <2>4, <2>5
<1>7. ASSUME NEW p \in Producers, InsertRaise(p) PROVE IInv'
    BY <1>7 DEF InsertRaise
<1>8. ASSUME NEW p \in Producers, InsertReturn(p) PROVE IInv'
  <2>1. LockOwner'
      BY <1>8 DEF InsertReturn
  <2>2. RaisedMeansElement'
      BY <1>8 DEF InsertReturn
  <2>3. ElementMeansRaised'
      BY <1>8 DEF InsertReturn
  <2>4. TakesAnElement'
      BY <1>8 DEF InsertReturn
  <2>5. CheckStillHolds'
      BY <1>8 DEF InsertReturn
  <2> QED
      BY <2>1, <2>2, <2>3, <2>4, <2>5
<1>9. CASE Close
    BY <1>9 DEF Close
<1>10. CASE Cancel
    BY <1>10 DEF Cancel
<1>11. CASE RetrieveCall
    BY <1>11 DEF RetrieveCall
<1>12. CASE RetrieveCheckLock
    BY <1>12 DEF RetrieveCheckLock
<1>13. CASE RetrieveEmpty
    BY <1>13 DEF RetrieveEmpty
<1>14. CASE RetrieveMustWait
    BY <1>14 DEF RetrieveMustWait
<1>16. CASE RetrieveGiveUp
    BY <1>16 DEF RetrieveGiveUp
<1>17. CASE RetrieveWoken
    BY <1>17 DEF RetrieveWoken
<1>18. CASE RetrieveTakeLock
    BY <1>18 DEF RetrieveTakeLock
<1>19. CASE RetrieveTake
    BY <1>19 DEF RetrieveTake
<1>20. CASE RetrieveLower
    BY <1>20 DEF RetrieveLower
<1>21. CASE RetrieveReturn
    BY <1>21 DEF RetrieveReturn
<1>22. CASE ConsumerStop
    BY <1>22 DEF ConsumerStop
<1> QED
    BY <1>1, <1>2, <1>3, <1>4, <1>5, <1>6, <1>7, <1>8, <1>9,
       <1>10, <1>11, <1>12, <1>13, <1>14, <1>16, <1>17, <1>18,
       <1>19, <1>20, <1>21, <1>22
    DEF Next, Insert, Retrieve

(* The invariant holds in every state the watchable overload can reach.     *)
LEMMA Invariance == ASSUME Overload = "watchable" PROVE Spec => []IInv
<1>1. ASSUME Init PROVE IInv
  <2>1. TypeOK
      BY <1>1, InitTypeOK
  <2> QED
      BY <1>1, <2>1, ConstantsAssumption
      DEF Init, IInv, LockOwner, RaisedMeansElement, ElementMeansRaised,
          TakesAnElement, CheckStillHolds, Critical, ProducerCritical,
          ConsumerCritical, Threads
<1>2. IInv /\ [Next]_vars => IInv'
    BY IInvInduction
<1> QED
    BY <1>1, <1>2, PTL DEF Spec

(* Two threads are never inside the critical sections of insert() and of    *)
(* the watchable retrieve() at once.                                        *)
THEOREM Exclusion ==
    ASSUME Overload = "watchable" PROVE Spec => []MutualExclusion
<1>1. IInv => MutualExclusion
    BY DEF IInv, LockOwner, MutualExclusion
<1> QED
    BY <1>1, Invariance, PTL

(* Whenever the mutex of the queue is free, the signal is raised exactly if *)
(* the list holds an element.                                               *)
THEOREM SignalIsExact ==
    ASSUME Overload = "watchable" PROVE Spec => []SignalMatchesList
<1>1. ASSUME IInv PROVE SignalMatchesList
  <2> SUFFICES ASSUME mutex = NoThread PROVE raised <=> lst # <<>>
      BY DEF SignalMatchesList
  <2>1. \A t \in Threads : ~Critical(t)
      BY <1>1, ConstantsAssumption DEF IInv, LockOwner
  <2>2. pc[Consumer] # "lower" /\ \A p \in Producers : pc[p] # "raise"
      BY <2>1, ConstantsAssumption
      DEF Critical, ConsumerCritical, ProducerCritical, Threads
  <2> QED
      BY <1>1, <2>2 DEF IInv, RaisedMeansElement, ElementMeansRaised
<1> QED
    BY <1>1, Invariance, PTL

(* The watchable retrieve() never takes an element from an empty list,      *)
(* although it decides to take one before it has the lock.                  *)
THEOREM TakesOnlyElements ==
    ASSUME Overload = "watchable" PROVE Spec => []NeverTakesFromEmpty
<1>1. IInv => NeverTakesFromEmpty
    BY DEF IInv, TakesAnElement, NeverTakesFromEmpty
<1> QED
    BY <1>1, Invariance, PTL

-----------------------------------------------------------------------------
(***************************************************************************)
(* Refinement                                                               *)
(***************************************************************************)

(* The insert() that is between its check and its push, per producer.       *)
Pending == [p \in Producers |-> IF pc[p] = "push" THEN <<arg[p]>> ELSE <<>>]

(* A step that neither starts nor ends such an insert, and leaves the list, *)
(* the closed flag and what was handed out alone, is a stuttering step.     *)
LEMMA Stuttering ==
    ASSUME TypeOK,
           UNCHANGED <<lst, isClosed, taken>>,
           \A p \in Producers : (pc'[p] = "push") <=> (pc[p] = "push"),
           \A p \in Producers : pc[p] = "push" => arg'[p] = arg[p]
    PROVE  UNCHANGED Abstract!vars
<1>1. Pending' = Pending
    BY DEF Pending
<1> QED
    BY <1>1 DEF Abstract!vars, Pending

(* The watchable queue is a first-in first-out queue with atomic            *)
(* operations: every step of insert() and retrieve() is a step of           *)
(* AbstractQueue or changes nothing there.                                  *)
THEOREM Refinement ==
    ASSUME Overload = "watchable" PROVE Spec => ImplementsAbstractQueue
<1>1. Init => Abstract!Init
    BY ConstantsAssumption DEF Init, Abstract!Init, Threads
<1>2. ASSUME IInv, IInv', [Next]_vars
      PROVE  [Abstract!Next]_(Abstract!vars)
  <2> USE ConstantsAssumption, <1>2
      DEF IInv, TypeOK, Threads, ProducerLocations, ConsumerLocations,
          Goto
  <2>1. CASE UNCHANGED vars
      BY <2>1, Stuttering DEF vars
  <2>2. ASSUME NEW p \in Producers, InsertCall(p)
        PROVE  UNCHANGED Abstract!vars
      BY <2>2, Stuttering DEF InsertCall
  <2>3. ASSUME NEW p \in Producers, InsertLock(p)
        PROVE  UNCHANGED Abstract!vars
      BY <2>3, Stuttering DEF InsertLock
  <2>4. ASSUME NEW p \in Producers, InsertRefuse(p)
        PROVE  UNCHANGED Abstract!vars
      BY <2>4, Stuttering DEF InsertRefuse
  <2>5. ASSUME NEW p \in Producers, InsertAdmit(p)
        PROVE  Abstract!Next
    <3>1. PICK e \in Elements, u \in BOOLEAN : arg[p] = <<e, u>>
        BY <2>5 DEF InsertAdmit
    <3>2. \A q \in Producers : pc[q] # "push"
        BY <2>5 DEF InsertAdmit, LockOwner, Critical, ProducerCritical
    <3>3. Pending' = [Pending EXCEPT ![p] = << <<e, u>> >>]
        BY <2>5, <3>1, <3>2 DEF InsertAdmit, Pending
    <3>4. Abstract!Admit(p, e, u)
        BY <2>5, <3>1, <3>2, <3>3
        DEF InsertAdmit, Refused, Abstract!Admit, Abstract!Holds, Pending
    <3> QED
        BY <3>4 DEF Abstract!Next
  <2>6. ASSUME NEW p \in Producers, InsertPush(p)
        PROVE  Abstract!Next
    <3>1. Pending' = [Pending EXCEPT ![p] = <<>>]
        BY <2>6 DEF InsertPush, Pending
    <3>2. Pending[p] = <<arg[p]>>
        BY <2>6 DEF InsertPush, Pending
    <3>3. arg[p][2] => ~Abstract!Holds(arg[p][1])
        BY <2>6 DEF InsertPush, CheckStillHolds, Abstract!Holds
    <3>4. Abstract!Push(p)
        BY <2>6, <3>1, <3>2, <3>3 DEF InsertPush, Abstract!Push, Pending
    <3> QED
        BY <3>4 DEF Abstract!Next
  <2>7. ASSUME NEW p \in Producers, InsertRaise(p)
        PROVE  UNCHANGED Abstract!vars
      BY <2>7, Stuttering DEF InsertRaise
  <2>8. ASSUME NEW p \in Producers, InsertReturn(p)
        PROVE  UNCHANGED Abstract!vars
      BY <2>8, Stuttering DEF InsertReturn
  <2>9. CASE Close
      BY <2>9 DEF Close, Abstract!Close, Abstract!Next
  <2>10. CASE RetrieveTake
    <3>1. lst # <<>>
        BY <2>10 DEF RetrieveTake, TakesAnElement
    <3>2. Pending' = Pending
        BY <2>10 DEF RetrieveTake, Pending
    <3>3. Abstract!Take
        BY <2>10, <3>1, <3>2 DEF RetrieveTake, Abstract!Take, Pending
    <3> QED
        BY <3>3 DEF Abstract!Next
  <2>11. CASE \/ RetrieveCall \/ RetrieveCheckLock \/ RetrieveEmpty
              \/ RetrieveMustWait \/ RetrieveGiveUp
              \/ RetrieveWoken \/ RetrieveTakeLock \/ RetrieveLower
              \/ RetrieveReturn \/ ConsumerStop \/ Cancel
    <3>1. UNCHANGED <<lst, isClosed, taken, arg>>
        BY <2>11
        DEF RetrieveCall, RetrieveCheckLock, RetrieveEmpty, RetrieveMustWait,
            RetrieveGiveUp, RetrieveWoken, RetrieveTakeLock,
            RetrieveLower, RetrieveReturn, ConsumerStop,
            Cancel
    <3>2. \A p \in Producers : pc'[p] = pc[p]
        BY <2>11
        DEF RetrieveCall, RetrieveCheckLock, RetrieveEmpty, RetrieveMustWait,
            RetrieveGiveUp, RetrieveWoken, RetrieveTakeLock,
            RetrieveLower, RetrieveReturn, ConsumerStop,
            Cancel
    <3> QED
        BY <3>1, <3>2, Stuttering
  <2> QED
      BY <2>1, <2>2, <2>3, <2>4, <2>5, <2>6, <2>7, <2>8, <2>9, <2>10, <2>11
      DEF Next, Insert, Retrieve
<1> QED
    BY <1>1, <1>2, Invariance, PTL
    DEF Spec, ImplementsAbstractQueue, Abstract!Spec
=============================================================================
