----------------------- MODULE ProtocolManagerProofs -----------------------
(***************************************************************************)
(* Proofs about the protocol manager, for every set of protocols,           *)
(* neighbours and data objects and every bound.                             *)
(*                                                                          *)
(* The steps of the protocol threads come first, then those of the kernel   *)
(* thread, then the theorems; the last part counts the send requests.       *)
(***************************************************************************)
EXTENDS ProtocolManager, SequenceTheorems, FiniteSetTheorems, TLAPS

(***************************************************************************)
(* The inductive invariant                                                  *)
(***************************************************************************)

(* What the kernel's event queue and the handler's list of calls hold: the  *)
(* requests name a data object, the others a protocol.                      *)
Requests == {"SEND", "SEND_ACTUAL"}

EventSet ==
    {e \in [type : EventTypes, prot : Protocols \cup {None},
            dObj : DObjs \cup {None}, peer : Peers \cup {None}] :
        /\ e.type \in Requests => e.dObj \in DObjs /\ e.peer \in Peers
        /\ e.type \notin Requests => e.dObj = None
        /\ e.type = "ADD" => e.prot \in Receivers
        /\ e.type = "DELETE" => e.prot \in Protocols}

CallSet ==
    {c \in [op : CallNames, prot : Protocols, dObj : DObjs \cup {None}] :
        IF c.op \in {"sendDataObject", "insert"}
        THEN c.prot \in Senders /\ c.dObj \in DObjs ELSE c.dObj = None}

Lives == {"none", "live", "deleted"}
Modes == {"IDLE", "LISTENING", "DONE", "GARBAGE"}

Objects ==
    [life : Lives, mode : Modes, isRegistered : BOOLEAN, q : Seq(DObjs), closed : BOOLEAN,
     peer : Peers \cup {None}, unregistered : Nat]

ThreadStates == {"STOPPED", "RUNNING", "CANCELLED", "CLEANUP", "JOINED"}

Threads ==
    [pc : Locations, state : ThreadStates,
     exitSignal : BOOLEAN, detached : BOOLEAN, connected : BOOLEAN,
     cur : DObjs \cup {None}, numerr : Nat,
     tries : 0..PROT_CONNECTION_ATTEMPTS]

Types ==
    /\ state \in {"RUNNING", "PREPARE_SHUTDOWN", "SHUTDOWN", "STOPPED"}
    /\ registry \subseteq Protocols
    /\ events \in Seq(EventSet)
    /\ todo \in Seq(CallSet)
    /\ killer \in {"none", "sleeping", "done"}
    /\ obj \in [Protocols -> Objects]
    /\ thr \in [Protocols -> Threads]
    /\ requested \in [DObjs -> 0..MaxRequests]
    /\ verdict \in [DObjs -> Nat]
    /\ downs \in 0..MaxDowns
    /\ bad \subseteq {"used after delete", "deleted under a live thread"}

(* A thread belongs to a client that was created, has a data object exactly *)
(* while it sends it, and stops after the last attempt to connect.          *)
Owned(p) ==
    /\ thr[p].pc # "none" => p \in Clients /\ obj[p].life # "none"
    /\ thr[p].detached => obj[p].life # "none"

Sends(p) == thr[p].pc = "sending" <=> thr[p].cur \in DObjs

Attempts(p) ==
    thr[p].tries = PROT_CONNECTION_ATTEMPTS =>
        /\ thr[p].pc \notin {"none", "begin", "connect", "take", "wait", "sending"}
        /\ thr[p].pc = "loop" => obj[p].mode \in {"DONE", "GARBAGE"}

ThreadInv == \A p \in Protocols : Owned(p) /\ Sends(p) /\ Attempts(p)

(* Whether p waits in q to be registered, and whether the handler still has *)
(* to delete or to kill p.                                                  *)
Announced(q, p) == \E i \in 1..Len(q) : q[i].type = "ADD" /\ q[i].prot = p
Condemned(calls, p) ==
    \E i \in 1..Len(calls) : calls[i].op \in {"delete", "kill"} /\ calls[i].prot = p

(* A protocol is announced once.                                            *)
AnnouncedOnce(q) ==
    \A i, j \in 1..Len(q) :
        q[i].type = "ADD" /\ q[j].type = "ADD" /\ q[i].prot = q[j].prot => i = j

(* Nobody is about to delete p: neither the handler nor its own thread.     *)
Safe(p) ==
    obj[p].life = "live" /\ ~thr[p].detached /\ ~Condemned(todo, p)

(* A protocol that is registered, or will be, is safe; one that is deleted, *)
(* or will be, is never registered again.                                   *)
RegistryInv ==
    /\ IsFiniteSet(registry)
    /\ \A p \in registry : Safe(p) /\ ~Announced(events, p)
    /\ \A p \in Protocols : Announced(events, p) => Safe(p)
    /\ AnnouncedOnce(events)

(* Calls and events are about protocols that were created.                  *)
NamesInv ==
    /\ \A i \in 1..Len(todo) : obj[todo[i].prot].life # "none"
    /\ \A i \in 1..Len(events) :
          events[i].type = "DELETE" => obj[events[i].prot].life # "none"

(* A protocol is deleted after the join with its thread.                    *)
JoinInv ==
    \A i \in 1..Len(todo) :
        todo[i].op = "delete" =>
            \/ i = 1 /\ ThreadGone(todo[1].prot)
            \/ i = 2 /\ todo[1].op = "join" /\ todo[1].prot = todo[2].prot

(* Until the timeout of the shutdown nothing is killed.                     *)
KillInv ==
    killer # "done" =>
        /\ \A p \in Protocols : ~thr[p].detached
        /\ \A i \in 1..Len(todo) : todo[i].op # "kill"
        /\ \A i \in 1..Len(events) : events[i].type # "SHUTDOWN_TIMEOUT"
        /\ NoDeleteUnderLiveThread

(* The killer is started by the shutdown, once.                             *)
KillerInv == killer # "none" => state \in {"SHUTDOWN", "STOPPED"}

IInv ==
    /\ Types /\ ThreadInv /\ RegistryInv /\ NamesInv /\ JoinInv
    /\ KillInv /\ KillerInv

-----------------------------------------------------------------------------
(***************************************************************************)
(* Queues                                                                   *)
(***************************************************************************)
LEMMA EventIn ==
    ASSUME NEW type, NEW p, NEW d, NEW t
    PROVE  /\ Event(type, p, d, t).type = type /\ Event(type, p, d, t).prot = p
           /\ Event(type, p, d, t).dObj = d /\ Event(type, p, d, t).peer = t
           /\ type \in Requests /\ d \in DObjs /\ t \in Peers
                => Event(type, None, d, t) \in EventSet
           /\ type = "ADD" /\ p \in Receivers => Event(type, p, None, None) \in EventSet
           /\ type = "DELETE" /\ p \in Protocols => Event(type, p, None, None) \in EventSet
           /\ type = "SHUTDOWN_TIMEOUT" => Event(type, None, None, None) \in EventSet
BY DEF Event, EventSet, Requests, EventTypes, Protocols, Clients

LEMMA CallIn ==
    ASSUME NEW op, NEW p, NEW d
    PROVE  /\ Call(op, p, d).op = op /\ Call(op, p, d).prot = p
           /\ Call(op, p, d).dObj = d
           /\ op \in {"sendDataObject", "insert"} /\ p \in Senders /\ d \in DObjs
                => Call(op, p, d) \in CallSet
           /\ op \in CallNames \ {"sendDataObject", "insert"} /\ p \in Protocols
                => Call(op, p, None) \in CallSet
BY DEF Call, CallSet, CallNames, Protocols, Clients

(* A set that is finite is put into a list of its members.                  *)
LEMMA CallsOf ==
    ASSUME NEW op \in {"shutdown", "kill"}, NEW S, IsFiniteSet(S), S \subseteq Protocols
    PROVE  /\ Calls(op, S) \in Seq(CallSet)
           /\ \A i \in 1..Len(Calls(op, S)) :
                 /\ Calls(op, S)[i].op = op /\ Calls(op, S)[i].prot \in S
                 /\ Calls(op, S)[i].dObj = None
<1> DEFINE order == SetToSeq(S)
           n == Cardinality(S)
           list == [i \in 1..n |-> Call(op, order[i], None)]
<1>1. n \in Nat /\ ExistsBijection(1..n, S)
    BY FS_CardinalityType
<1>2. PICK f \in [1..n -> S] : IsInjective(f)
    BY <1>1 DEF ExistsBijection, Bijection, Injection
<1>3. order \in [1..n -> S]
    BY <1>2 DEF SetToSeq
<1>4. Calls(op, S) = list
    BY DEF Calls
<1> HIDE DEF order, n
<1>5. \A i \in 1..n : order[i] \in S /\ order[i] \in Protocols
    BY <1>3
<1>6. \A i \in 1..n : list[i] = Call(op, order[i], None)
    OBVIOUS
<1>7. \A i \in 1..n : list[i] \in CallSet
    BY <1>5, <1>6, CallIn DEF CallNames
<1>8. list \in Seq(CallSet) /\ Len(list) = n
    BY <1>1, <1>7
<1>9. \A i \in 1..n : list[i].op = op /\ list[i].prot \in S /\ list[i].dObj = None
    BY <1>5, <1>6, CallIn
<1> QED
    BY <1>4, <1>8, <1>9

LEMMA Taken ==
    ASSUME NEW S, NEW s \in Seq(S), s # <<>>
    PROVE  /\ Head(s) \in S /\ Head(s) = s[1] /\ 1 \in 1..Len(s)
           /\ Tail(s) \in Seq(S) /\ Len(s) \in Nat
           /\ Len(Tail(s)) = Len(s) - 1 /\ Len(Tail(s)) \in Nat
           /\ \A i \in 1..Len(Tail(s)) : i + 1 \in 1..Len(s) /\ Tail(s)[i] = s[i + 1]
           /\ \A i \in 2..Len(s) : i - 1 \in 1..Len(Tail(s)) /\ s[i] = Tail(s)[i - 1]
OBVIOUS

LEMMA Added ==
    ASSUME NEW S, NEW s \in Seq(S), NEW x \in S
    PROVE  /\ Append(s, x) \in Seq(S) /\ Len(Append(s, x)) = Len(s) + 1
           /\ Len(s) \in Nat
           /\ \A i \in 1..Len(s) : Append(s, x)[i] = s[i]
           /\ Append(s, x)[Len(s) + 1] = x
OBVIOUS

(* The first call is replaced by another.                                   *)
LEMMA Replaced ==
    ASSUME NEW S, NEW s \in Seq(S), s # <<>>, NEW x \in S
    PROVE  /\ <<x>> \o Tail(s) \in Seq(S) /\ Len(<<x>> \o Tail(s)) = Len(s)
           /\ Len(s) \in Nat \ {0}
           /\ (<<x>> \o Tail(s))[1] = x
           /\ \A i \in 2..Len(s) : (<<x>> \o Tail(s))[i] = s[i]
<1>1. <<x>> \in Seq(S) /\ Len(<<x>>) = 1 /\ <<x>>[1] = x
    OBVIOUS
<1>2. /\ Tail(s) \in Seq(S) /\ Len(Tail(s)) = Len(s) - 1 /\ Len(s) \in Nat \ {0}
      /\ \A i \in 2..Len(s) : i - 1 \in 1..Len(Tail(s)) /\ s[i] = Tail(s)[i - 1]
    BY Taken, EmptySeq
<1> DEFINE r == <<x>> \o Tail(s)
<1>3. /\ r \in Seq(S) /\ Len(r) = 1 + (Len(s) - 1)
      /\ \A i \in 1..Len(s) : r[i] = IF i <= 1 THEN <<x>>[i] ELSE Tail(s)[i - 1]
    BY <1>1, <1>2, ConcatProperties
<1> HIDE DEF r
<1>4. /\ Len(r) = Len(s) /\ r[1] = x
      /\ \A i \in 2..Len(s) : r[i] = s[i]
    BY <1>1, <1>2, <1>3
<1> QED
    BY <1>2, <1>3, <1>4 DEF r

-----------------------------------------------------------------------------
(***************************************************************************)
(* Protocols and threads                                                    *)
(***************************************************************************)
ObjectsOK == obj \in [Protocols -> Objects]
ThreadsOK == thr \in [Protocols -> Threads]

(* The names, for the provers.                                              *)
LEMMA Names ==
    /\ {"begin", "loop", "connect", "take", "wait", "sending"} \subseteq Locations
    /\ {"done", "lower", "cleanup", "garbage", "unregister", "stop", "exited"}
          \subseteq Locations
    /\ {"STOPPED", "RUNNING", "CANCELLED", "CLEANUP", "JOINED"} \subseteq ThreadStates
    /\ {"IDLE", "LISTENING", "DONE", "GARBAGE"} \subseteq Modes
    /\ {"none", "live", "deleted"} \subseteq Lives
BY DEF Locations, ThreadStates, Modes, Lives

(* An assignment to the mode of p, with or without closing its queue.       *)
LEMMA ModePut ==
    ASSUME ObjectsOK, NEW p \in Protocols, NEW m \in Modes,
           \/ UNCHANGED obj
           \/ obj' = [obj EXCEPT ![p].mode = m]
           \/ obj' = [obj EXCEPT ![p].closed = TRUE, ![p].mode = m]
           \/ obj' = [obj EXCEPT ![p].mode = m, ![p].closed = TRUE]
    PROVE  /\ ObjectsOK' /\ \A r \in Protocols : r # p => obj'[r] = obj[r]
           /\ obj'[p].life = obj[p].life /\ obj'[p].q = obj[p].q
           /\ UNCHANGED obj \/ obj'[p].mode = m
<1>1. CASE UNCHANGED obj
    BY <1>1 DEF ObjectsOK
<1>2. CASE obj' = [obj EXCEPT ![p].mode = m]
  <2>1. ObjectsOK'
      BY <1>2 DEF ObjectsOK, Objects
  <2> QED
      BY <1>2, <2>1 DEF ObjectsOK, Objects
<1>3. CASE obj' = [obj EXCEPT ![p].closed = TRUE, ![p].mode = m]
  <2>0. [obj[p] EXCEPT !.closed = TRUE, !.mode = m] \in Objects
      BY DEF ObjectsOK, Objects
  <2>1. ObjectsOK'
      BY <1>3, <2>0 DEF ObjectsOK
  <2> QED
      BY <1>3, <2>1 DEF ObjectsOK, Objects
<1>4. CASE obj' = [obj EXCEPT ![p].mode = m, ![p].closed = TRUE]
  <2>1. ObjectsOK'
      BY <1>4 DEF ObjectsOK, Objects
  <2> QED
      BY <1>4, <2>1 DEF ObjectsOK, Objects
<1> QED
    BY <1>1, <1>2, <1>3, <1>4

(* A step of the thread of p leaves the other protocols and threads alone,  *)
(* and p alive.                                                             *)
Moves(p) ==
    /\ ObjectsOK' /\ ThreadsOK'
    /\ \A r \in Protocols : r # p => obj'[r] = obj[r] /\ thr'[r] = thr[r]
    /\ obj'[p].life = obj[p].life /\ thr'[p].detached = thr[p].detached
    /\ ~ThreadGone(p) /\ thr'[p].pc # "none"

(* It also leaves alone the data objects that p has to send.                *)
Holds(p) == obj'[p].q = obj[p].q /\ thr'[p].cur = thr[p].cur

LEMMA RunBeginMoves ==
    ASSUME Types, ThreadInv, NEW p \in Clients, runBegin(p)
    PROVE  Moves(p) /\ Holds(p) /\ Sends(p)' /\ Attempts(p)'
<1>0. p \in Protocols /\ ObjectsOK /\ ThreadsOK
    BY DEF Protocols, Types, ObjectsOK, ThreadsOK
<1>1. /\ thr' = [thr EXCEPT ![p].pc = "loop"]
      /\ obj' = [obj EXCEPT ![p].mode = "IDLE"]
      /\ thr[p].pc = "begin"
    BY DEF runBegin, At
<1>2. ThreadsOK'
    BY <1>0, <1>1, Names DEF ThreadsOK, Threads
<1>3. /\ ObjectsOK' /\ \A r \in Protocols : r # p => obj'[r] = obj[r]
      /\ obj'[p].life = obj[p].life /\ obj'[p].q = obj[p].q
      /\ UNCHANGED obj \/ obj'[p].mode = "IDLE"
    BY <1>0, <1>1, Names, ModePut
<1>4. Moves(p) /\ Holds(p)
    BY <1>0, <1>1, <1>2, <1>3 DEF Moves, Holds, ThreadsOK, Threads, ThreadGone
<1> QED
    BY <1>0, <1>1, <1>2, <1>4 DEF ThreadsOK, Threads, ThreadInv, Sends, Attempts

LEMMA ConnectSuccessMoves ==
    ASSUME Types, ThreadInv, NEW p \in Clients, connectSuccess(p)
    PROVE  Moves(p) /\ Holds(p) /\ Sends(p)' /\ Attempts(p)'
<1>0. p \in Protocols /\ ObjectsOK /\ ThreadsOK
    BY DEF Protocols, Types, ObjectsOK, ThreadsOK
<1>1. /\ thr' = [thr EXCEPT ![p].pc = "loop", ![p].connected = TRUE]
      /\ UNCHANGED obj
      /\ thr[p].pc = "connect"
    BY DEF connectSuccess, At
<1>2. ThreadsOK'
    BY <1>0, <1>1, Names DEF ThreadsOK, Threads
<1>3. /\ ObjectsOK' /\ \A r \in Protocols : r # p => obj'[r] = obj[r]
      /\ obj'[p].life = obj[p].life /\ obj'[p].q = obj[p].q
      /\ UNCHANGED obj \/ obj'[p].mode = "DONE"
    BY <1>0, <1>1, Names, ModePut
<1>4. Moves(p) /\ Holds(p)
    BY <1>0, <1>1, <1>2, <1>3 DEF Moves, Holds, ThreadsOK, Threads, ThreadGone
<1> QED
    BY <1>0, <1>1, <1>2, <1>4 DEF ThreadsOK, Threads, ThreadInv, Sends, Attempts

LEMMA WaitOverMoves ==
    ASSUME Types, ThreadInv, NEW p \in Clients, waitOver(p)
    PROVE  Moves(p) /\ Holds(p) /\ Sends(p)' /\ Attempts(p)'
<1>0. p \in Protocols /\ ObjectsOK /\ ThreadsOK
    BY DEF Protocols, Types, ObjectsOK, ThreadsOK
<1>1. /\ thr' = [thr EXCEPT ![p].pc = "loop", ![p].numerr = 0]
      /\ obj' = [obj EXCEPT ![p].mode = "DONE"]
      /\ thr[p].pc = "wait"
    BY DEF waitOver, At
<1>2. ThreadsOK'
    BY <1>0, <1>1, Names DEF ThreadsOK, Threads
<1>3. /\ ObjectsOK' /\ \A r \in Protocols : r # p => obj'[r] = obj[r]
      /\ obj'[p].life = obj[p].life /\ obj'[p].q = obj[p].q
      /\ UNCHANGED obj \/ obj'[p].mode = "DONE"
    BY <1>0, <1>1, Names, ModePut
<1>4. Moves(p) /\ Holds(p)
    BY <1>0, <1>1, <1>2, <1>3 DEF Moves, Holds, ThreadsOK, Threads, ThreadGone
<1> QED
    BY <1>0, <1>1, <1>2, <1>4 DEF ThreadsOK, Threads, ThreadInv, Sends, Attempts

LEMMA ReceivedMoves ==
    ASSUME Types, ThreadInv, NEW p \in Clients, received(p)
    PROVE  Moves(p) /\ Holds(p) /\ Sends(p)' /\ Attempts(p)'
<1>0. p \in Protocols /\ ObjectsOK /\ ThreadsOK
    BY DEF Protocols, Types, ObjectsOK, ThreadsOK
<1>1. /\ thr' = [thr EXCEPT ![p].pc = "loop", ![p].numerr = 0]
      /\ UNCHANGED obj
      /\ thr[p].pc = "wait"
    BY DEF received, At
<1>2. ThreadsOK'
    BY <1>0, <1>1, Names DEF ThreadsOK, Threads
<1>3. /\ ObjectsOK' /\ \A r \in Protocols : r # p => obj'[r] = obj[r]
      /\ obj'[p].life = obj[p].life /\ obj'[p].q = obj[p].q
      /\ UNCHANGED obj \/ obj'[p].mode = "DONE"
    BY <1>0, <1>1, Names, ModePut
<1>4. Moves(p) /\ Holds(p)
    BY <1>0, <1>1, <1>2, <1>3 DEF Moves, Holds, ThreadsOK, Threads, ThreadGone
<1> QED
    BY <1>0, <1>1, <1>2, <1>4 DEF ThreadsOK, Threads, ThreadInv, Sends, Attempts

LEMMA ReceiveClosedMoves ==
    ASSUME Types, ThreadInv, NEW p \in Clients, receiveClosed(p)
    PROVE  Moves(p) /\ Holds(p) /\ Sends(p)' /\ Attempts(p)'
<1>0. p \in Protocols /\ ObjectsOK /\ ThreadsOK
    BY DEF Protocols, Types, ObjectsOK, ThreadsOK
<1>1. /\ thr' = [thr EXCEPT ![p].pc = "loop", ![p].numerr = 0]
      /\ obj' = [obj EXCEPT ![p].closed = TRUE, ![p].mode = "DONE"]
      /\ thr[p].pc = "wait"
    BY DEF receiveClosed, At
<1>2. ThreadsOK'
    BY <1>0, <1>1, Names DEF ThreadsOK, Threads
<1>3. /\ ObjectsOK' /\ \A r \in Protocols : r # p => obj'[r] = obj[r]
      /\ obj'[p].life = obj[p].life /\ obj'[p].q = obj[p].q
      /\ UNCHANGED obj \/ obj'[p].mode = "DONE"
    BY <1>0, <1>1, Names, ModePut
<1>4. Moves(p) /\ Holds(p)
    BY <1>0, <1>1, <1>2, <1>3 DEF Moves, Holds, ThreadsOK, Threads, ThreadGone
<1> QED
    BY <1>0, <1>1, <1>2, <1>4 DEF ThreadsOK, Threads, ThreadInv, Sends, Attempts

LEMMA WaitErrorMoves ==
    ASSUME Types, ThreadInv, NEW p \in Clients, waitError(p)
    PROVE  Moves(p) /\ Holds(p) /\ Sends(p)' /\ Attempts(p)'
<1>0. p \in Protocols /\ ObjectsOK /\ ThreadsOK
    BY DEF Protocols, Types, ObjectsOK, ThreadsOK
<1>1. /\ thr' = [thr EXCEPT ![p].pc = "loop", ![p].numerr = @ + 1]
      /\ obj' = [obj EXCEPT ![p].closed = TRUE, ![p].mode = "DONE"] \/ UNCHANGED obj
      /\ thr[p].pc = "wait"
    BY DEF waitError, At
<1>2. ThreadsOK'
    BY <1>0, <1>1, Names DEF ThreadsOK, Threads
<1>3. /\ ObjectsOK' /\ \A r \in Protocols : r # p => obj'[r] = obj[r]
      /\ obj'[p].life = obj[p].life /\ obj'[p].q = obj[p].q
      /\ UNCHANGED obj \/ obj'[p].mode = "DONE"
    BY <1>0, <1>1, Names, ModePut
<1>4. Moves(p) /\ Holds(p)
    BY <1>0, <1>1, <1>2, <1>3 DEF Moves, Holds, ThreadsOK, Threads, ThreadGone
<1> QED
    BY <1>0, <1>1, <1>2, <1>4 DEF ThreadsOK, Threads, ThreadInv, Sends, Attempts

LEMMA RunEndMoves ==
    ASSUME Types, ThreadInv, NEW p \in Clients, runEnd(p)
    PROVE  Moves(p) /\ Holds(p) /\ Sends(p)' /\ Attempts(p)'
<1>0. p \in Protocols /\ ObjectsOK /\ ThreadsOK
    BY DEF Protocols, Types, ObjectsOK, ThreadsOK
<1>1. /\ thr' = [thr EXCEPT ![p].pc = "lower", ![p].connected = FALSE,
                            ![p].numerr = 0, ![p].tries = 0]
      /\ obj' = [obj EXCEPT ![p].mode = "DONE"]
      /\ thr[p].pc = "done"
    BY DEF runEnd, At
<1>2. ThreadsOK'
  <2>1. 0 \in 0..PROT_CONNECTION_ATTEMPTS
      BY ProtocolConstants
  <2>2. [thr[p] EXCEPT !.pc = "lower", !.connected = FALSE, !.numerr = 0, !.tries = 0]
           \in Threads
      BY <1>0, <2>1, Names DEF ThreadsOK, Threads
  <2> QED
      BY <1>0, <1>1, <2>2 DEF ThreadsOK
<1>3. /\ ObjectsOK' /\ \A r \in Protocols : r # p => obj'[r] = obj[r]
      /\ obj'[p].life = obj[p].life /\ obj'[p].q = obj[p].q
      /\ UNCHANGED obj \/ obj'[p].mode = "DONE"
    BY <1>0, <1>1, Names, ModePut
<1>4. Moves(p) /\ Holds(p)
    BY <1>0, <1>1, <1>2, <1>3 DEF Moves, Holds, ThreadsOK, Threads, ThreadGone
<1> QED
    BY <1>0, <1>1, <1>2, <1>4 DEF ThreadsOK, Threads, ThreadInv, Sends, Attempts

LEMMA LowerExitSignalMoves ==
    ASSUME Types, ThreadInv, NEW p \in Clients, lowerExitSignal(p)
    PROVE  Moves(p) /\ Holds(p) /\ Sends(p)' /\ Attempts(p)'
<1>0. p \in Protocols /\ ObjectsOK /\ ThreadsOK
    BY DEF Protocols, Types, ObjectsOK, ThreadsOK
<1>1. /\ thr' = [thr EXCEPT ![p].pc = "cleanup", ![p].exitSignal = FALSE]
      /\ UNCHANGED obj
      /\ thr[p].pc = "lower"
    BY DEF lowerExitSignal, At
<1>2. ThreadsOK'
    BY <1>0, <1>1, Names DEF ThreadsOK, Threads
<1>3. /\ ObjectsOK' /\ \A r \in Protocols : r # p => obj'[r] = obj[r]
      /\ obj'[p].life = obj[p].life /\ obj'[p].q = obj[p].q
      /\ UNCHANGED obj \/ obj'[p].mode = "DONE"
    BY <1>0, <1>1, Names, ModePut
<1>4. Moves(p) /\ Holds(p)
    BY <1>0, <1>1, <1>2, <1>3 DEF Moves, Holds, ThreadsOK, Threads, ThreadGone
<1> QED
    BY <1>0, <1>1, <1>2, <1>4 DEF ThreadsOK, Threads, ThreadInv, Sends, Attempts

LEMMA CleanupBeginMoves ==
    ASSUME Types, ThreadInv, NEW p \in Clients, cleanupBegin(p)
    PROVE  Moves(p) /\ Holds(p) /\ Sends(p)' /\ Attempts(p)'
<1>0. p \in Protocols /\ ObjectsOK /\ ThreadsOK
    BY DEF Protocols, Types, ObjectsOK, ThreadsOK
<1>1. /\ thr' = [thr EXCEPT ![p].pc = "garbage", ![p].state = "CLEANUP"]
      /\ UNCHANGED obj
      /\ thr[p].pc = "cleanup"
    BY DEF cleanupBegin, At
<1>2. ThreadsOK'
    BY <1>0, <1>1, Names DEF ThreadsOK, Threads
<1>3. /\ ObjectsOK' /\ \A r \in Protocols : r # p => obj'[r] = obj[r]
      /\ obj'[p].life = obj[p].life /\ obj'[p].q = obj[p].q
      /\ UNCHANGED obj \/ obj'[p].mode = "DONE"
    BY <1>0, <1>1, Names, ModePut
<1>4. Moves(p) /\ Holds(p)
    BY <1>0, <1>1, <1>2, <1>3 DEF Moves, Holds, ThreadsOK, Threads, ThreadGone
<1> QED
    BY <1>0, <1>1, <1>2, <1>4 DEF ThreadsOK, Threads, ThreadInv, Sends, Attempts

LEMMA CleanupEndMoves ==
    ASSUME Types, ThreadInv, NEW p \in Clients, cleanupEnd(p)
    PROVE  Moves(p) /\ Holds(p) /\ Sends(p)' /\ Attempts(p)'
<1>0. p \in Protocols /\ ObjectsOK /\ ThreadsOK
    BY DEF Protocols, Types, ObjectsOK, ThreadsOK
<1>1. /\ thr' = [thr EXCEPT ![p].pc = "exited", ![p].state = "STOPPED"]
      /\ UNCHANGED obj
      /\ thr[p].pc = "stop"
    BY DEF cleanupEnd, At
<1>2. ThreadsOK'
    BY <1>0, <1>1, Names DEF ThreadsOK, Threads
<1>3. /\ ObjectsOK' /\ \A r \in Protocols : r # p => obj'[r] = obj[r]
      /\ obj'[p].life = obj[p].life /\ obj'[p].q = obj[p].q
      /\ UNCHANGED obj \/ obj'[p].mode = "DONE"
    BY <1>0, <1>1, Names, ModePut
<1>4. Moves(p) /\ Holds(p)
    BY <1>0, <1>1, <1>2, <1>3 DEF Moves, Holds, ThreadsOK, Threads, ThreadGone
<1> QED
    BY <1>0, <1>1, <1>2, <1>4 DEF ThreadsOK, Threads, ThreadInv, Sends, Attempts

LEMMA RunLoopMoves ==
    ASSUME Types, ThreadInv, NEW p \in Clients, runLoop(p)
    PROVE  Moves(p) /\ Holds(p) /\ Sends(p)' /\ Attempts(p)'
<1>0. p \in Protocols /\ ObjectsOK /\ ThreadsOK
    BY DEF Protocols, Types, ObjectsOK, ThreadsOK
<1>1. PICK c \in {"done", "connect", "take", "wait"} :
         /\ thr' = [thr EXCEPT ![p].pc = c]
         /\ UNCHANGED obj
         /\ thr[p].pc = "loop"
         /\ obj[p].mode \in {"DONE", "GARBAGE"} => c = "done"
    BY DEF runLoop, At, ShouldStop
<1>2. c \in Locations
    BY Names
<1>3. ThreadsOK'
    BY <1>0, <1>1, <1>2 DEF ThreadsOK, Threads
<1>4. Moves(p) /\ Holds(p)
    BY <1>0, <1>1, <1>3 DEF Moves, Holds, ThreadsOK, ObjectsOK, Threads, ThreadGone
<1> QED
    BY <1>0, <1>1, <1>3, <1>4 DEF ThreadsOK, Threads, ThreadInv, Sends, Attempts

LEMMA ConnectFailureMoves ==
    ASSUME Types, ThreadInv, NEW p \in Clients, NEW fatal \in BOOLEAN,
           connectFailure(p, fatal)
    PROVE  Moves(p) /\ Holds(p) /\ Sends(p)' /\ Attempts(p)'
<1>0. p \in Protocols /\ ObjectsOK /\ ThreadsOK
    BY DEF Protocols, Types, ObjectsOK, ThreadsOK
<1> DEFINE tries == IF fatal THEN thr[p].tries ELSE thr[p].tries + 1
<1>1. /\ thr' = [thr EXCEPT ![p].pc = "loop", ![p].tries = tries]
      /\ \/ UNCHANGED obj
         \/ obj' = [obj EXCEPT ![p].mode = "DONE"]
         \/ obj' = [obj EXCEPT ![p].mode = "DONE", ![p].closed = TRUE]
      /\ thr[p].pc = "connect"
      /\ ~fatal /\ thr[p].tries + 1 = PROT_CONNECTION_ATTEMPTS =>
            obj' = [obj EXCEPT ![p].mode = "DONE", ![p].closed = TRUE]
    BY DEF connectFailure, At
<1>2. /\ thr[p].tries \in 0..PROT_CONNECTION_ATTEMPTS
      /\ PROT_CONNECTION_ATTEMPTS \in Nat
      /\ thr[p].tries # PROT_CONNECTION_ATTEMPTS
    BY <1>0, <1>1, ProtocolConstants DEF ThreadsOK, Threads, ThreadInv, Attempts
<1>3. /\ tries \in 0..PROT_CONNECTION_ATTEMPTS
      /\ tries = PROT_CONNECTION_ATTEMPTS =>
            ~fatal /\ thr[p].tries + 1 = PROT_CONNECTION_ATTEMPTS
    BY <1>2
<1> HIDE DEF tries
<1>4. ThreadsOK'
    BY <1>0, <1>1, <1>3, Names DEF ThreadsOK, Threads
<1>5. /\ ObjectsOK' /\ \A r \in Protocols : r # p => obj'[r] = obj[r]
      /\ obj'[p].life = obj[p].life /\ obj'[p].q = obj[p].q
    BY <1>0, <1>1, Names, ModePut
<1>6. tries = PROT_CONNECTION_ATTEMPTS => obj'[p].mode = "DONE"
    BY <1>0, <1>1, <1>3 DEF ObjectsOK, Objects
<1>7. Moves(p) /\ Holds(p)
    BY <1>0, <1>1, <1>4, <1>5 DEF Moves, Holds, ThreadsOK, Threads, ThreadGone
<1> QED
    BY <1>0, <1>1, <1>4, <1>6, <1>7 DEF ThreadsOK, Threads, ThreadInv, Sends, Attempts

LEMMA TakeElementMoves ==
    ASSUME Types, ThreadInv, NEW p \in Clients, takeElement(p)
    PROVE  /\ Moves(p) /\ Sends(p)' /\ Attempts(p)'
           /\ obj[p].q \in Seq(DObjs) /\ obj[p].q # <<>>
           /\ obj'[p].q = Tail(obj[p].q)
           /\ thr'[p].cur = Head(obj[p].q) /\ thr[p].cur \notin DObjs
<1>0. p \in Protocols /\ ObjectsOK /\ ThreadsOK
    BY DEF Protocols, Types, ObjectsOK, ThreadsOK
<1>1. /\ thr' = [thr EXCEPT ![p].pc = "sending", ![p].cur = Head(obj[p].q)]
      /\ obj' = [obj EXCEPT ![p].q = Tail(obj[p].q)]
      /\ thr[p].pc \in {"take", "wait"} /\ obj[p].q # <<>>
    BY DEF takeElement, At
<1>2. obj[p].q \in Seq(DObjs)
    BY <1>0 DEF ObjectsOK, Objects
<1>3. Head(obj[p].q) \in DObjs /\ Tail(obj[p].q) \in Seq(DObjs)
    BY <1>1, <1>2
<1>4. ThreadsOK'
    BY <1>0, <1>1, <1>3, Names DEF ThreadsOK, Threads
<1>5. ObjectsOK'
    BY <1>0, <1>1, <1>3 DEF ObjectsOK, Objects
<1>6. /\ obj'[p].q = Tail(obj[p].q) /\ obj'[p].life = obj[p].life
      /\ \A r \in Protocols : r # p => obj'[r] = obj[r]
    BY <1>0, <1>1 DEF ObjectsOK, Objects
<1>7. /\ thr'[p].pc = "sending" /\ thr'[p].cur = Head(obj[p].q)
      /\ thr'[p].detached = thr[p].detached /\ thr'[p].tries = thr[p].tries
      /\ \A r \in Protocols : r # p => thr'[r] = thr[r]
    BY <1>0, <1>1 DEF ThreadsOK, Threads
<1>8. thr[p].tries # PROT_CONNECTION_ATTEMPTS /\ thr[p].cur \notin DObjs
    BY <1>0, <1>1 DEF ThreadInv, Sends, Attempts
<1>9. Moves(p)
    BY <1>1, <1>4, <1>5, <1>6, <1>7 DEF Moves, ThreadGone
<1> QED
    BY <1>1, <1>2, <1>3, <1>6, <1>7, <1>8, <1>9 DEF Sends, Attempts

(* The verdict on the data object that p was sending.                       *)
LEMMA SendMoves ==
    ASSUME Types, ThreadInv, NEW p \in Clients,
           sendSuccess(p) \/ \E carryOn \in BOOLEAN : sendFailure(p, carryOn)
    PROVE  /\ Moves(p) /\ Sends(p)' /\ Attempts(p)'
           /\ obj'[p].q = obj[p].q
           /\ thr[p].cur \in DObjs /\ thr'[p].cur = None
           /\ verdict' = [verdict EXCEPT ![thr[p].cur] = @ + 1]
           /\ UNCHANGED <<kernelVars, requested, downs, bad>>
<1>0. p \in Protocols /\ ObjectsOK /\ ThreadsOK
    BY DEF Protocols, Types, ObjectsOK, ThreadsOK
<1>1. /\ thr' = [thr EXCEPT ![p].pc = "loop", ![p].cur = None, ![p].numerr = 0]
      /\ obj' = [obj EXCEPT ![p].closed = TRUE, ![p].mode = "DONE"] \/ UNCHANGED obj
      /\ thr[p].pc = "sending"
      /\ verdict' = [verdict EXCEPT ![thr[p].cur] = @ + 1]
      /\ UNCHANGED <<kernelVars, requested, downs, bad>>
    BY DEF sendSuccess, sendFailure, At, Verdict
<1>a. [thr[p] EXCEPT !.pc = "loop", !.cur = None, !.numerr = 0] \in Threads
  <2>1. thr[p] \in Threads /\ "loop" \in Locations /\ None \in DObjs \cup {None}
      BY <1>0, Names DEF ThreadsOK
  <2> QED
      BY <2>1 DEF Threads
<1>2. ThreadsOK'
    BY <1>0, <1>1, <1>a DEF ThreadsOK
<1>3. /\ ObjectsOK' /\ \A r \in Protocols : r # p => obj'[r] = obj[r]
      /\ obj'[p].life = obj[p].life /\ obj'[p].q = obj[p].q
    BY <1>0, <1>1, Names, ModePut
<1>4. /\ thr'[p].pc = "loop" /\ thr'[p].cur = None
      /\ thr'[p].detached = thr[p].detached /\ thr'[p].tries = thr[p].tries
      /\ \A r \in Protocols : r # p => thr'[r] = thr[r]
    BY <1>0, <1>1 DEF ThreadsOK, Threads
<1>5. thr[p].tries # PROT_CONNECTION_ATTEMPTS /\ thr[p].cur \in DObjs
    BY <1>0, <1>1 DEF ThreadInv, Sends, Attempts
<1>6. Moves(p)
    BY <1>1, <1>2, <1>3, <1>4 DEF Moves, ThreadGone
<1> QED
    BY <1>1, <1>3, <1>4, <1>5, <1>6, ProtocolConstants DEF Sends, Attempts

LEMMA Unregistered ==
    ASSUME NEW o \in Objects
    PROVE  [o EXCEPT !.isRegistered = FALSE, !.unregistered = @ + 1] \in Objects
<1>1. o.unregistered \in Nat /\ o.unregistered + 1 \in Nat
    BY DEF Objects
<1> DEFINE n == o.unregistered + 1
<1>2. n \in Nat
    BY <1>1
<1> HIDE DEF n
<1>3. [o EXCEPT !.isRegistered = FALSE, !.unregistered = n] \in Objects
    BY <1>2 DEF Objects
<1> QED
    BY <1>3 DEF n

LEMMA CleanupUnregisterMoves ==
    ASSUME Types, ThreadInv, NEW p \in Clients, cleanupUnregister(p)
    PROVE  Moves(p) /\ Holds(p) /\ Sends(p)' /\ Attempts(p)'
<1>0. p \in Protocols /\ ObjectsOK /\ ThreadsOK
    BY DEF Protocols, Types, ObjectsOK, ThreadsOK
<1>1. /\ thr' = [thr EXCEPT ![p].pc = "stop"]
      /\ obj' = [obj EXCEPT ![p].isRegistered = FALSE, ![p].unregistered = @ + 1]
      /\ thr[p].pc = "unregister"
    BY DEF cleanupUnregister, unregister, At
<1>2. ThreadsOK'
    BY <1>0, <1>1, Names DEF ThreadsOK, Threads
<1>3. [obj[p] EXCEPT !.isRegistered = FALSE, !.unregistered = @ + 1] \in Objects
    BY <1>0, Unregistered DEF ObjectsOK
<1>4. ObjectsOK'
    BY <1>0, <1>1, <1>3 DEF ObjectsOK
<1>5. /\ \A r \in Protocols : r # p => obj'[r] = obj[r]
      /\ obj'[p].life = obj[p].life /\ obj'[p].q = obj[p].q
    BY <1>0, <1>1 DEF ObjectsOK, Objects
<1>6. Moves(p) /\ Holds(p)
    BY <1>0, <1>1, <1>2, <1>4, <1>5 DEF Moves, Holds, ThreadsOK, Threads, ThreadGone
<1> QED
    BY <1>0, <1>1, <1>2, <1>6 DEF ThreadsOK, Threads, ThreadInv, Sends, Attempts

LEMMA CleanupGarbageMoves ==
    ASSUME Types, ThreadInv, NEW p \in Clients, cleanupGarbage(p), ~thr[p].detached
    PROVE  Moves(p) /\ Holds(p) /\ Sends(p)' /\ Attempts(p)'
<1>0. p \in Protocols /\ ObjectsOK /\ ThreadsOK
    BY DEF Protocols, Types, ObjectsOK, ThreadsOK
<1>1. PICK c \in {"unregister", "stop"} :
         /\ thr' = [thr EXCEPT ![p].pc = c]
         /\ obj' = [obj EXCEPT ![p].mode = "GARBAGE"]
         /\ thr[p].pc = "garbage"
    BY DEF cleanupGarbage, At
<1>2. c \in Locations
    BY Names
<1>3. ThreadsOK'
    BY <1>0, <1>1, <1>2 DEF ThreadsOK, Threads
<1>4. /\ ObjectsOK' /\ \A r \in Protocols : r # p => obj'[r] = obj[r]
      /\ obj'[p].life = obj[p].life /\ obj'[p].q = obj[p].q
    BY <1>0, <1>1, Names, ModePut
<1>5. Moves(p) /\ Holds(p)
    BY <1>0, <1>1, <1>3, <1>4 DEF Moves, Holds, ThreadsOK, Threads, ThreadGone
<1> QED
    BY <1>0, <1>1, <1>3, <1>5 DEF ThreadsOK, Threads, ThreadInv, Sends, Attempts

-----------------------------------------------------------------------------
(***************************************************************************)
(* The steps of the threads                                                 *)
(***************************************************************************)

(* The events, with one more at the end or with the first one taken.        *)
LEMMA MoreEvents ==
    ASSUME NEW q \in Seq(EventSet), NEW e \in EventSet, e.type # "ADD"
    PROVE  /\ \A p : Announced(Append(q, e), p) => Announced(q, p)
           /\ AnnouncedOnce(q) => AnnouncedOnce(Append(q, e))
<1> DEFINE r == Append(q, e)
<1>1. /\ Len(r) = Len(q) + 1 /\ Len(q) \in Nat
      /\ \A i \in 1..Len(q) : r[i] = q[i]
      /\ r[Len(q) + 1] = e
    BY Added
<1> HIDE DEF r
<1>2. \A i \in 1..Len(r) : r[i].type = "ADD" => i \in 1..Len(q) /\ r[i] = q[i]
    BY <1>1
<1>3. \A p : Announced(r, p) => Announced(q, p)
    BY <1>2 DEF Announced
<1>4. AnnouncedOnce(q) => AnnouncedOnce(r)
    BY <1>2 DEF AnnouncedOnce
<1> QED
    BY <1>3, <1>4 DEF r

LEMMA FewerEvents ==
    ASSUME NEW q \in Seq(EventSet), q # <<>>
    PROVE  /\ \A p : Announced(Tail(q), p) => Announced(q, p)
           /\ AnnouncedOnce(q) => AnnouncedOnce(Tail(q))
           /\ AnnouncedOnce(q) /\ Head(q).type = "ADD" =>
                 ~Announced(Tail(q), Head(q).prot)
<1> DEFINE r == Tail(q)
<1>1. /\ Head(q) = q[1] /\ 1 \in 1..Len(q)
      /\ \A i \in 1..Len(r) : i + 1 \in 1..Len(q) /\ r[i] = q[i + 1]
      /\ Len(r) \in Nat
    BY Taken
<1> HIDE DEF r
<1>2. \A p : Announced(r, p) => Announced(q, p)
    BY <1>1 DEF Announced
<1>3. AnnouncedOnce(q) => AnnouncedOnce(r)
  <2> SUFFICES ASSUME AnnouncedOnce(q), NEW i \in 1..Len(r), NEW j \in 1..Len(r),
                      r[i].type = "ADD", r[j].type = "ADD", r[i].prot = r[j].prot
               PROVE  i = j
      BY DEF AnnouncedOnce
  <2>1. i + 1 = j + 1
      BY <1>1 DEF AnnouncedOnce
  <2> QED
      BY <1>1, <2>1
<1>4. ASSUME AnnouncedOnce(q), Head(q).type = "ADD", Announced(r, Head(q).prot)
      PROVE  FALSE
  <2>1. PICK i \in 1..Len(r) : r[i].type = "ADD" /\ r[i].prot = Head(q).prot
      BY <1>4 DEF Announced
  <2>2. i + 1 = 1
      BY <1>1, <1>4, <2>1 DEF AnnouncedOnce
  <2> QED
      BY <1>1, <2>2
<1> QED
    BY <1>2, <1>3, <1>4 DEF r

(* What the elements of the two lists are.                                  *)
LEMMA Elements ==
    ASSUME Types
    PROVE  /\ \A i \in 1..Len(todo) : todo[i] \in CallSet /\ todo[i].prot \in Protocols
           /\ \A i \in 1..Len(events) :
                 /\ events[i] \in EventSet
                 /\ events[i].type = "DELETE" => events[i].prot \in Protocols
<1>1. /\ \A i \in 1..Len(todo) : todo[i] \in CallSet
      /\ \A i \in 1..Len(events) : events[i] \in EventSet
    BY ElementOfSeq DEF Types
<1>2. \A c \in CallSet : c.prot \in Protocols
    BY DEF CallSet
<1>3. \A e \in EventSet : e.type = "DELETE" => e.prot \in Protocols
    BY DEF EventSet
<1> QED
    BY <1>1, <1>2, <1>3

(* A step that adds nothing to the registry and takes nobody's safety.      *)
LEMMA RegistryKept ==
    ASSUME RegistryInv, UNCHANGED registry, registry \subseteq Protocols,
           \A p \in Protocols : Safe(p) => Safe(p)',
           \A p \in Protocols : Announced(events, p)' => Announced(events, p),
           AnnouncedOnce(events)'
    PROVE  RegistryInv'
BY DEF RegistryInv

LEMMA ThreadMoves ==
    ASSUME IInv, NEW p \in Clients, Moves(p), Sends(p)', Attempts(p)',
           UNCHANGED <<state, registry, todo, killer, requested, downs, bad>>,
           verdict' \in [DObjs -> Nat],
           UNCHANGED events \/ events' = Append(events, Event("DELETE", p, None, None))
    PROVE  IInv'
<1>0. p \in Protocols /\ Types
    BY DEF Protocols, IInv
<1>1. /\ events \in Seq(EventSet) /\ events' \in Seq(EventSet)
      /\ \A r : Announced(events', r) => Announced(events, r)
      /\ AnnouncedOnce(events) => AnnouncedOnce(events')
      /\ \A i \in 1..Len(events') :
            (i \in 1..Len(events) /\ events'[i] = events[i])
            \/ (events'[i].type = "DELETE" /\ events'[i].prot = p)
  <2>0. events \in Seq(EventSet)
      BY <1>0 DEF Types
  <2>1. CASE UNCHANGED events
      BY <2>0, <2>1
  <2>2. CASE events' = Append(events, Event("DELETE", p, None, None))
    <3>1. /\ Event("DELETE", p, None, None) \in EventSet
          /\ Event("DELETE", p, None, None).type = "DELETE"
          /\ Event("DELETE", p, None, None).prot = p
        BY <1>0, EventIn
    <3> DEFINE e == Event("DELETE", p, None, None)
    <3> HIDE DEF e
    <3>2. e \in EventSet /\ e.type = "DELETE" /\ e.prot = p /\ e.type # "ADD"
        BY <3>1 DEF e
    <3>3. events' = Append(events, e)
        BY <2>2 DEF e
    <3>4. /\ events' \in Seq(EventSet) /\ Len(events') = Len(events) + 1
          /\ Len(events) \in Nat
          /\ \A i \in 1..Len(events) : events'[i] = events[i]
          /\ events'[Len(events) + 1] = e
        BY <2>0, <3>2, <3>3, Added
    <3>5. /\ \A r : Announced(events', r) => Announced(events, r)
          /\ AnnouncedOnce(events) => AnnouncedOnce(events')
        BY <2>0, <3>2, <3>3, MoreEvents
    <3> QED
        BY <2>0, <3>2, <3>4, <3>5
  <2> QED
      BY <2>1, <2>2
<1>2. thr[p].pc # "none" /\ obj[p].life # "none"
    BY <1>0 DEF Moves, ThreadGone, IInv, ThreadInv, Owned
<1>3. \A r \in Protocols : /\ obj'[r].life = obj[r].life
                           /\ thr'[r].detached = thr[r].detached
    BY DEF Moves
<1>4. Types'
    BY <1>0, <1>1 DEF Types, Moves, ObjectsOK, ThreadsOK
<1>5. ThreadInv'
  <2>1. ASSUME NEW r \in Protocols
        PROVE  Owned(r)' /\ Sends(r)' /\ Attempts(r)'
    <3>1. CASE r = p
        BY <1>2, <3>1 DEF Moves, Owned
    <3>2. CASE r # p
        BY <3>2 DEF Moves, Owned, Sends, Attempts, IInv, ThreadInv
    <3> QED
        BY <3>1, <3>2
  <2> QED
      BY <2>1 DEF ThreadInv
<1>6. RegistryInv'
  <2>1. \A r \in Protocols : Safe(r) => Safe(r)'
      BY <1>3 DEF Safe
  <2>2. /\ RegistryInv /\ AnnouncedOnce(events)' /\ registry \subseteq Protocols
        /\ \A r \in Protocols : Announced(events, r)' => Announced(events, r)
      BY <1>0, <1>1 DEF IInv, RegistryInv, Types
  <2> QED
      BY <2>1, <2>2, RegistryKept
<1>7. NamesInv'
    BY <1>0, <1>1, <1>2, <1>3, Elements DEF IInv, NamesInv
<1>8. JoinInv'
  <2>1. \A i \in 1..Len(todo) : todo[i].prot \in Protocols
      BY <1>0, Elements
  <2>2. 1 \in 1..Len(todo) /\ ThreadGone(todo[1].prot) => ThreadGone(todo[1].prot)'
    <3> SUFFICES ASSUME 1 \in 1..Len(todo), ThreadGone(todo[1].prot)
                 PROVE  ThreadGone(todo[1].prot)'
        OBVIOUS
    <3>1. todo[1].prot # p /\ todo[1].prot \in Protocols
        BY <2>1 DEF Moves
    <3>2. thr'[todo[1].prot] = thr[todo[1].prot]
        BY <3>1 DEF Moves
    <3> QED
        BY <3>2 DEF ThreadGone
  <2> QED
      BY <2>2 DEF IInv, JoinInv
<1>9. KillInv'
    BY <1>1, <1>3 DEF IInv, KillInv, NoDeleteUnderLiveThread
<1>10. KillerInv'
    BY DEF IInv, KillerInv
<1> QED
    BY <1>4, <1>5, <1>6, <1>7, <1>8, <1>9, <1>10 DEF IInv

(* The thread of p moves on; the request it handles, if any, is the one it  *)
(* takes from its queue or the one it gives a verdict on.                   *)
Sent(p) == sendSuccess(p) \/ \E carryOn \in BOOLEAN : sendFailure(p, carryOn)

Runs(p) ==
    /\ Moves(p) /\ Sends(p)' /\ Attempts(p)'
    /\ UNCHANGED <<state, registry, todo, killer, requested, downs, bad>>
    /\ verdict' \in [DObjs -> Nat]
    /\ UNCHANGED events \/ events' = Append(events, Event("DELETE", p, None, None))
    /\ takeElement(p) \/ Sent(p) \/ (Holds(p) /\ UNCHANGED verdict)

LEMMA ThreadRuns ==
    ASSUME IInv, NEW p \in Clients, Thread(p),
           ~(thr[p].pc = "garbage" /\ thr[p].detached)
    PROVE  Runs(p)
<1>0. Types /\ ThreadInv /\ verdict \in [DObjs -> Nat]
    BY DEF IInv, Types
<1> DEFINE quiet == UNCHANGED <<kernelVars, historyVars>>
<1>1. ASSUME quiet
      PROVE  /\ UNCHANGED <<state, registry, events, todo, killer, requested, downs, bad>>
             /\ UNCHANGED verdict /\ verdict' \in [DObjs -> Nat]
    BY <1>0, <1>1 DEF kernelVars, historyVars
<1>2. CASE runBegin(p)
  <2>1. quiet
      BY <1>2 DEF runBegin
  <2> QED
      BY <1>0, <1>1, <1>2, <2>1, RunBeginMoves DEF Runs
<1>3. CASE runLoop(p)
  <2>1. quiet
      BY <1>3 DEF runLoop
  <2> QED
      BY <1>0, <1>1, <1>3, <2>1, RunLoopMoves DEF Runs
<1>4. CASE connectSuccess(p)
  <2>1. quiet
      BY <1>4 DEF connectSuccess
  <2> QED
      BY <1>0, <1>1, <1>4, <2>1, ConnectSuccessMoves DEF Runs
<1>5. CASE \E fatal \in BOOLEAN : connectFailure(p, fatal)
  <2>1. quiet
      BY <1>5 DEF connectFailure
  <2> QED
      BY <1>0, <1>1, <1>5, <2>1, ConnectFailureMoves DEF Runs
<1>6. CASE takeElement(p)
  <2>1. quiet
      BY <1>6 DEF takeElement
  <2> QED
      BY <1>0, <1>1, <1>6, <2>1, TakeElementMoves DEF Runs
<1>7. CASE Sent(p)
  <2>1. /\ Moves(p) /\ Sends(p)' /\ Attempts(p)' /\ thr[p].cur \in DObjs
        /\ verdict' = [verdict EXCEPT ![thr[p].cur] = @ + 1]
        /\ UNCHANGED <<kernelVars, requested, downs, bad>>
      BY <1>0, <1>7, SendMoves DEF Sent
  <2>2. verdict' \in [DObjs -> Nat]
      BY <1>0, <2>1
  <2> QED
      BY <2>1, <1>7, <2>2 DEF kernelVars, Runs, Sent
<1>8. CASE waitOver(p)
  <2>1. quiet
      BY <1>8 DEF waitOver
  <2> QED
      BY <1>0, <1>1, <1>8, <2>1, WaitOverMoves DEF Runs
<1>9. CASE received(p)
  <2>1. quiet
      BY <1>9 DEF received
  <2> QED
      BY <1>0, <1>1, <1>9, <2>1, ReceivedMoves DEF Runs
<1>10. CASE receiveClosed(p)
  <2>1. quiet
      BY <1>10 DEF receiveClosed
  <2> QED
      BY <1>0, <1>1, <1>10, <2>1, ReceiveClosedMoves DEF Runs
<1>11. CASE waitError(p)
  <2>1. quiet
      BY <1>11 DEF waitError
  <2> QED
      BY <1>0, <1>1, <1>11, <2>1, WaitErrorMoves DEF Runs
<1>12. CASE runEnd(p)
  <2>1. quiet
      BY <1>12 DEF runEnd
  <2> QED
      BY <1>0, <1>1, <1>12, <2>1, RunEndMoves DEF Runs
<1>13. CASE lowerExitSignal(p)
  <2>1. quiet
      BY <1>13 DEF lowerExitSignal
  <2> QED
      BY <1>0, <1>1, <1>13, <2>1, LowerExitSignalMoves DEF Runs
<1>14. CASE cleanupBegin(p)
  <2>1. quiet
      BY <1>14 DEF cleanupBegin
  <2> QED
      BY <1>0, <1>1, <1>14, <2>1, CleanupBeginMoves DEF Runs
<1>15. CASE cleanupGarbage(p)
  <2>1. /\ thr[p].pc = "garbage" /\ UNCHANGED <<kernelVars, requested, downs>>
        /\ ~thr[p].detached => UNCHANGED <<verdict, bad>>
      BY <1>15 DEF cleanupGarbage, At
  <2>2. ~thr[p].detached /\ quiet
      BY <2>1 DEF historyVars
  <2> QED
      BY <1>0, <1>1, <1>15, <2>2, CleanupGarbageMoves DEF Runs
<1>16. CASE cleanupUnregister(p)
  <2>1. /\ UNCHANGED <<state, registry, todo, killer, requested, downs, bad>>
        /\ UNCHANGED verdict
        /\ events' = Append(events, Event("DELETE", p, None, None))
      BY <1>16 DEF cleanupUnregister, unregister, addEvent, historyVars
  <2> QED
      BY <1>0, <1>16, <2>1, CleanupUnregisterMoves DEF Runs
<1>17. CASE cleanupEnd(p)
  <2>1. quiet
      BY <1>17 DEF cleanupEnd
  <2> QED
      BY <1>0, <1>1, <1>17, <2>1, CleanupEndMoves DEF Runs
<1> QED
    BY <1>2, <1>3, <1>4, <1>5, <1>6, <1>7, <1>8, <1>9, <1>10, <1>11, <1>12, <1>13,
       <1>14, <1>15, <1>16, <1>17 DEF Thread, Sent

LEMMA ThreadSteps ==
    ASSUME IInv, NEW p \in Clients, Thread(p),
           ~(thr[p].pc = "garbage" /\ thr[p].detached)
    PROVE  IInv'
<1>1. Runs(p)
    BY ThreadRuns
<1> QED
    BY <1>1, ThreadMoves DEF Runs

-----------------------------------------------------------------------------
(***************************************************************************)
(* The steps of the kernel thread                                           *)
(***************************************************************************)

(* A step after which the handler deletes and kills nobody it did not have  *)
(* to kill before, and one that announces nobody.                           *)
QuietCalls ==
    /\ todo' \in Seq(CallSet)
    /\ \A i \in 1..Len(todo') :
          /\ todo'[i].op # "delete" /\ obj'[todo'[i].prot].life # "none"
          /\ todo'[i].op = "kill" =>
                \E j \in 1..Len(todo) : todo[j].op = "kill" /\ todo[j].prot = todo'[i].prot

QuietEvents ==
    /\ events' \in Seq(EventSet)
    /\ AnnouncedOnce(events) => AnnouncedOnce(events')
    /\ \A p : Announced(events', p) => Announced(events, p)
    /\ \A i \in 1..Len(events') :
          /\ events'[i].type = "DELETE" => obj'[events'[i].prot].life # "none"
          /\ events'[i].type = "SHUTDOWN_TIMEOUT" =>
                \E j \in 1..Len(events) : events[j].type = "SHUTDOWN_TIMEOUT"

(* Protocols stay created, and threads attached.                            *)
Created ==
    \A p \in Protocols : /\ obj[p].life # "none" => obj'[p].life # "none"
                         /\ thr'[p].detached = thr[p].detached

LEMMA NoCalls ==
    ASSUME todo = <<>>, UNCHANGED todo
    PROVE  QuietCalls
BY DEF QuietCalls

LEMMA CallReturned ==
    ASSUME IInv, todo # <<>>, Head(todo).op # "join", todo' = Tail(todo),
           \A p \in Protocols : obj[p].life # "none" => obj'[p].life # "none"
    PROVE  QuietCalls
<1>1. /\ Head(todo) = todo[1] /\ Tail(todo) \in Seq(CallSet) /\ Len(Tail(todo)) \in Nat
      /\ \A i \in 1..Len(Tail(todo)) :
            i + 1 \in 1..Len(todo) /\ Tail(todo)[i] = todo[i + 1]
    BY Taken DEF IInv, Types
<1>2. \A i \in 1..Len(todo) : todo[i].prot \in Protocols /\ obj[todo[i].prot].life # "none"
    BY Elements DEF IInv, NamesInv
<1>3. \A i \in 1..Len(Tail(todo)) : todo[i + 1].op # "delete"
    BY <1>1 DEF IInv, JoinInv
<1> QED
    BY <1>1, <1>2, <1>3 DEF QuietCalls

LEMMA CallDone ==
    ASSUME IInv, todo # <<>>, Head(todo).op # "join", todo' = Tail(todo), Created
    PROVE  QuietCalls
BY CallReturned DEF Created

LEMMA CallReplaced ==
    ASSUME IInv, todo # <<>>, Head(todo).op # "join", Created,
           NEW c \in CallSet, c.op \notin {"delete", "kill"}, c.prot = Head(todo).prot,
           todo' = <<c>> \o Tail(todo)
    PROVE  QuietCalls
<1>0. todo \in Seq(CallSet)
    BY DEF IInv, Types
<1>1. /\ todo' \in Seq(CallSet) /\ Len(todo') = Len(todo) /\ Len(todo) \in Nat \ {0}
      /\ todo'[1] = c /\ \A i \in 2..Len(todo) : todo'[i] = todo[i]
    BY <1>0, Replaced
<1>2. Head(todo) = todo[1]
    BY Taken DEF IInv, Types
<1>3. \A i \in 1..Len(todo) : todo[i].prot \in Protocols /\ obj[todo[i].prot].life # "none"
    BY Elements DEF IInv, NamesInv
<1>4. \A i \in 2..Len(todo) : todo[i].op # "delete"
    BY <1>1, <1>2 DEF IInv, JoinInv
<1>5. \A i \in 1..Len(todo) : i = 1 \/ i \in 2..Len(todo)
    BY <1>1
<1> QED
    BY <1>1, <1>2, <1>3, <1>4, <1>5 DEF QuietCalls, Created

LEMMA NoEvents ==
    ASSUME IInv, UNCHANGED events, Created
    PROVE  QuietEvents
BY Elements DEF IInv, Types, NamesInv, QuietEvents, Created

LEMMA EventTaken ==
    ASSUME IInv, events # <<>>, events' = Tail(events), Created
    PROVE  QuietEvents
<1>1. /\ events \in Seq(EventSet) /\ Tail(events) \in Seq(EventSet)
      /\ \A i \in 1..Len(Tail(events)) :
            i + 1 \in 1..Len(events) /\ Tail(events)[i] = events[i + 1]
    BY Taken DEF IInv, Types
<1>2. \A i \in 1..Len(events) : events[i].type = "DELETE" =>
         events[i].prot \in Protocols /\ obj[events[i].prot].life # "none"
    BY Elements DEF IInv, NamesInv
<1>3. /\ \A p : Announced(Tail(events), p) => Announced(events, p)
      /\ AnnouncedOnce(events) => AnnouncedOnce(Tail(events))
    BY <1>1, FewerEvents
<1> QED
    BY <1>1, <1>2, <1>3 DEF QuietEvents, Created

LEMMA EventAdded ==
    ASSUME IInv, Created, NEW e \in EventSet, events' = Append(events, e),
           e.type \notin {"ADD", "SHUTDOWN_TIMEOUT"},
           e.type = "DELETE" => obj'[e.prot].life # "none"
    PROVE  QuietEvents
<1>0. events \in Seq(EventSet)
    BY DEF IInv, Types
<1>1. /\ events' \in Seq(EventSet)
      /\ Len(events') = Len(events) + 1 /\ Len(events) \in Nat
      /\ \A i \in 1..Len(events) : events'[i] = events[i]
      /\ events'[Len(events) + 1] = e
    BY <1>0, Added
<1>2. \A i \in 1..Len(events) : events[i].type = "DELETE" =>
         events[i].prot \in Protocols /\ obj[events[i].prot].life # "none"
    BY Elements DEF IInv, NamesInv
<1>3. /\ \A p : Announced(events', p) => Announced(events, p)
      /\ AnnouncedOnce(events) => AnnouncedOnce(events')
    BY <1>0, <1>1, MoreEvents
<1>4. \A i \in 1..Len(events') : i \in 1..Len(events) \/ i = Len(events) + 1
    BY <1>1
<1> QED
    BY <1>1, <1>2, <1>3, <1>4 DEF QuietEvents, Created

(* What remains to be shown of a quiet step.                                *)
LEMMA KernelMoves ==
    ASSUME IInv, QuietCalls, QuietEvents, Created, Types', ThreadInv', RegistryInv',
           bad' \in {bad, bad \cup {"used after delete"}},
           killer' # "done" => killer # "done", KillerInv'
    PROVE  IInv'
<1>1. NamesInv'
    BY DEF NamesInv, QuietCalls, QuietEvents
<1>2. JoinInv'
    BY DEF JoinInv, QuietCalls
<1>3. KillInv'
  <2>1. NoDeleteUnderLiveThread => NoDeleteUnderLiveThread'
    <3>1. CASE bad' = bad
        BY <3>1 DEF NoDeleteUnderLiveThread
    <3>2. CASE bad' = bad \cup {"used after delete"}
        BY <3>2 DEF NoDeleteUnderLiveThread
    <3> QED
        BY <3>1, <3>2
  <2> QED
      BY <2>1 DEF IInv, KillInv, QuietCalls, QuietEvents, Created
<1> QED
    BY <1>1, <1>2, <1>3 DEF IInv

LEMMA StillCondemned ==
    ASSUME QuietCalls
    PROVE  \A p : Condemned(todo', p) => Condemned(todo, p)
BY DEF Condemned, QuietCalls

LEMMA StillSafe ==
    ASSUME IInv, QuietCalls, QuietEvents, Created, UNCHANGED registry,
           \A p \in Protocols : obj[p].life = "live" => obj'[p].life = "live"
    PROVE  RegistryInv'
<1>1. \A p \in Protocols : Condemned(todo', p) => Condemned(todo, p)
    BY StillCondemned
<1>2. \A p \in Protocols : Safe(p) => Safe(p)'
    BY <1>1 DEF Safe, Created
<1>3. /\ RegistryInv /\ AnnouncedOnce(events)' /\ registry \subseteq Protocols
      /\ \A p \in Protocols : Announced(events, p)' => Announced(events, p)
    BY DEF IInv, Types, RegistryInv, QuietEvents
<1> QED
    BY <1>2, <1>3, RegistryKept

(* Steps of the kernel thread that leave the protocols alone.               *)
LEMMA QuietStep ==
    ASSUME IInv, QuietCalls, QuietEvents, UNCHANGED <<registry, obj, thr>>,
           bad' \in {bad, bad \cup {"used after delete"}},
           killer' # "done" => killer # "done", KillerInv',
           state' \in {"RUNNING", "PREPARE_SHUTDOWN", "SHUTDOWN", "STOPPED"},
           killer' \in {"none", "sleeping", "done"},
           requested' \in [DObjs -> 0..MaxRequests], verdict' \in [DObjs -> Nat],
           downs' \in 0..MaxDowns
    PROVE  IInv'
<1>1. Created /\ \A p \in Protocols : obj[p].life = "live" => obj'[p].life = "live"
    BY DEF Created
<1>2. Types'
    BY DEF IInv, Types, QuietCalls, QuietEvents
<1>3. ThreadInv'
    BY DEF IInv, ThreadInv, Owned, Sends, Attempts
<1>4. RegistryInv'
    BY <1>1, StillSafe
<1> QED
    BY <1>1, <1>2, <1>3, <1>4, KernelMoves

(* The event at the head of the queue.                                      *)
LEMMA Delivered ==
    ASSUME IInv, NEW type, Deliver(type)
    PROVE  /\ todo = <<>> /\ bad = {} /\ events # <<>>
           /\ Head(events) \in EventSet /\ Head(events).type = type
           /\ Head(events) = events[1] /\ 1 \in 1..Len(events)
           /\ events \in Seq(EventSet)
<1>1. todo = <<>> /\ bad = {} /\ events # <<>> /\ Head(events).type = type
    BY DEF Deliver, KernelIdle
<1>2. events \in Seq(EventSet)
    BY DEF IInv, Types
<1> QED
    BY <1>1, <1>2, Taken

LEMMA CallMade ==
    ASSUME IInv, NEW op, NextCall(op)
    PROVE  /\ todo # <<>> /\ bad = {} /\ todo \in Seq(CallSet)
           /\ Head(todo) \in CallSet /\ Head(todo).op = op
           /\ Head(todo) = todo[1] /\ 1 \in 1..Len(todo)
           /\ Head(todo).prot \in Protocols /\ obj[Head(todo).prot].life # "none"
           /\ op \in {"sendDataObject", "insert"} =>
                 Head(todo).prot \in Senders /\ Head(todo).dObj \in DObjs
           /\ op \notin {"sendDataObject", "insert"} => Head(todo).dObj = None
<1>1. todo # <<>> /\ bad = {} /\ Head(todo).op = op
    BY DEF NextCall
<1>2. todo \in Seq(CallSet)
    BY DEF IInv, Types
<1>3. Head(todo) \in CallSet /\ Head(todo) = todo[1] /\ 1 \in 1..Len(todo)
    BY <1>1, <1>2, Taken
<1>4. obj[todo[1].prot].life # "none"
    BY <1>3 DEF IInv, NamesInv
<1> QED
    BY <1>1, <1>2, <1>3, <1>4 DEF CallSet

(* The request at the head of the queue.                                    *)
LEMMA RequestTaken ==
    ASSUME NEW e \in EventSet, e.type \in Requests
    PROVE  /\ e.dObj \in DObjs /\ e.peer \in Peers
           /\ [e EXCEPT !.type = "SEND_ACTUAL"] \in EventSet
           /\ [e EXCEPT !.type = "SEND_ACTUAL"].type = "SEND_ACTUAL"
           /\ [e EXCEPT !.type = "SEND_ACTUAL"].dObj = e.dObj
<1>1. e.dObj \in DObjs /\ e.peer \in Peers
    BY DEF EventSet
<1>2. [e EXCEPT !.type = "SEND_ACTUAL"] \in EventSet
    BY <1>1 DEF EventSet, EventTypes, Requests
<1> QED
    BY <1>1, <1>2 DEF EventSet

LEMMA OnSendDataObject ==
    ASSUME IInv, onSendDataObject
    PROVE  IInv'
<1>1. /\ todo = <<>> /\ events # <<>> /\ events \in Seq(EventSet)
      /\ Head(events) \in EventSet /\ Head(events).type = "SEND"
    BY Delivered DEF onSendDataObject
<1> DEFINE e == [Head(events) EXCEPT !.type = "SEND_ACTUAL"]
           rest == Tail(events)
<1>2. e \in EventSet /\ e.type = "SEND_ACTUAL"
    BY <1>1, RequestTaken DEF Requests
<1>3. /\ events' = Append(rest, e)
      /\ UNCHANGED <<state, registry, todo, killer, obj, thr, requested, verdict, downs, bad>>
    BY DEF onSendDataObject, historyVars
<1>4. /\ rest \in Seq(EventSet) /\ Len(rest) \in Nat
      /\ \A i \in 1..Len(rest) : i + 1 \in 1..Len(events) /\ rest[i] = events[i + 1]
    BY <1>1, Taken
<1>5. /\ \A p : Announced(rest, p) => Announced(events, p)
      /\ AnnouncedOnce(events) => AnnouncedOnce(rest)
    BY <1>1, FewerEvents
<1> HIDE DEF e, rest
<1>6. /\ events' \in Seq(EventSet) /\ Len(events') = Len(rest) + 1
      /\ \A i \in 1..Len(rest) : events'[i] = rest[i]
      /\ events'[Len(rest) + 1] = e
    BY <1>2, <1>3, <1>4, Added
<1>7. /\ \A p : Announced(events', p) => Announced(rest, p)
      /\ AnnouncedOnce(rest) => AnnouncedOnce(events')
    BY <1>2, <1>3, <1>4, MoreEvents
<1>8. \A i \in 1..Len(events') : i \in 1..Len(rest) \/ i = Len(rest) + 1
    BY <1>4, <1>6
<1>9. \A i \in 1..Len(events) : events[i].type = "DELETE" => obj[events[i].prot].life # "none"
    BY DEF IInv, NamesInv
<1>10. \A i \in 1..Len(events') :
          /\ events'[i].type = "DELETE" => obj'[events'[i].prot].life # "none"
          /\ events'[i].type = "SHUTDOWN_TIMEOUT" =>
                \E j \in 1..Len(events) : events[j].type = "SHUTDOWN_TIMEOUT"
  <2> SUFFICES ASSUME NEW i \in 1..Len(events')
               PROVE  /\ events'[i].type = "DELETE" => obj'[events'[i].prot].life # "none"
                      /\ events'[i].type = "SHUTDOWN_TIMEOUT" =>
                            \E j \in 1..Len(events) : events[j].type = "SHUTDOWN_TIMEOUT"
      OBVIOUS
  <2>1. CASE i \in 1..Len(rest)
    <3>1. i + 1 \in 1..Len(events) /\ events'[i] = events[i + 1]
        BY <1>4, <1>6, <2>1
    <3> QED
        BY <1>3, <1>9, <3>1
  <2>2. CASE i = Len(rest) + 1
      BY <1>2, <1>6, <2>2
  <2> QED
      BY <1>8, <2>1, <2>2
<1>11. QuietEvents /\ QuietCalls
    BY <1>1, <1>3, <1>5, <1>6, <1>7, <1>10, NoCalls DEF QuietEvents
<1> QED
    BY <1>3, <1>11, QuietStep DEF IInv, Types, KillerInv

LEMMA SendUnheard ==
    ASSUME IInv, sendUnheard
    PROVE  IInv'
<1>1. todo = <<>> /\ events # <<>>
    BY Delivered DEF sendUnheard
<1>2. /\ events' = Tail(events)
      /\ UNCHANGED <<state, registry, todo, killer, obj, thr, requested, verdict, downs, bad>>
    BY DEF sendUnheard, historyVars
<1>3. QuietEvents /\ QuietCalls
    BY <1>1, <1>2, EventTaken, NoCalls DEF Created
<1> QED
    BY <1>2, <1>3, QuietStep DEF IInv, Types, KillerInv

LEMMA SendFinds ==
    ASSUME IInv, SendFound
    PROVE  IInv'
<1>1. /\ todo = <<>> /\ events # <<>> /\ Head(events) \in EventSet
      /\ Head(events).type = "SEND_ACTUAL"
    BY Delivered DEF SendFound
<1>2. Head(events).dObj \in DObjs
    BY <1>1, RequestTaken DEF Requests
<1>3. PICK p \in registry \cap Senders :
         todo' = <<Call("sendDataObject", p, Head(events).dObj)>>
    BY DEF SendFound, Usable
<1>4. /\ events' = Tail(events)
      /\ UNCHANGED <<state, registry, killer, obj, thr, requested, verdict, downs, bad>>
    BY DEF SendFound, historyVars
<1>5. obj[p].life = "live"
    BY <1>3 DEF IInv, RegistryInv, Safe
<1> DEFINE c == Call("sendDataObject", p, Head(events).dObj)
<1>6. c \in CallSet /\ c.op = "sendDataObject" /\ c.prot = p
    BY <1>2, <1>3, CallIn
<1>7. todo' = <<c>>
    BY <1>3
<1> HIDE DEF c
<1>8. /\ todo' \in Seq(CallSet) /\ Len(todo') = 1 /\ todo'[1] = c
    BY <1>6, <1>7
<1>9. QuietCalls
    BY <1>4, <1>5, <1>6, <1>8 DEF QuietCalls
<1>10. QuietEvents
    BY <1>1, <1>4, EventTaken DEF Created
<1> QED
    BY <1>4, <1>9, <1>10, QuietStep DEF IInv, Types, KillerInv

(* A verdict keeps the type of the verdicts.                                *)
LEMMA VerdictGiven ==
    ASSUME IInv, NEW d \in DObjs, Verdict(d)
    PROVE  verdict' \in [DObjs -> Nat]
<1>1. verdict \in [DObjs -> Nat] /\ verdict' = [verdict EXCEPT ![d] = verdict[d] + 1]
    BY DEF IInv, Types, Verdict
<1> QED
    BY <1>1

LEMMA SendFails ==
    ASSUME IInv, SendImpossible
    PROVE  IInv'
<1>1. /\ todo = <<>> /\ events # <<>> /\ Head(events) \in EventSet
      /\ Head(events).type = "SEND_ACTUAL"
    BY Delivered DEF SendImpossible
<1>2. Head(events).dObj \in DObjs
    BY <1>1, RequestTaken DEF Requests
<1>3. /\ events' = Tail(events) /\ verdict' \in [DObjs -> Nat]
      /\ UNCHANGED <<state, registry, todo, killer, obj, thr, requested, downs, bad>>
    BY <1>2, VerdictGiven DEF SendImpossible
<1>4. QuietEvents /\ QuietCalls
    BY <1>1, <1>3, EventTaken, NoCalls DEF Created
<1> QED
    BY <1>3, <1>4, QuietStep DEF IInv, Types, KillerInv

LEMMA SendDataObject ==
    ASSUME IInv, sendDataObject
    PROVE  IInv'
<1>1. /\ todo # <<>> /\ Head(todo).op = "sendDataObject"
      /\ Head(todo).prot \in Senders /\ Head(todo).dObj \in DObjs
    BY CallMade DEF sendDataObject
<1>2. /\ UNCHANGED <<state, registry, events, killer, obj, thr, requested, downs, bad>>
      /\ \/ todo' = Tail(todo) /\ Verdict(Head(todo).dObj)
         \/ /\ todo' = <<Call("insert", Head(todo).prot, Head(todo).dObj)>> \o Tail(todo)
            /\ UNCHANGED verdict
    BY DEF sendDataObject
<1>3. Created /\ QuietEvents
    BY <1>2, NoEvents DEF Created
<1>4. verdict' \in [DObjs -> Nat]
    BY <1>1, <1>2, VerdictGiven DEF IInv, Types
<1>5. QuietCalls
  <2> DEFINE c == Call("insert", Head(todo).prot, Head(todo).dObj)
  <2>1. c \in CallSet /\ c.op = "insert" /\ c.prot = Head(todo).prot
      BY <1>1, CallIn
  <2>2. todo' = Tail(todo) \/ todo' = <<c>> \o Tail(todo)
      BY <1>2
  <2> HIDE DEF c
  <2> QED
      BY <1>1, <1>3, <2>1, <2>2, CallDone, CallReplaced
<1> QED
    BY <1>2, <1>3, <1>4, <1>5, QuietStep DEF IInv, Types, KillerInv

LEMMA TestRegistered ==
    ASSUME IInv, testRegistered
    PROVE  IInv'
<1>1. /\ todo # <<>> /\ Head(todo).op = "testRegistered" /\ Head(todo).prot \in Protocols
    BY CallMade DEF testRegistered
<1>2. /\ UNCHANGED <<state, registry, events, killer, obj, thr, requested, verdict,
                     downs, bad>>
      /\ \/ todo' = Tail(todo)
         \/ todo' = <<Call("unregister", Head(todo).prot, None)>> \o Tail(todo)
    BY DEF testRegistered, historyVars
<1>3. Created /\ QuietEvents
    BY <1>2, NoEvents DEF Created
<1>4. QuietCalls
  <2> DEFINE c == Call("unregister", Head(todo).prot, None)
  <2>1. c \in CallSet /\ c.op = "unregister" /\ c.prot = Head(todo).prot
      BY <1>1, CallIn DEF CallNames
  <2>2. todo' = Tail(todo) \/ todo' = <<c>> \o Tail(todo)
      BY <1>2
  <2> HIDE DEF c
  <2> QED
      BY <1>1, <1>3, <2>1, <2>2, CallDone, CallReplaced
<1> QED
    BY <1>2, <1>3, <1>4, QuietStep DEF IInv, Types, KillerInv

LEMMA CheckShutdown ==
    ASSUME IInv, checkShutdown
    PROVE  IInv'
<1>1. /\ todo # <<>> /\ Head(todo).op = "checkShutdown"
    BY CallMade DEF checkShutdown
<1>2. /\ UNCHANGED <<registry, events, killer, obj, thr, requested, verdict, downs, bad>>
      /\ UNCHANGED state \/ state' = "STOPPED"
      /\ todo' = Tail(todo)
    BY DEF checkShutdown, historyVars
<1>3. Created /\ QuietEvents
    BY <1>2, NoEvents DEF Created
<1>4. QuietCalls
    BY <1>1, <1>2, <1>3, CallDone
<1> QED
    BY <1>2, <1>3, <1>4, QuietStep DEF IInv, Types, KillerInv

(* The handlers that shut down some of the registered protocols.            *)
LEMMA ShutdownCalls ==
    ASSUME IInv, NEW S, S \subseteq registry, todo' = Calls("shutdown", S),
           UNCHANGED obj
    PROVE  QuietCalls
<1>1. IsFiniteSet(registry) /\ registry \subseteq Protocols
    BY DEF IInv, RegistryInv, Types
<1>2. IsFiniteSet(S) /\ S \subseteq Protocols
    BY <1>1, FS_Subset
<1>3. /\ todo' \in Seq(CallSet)
      /\ \A i \in 1..Len(todo') : todo'[i].op = "shutdown" /\ todo'[i].prot \in S
    BY <1>2, CallsOf
<1>4. \A p \in S : obj[p].life = "live"
    BY DEF IInv, RegistryInv, Safe
<1> QED
    BY <1>3, <1>4 DEF QuietCalls

LEMMA InterfaceDown ==
    ASSUME IInv, onLocalInterfaceDown \/ \E t \in Peers : onNeighborInterfaceDown(t)
    PROVE  IInv'
<1>1. /\ UNCHANGED <<state, registry, events, killer, obj, thr, requested, verdict, bad>>
      /\ downs' = downs + 1 /\ downs < MaxDowns
      /\ \E S \in SUBSET registry : todo' = Calls("shutdown", S)
    BY DEF onLocalInterfaceDown, onNeighborInterfaceDown
<1>2. QuietCalls
    BY <1>1, ShutdownCalls
<1>3. QuietEvents
    BY <1>1, NoEvents DEF Created
<1>4. downs' \in 0..MaxDowns
  <2>1. downs \in 0..MaxDowns /\ MaxDowns \in Nat
      BY ProtocolConstants DEF IInv, Types
  <2> QED
      BY <1>1, <2>1
<1> QED
    BY <1>1, <1>2, <1>3, <1>4, QuietStep DEF IInv, Types, KillerInv

LEMMA OnPrepareShutdown ==
    ASSUME IInv, onPrepareShutdown
    PROVE  IInv'
<1>1. /\ UNCHANGED <<registry, events, killer, obj, thr, requested, verdict, downs, bad>>
      /\ state = "RUNNING" /\ state' = "PREPARE_SHUTDOWN"
      /\ todo' = Calls("shutdown", registry \cap Servers)
    BY DEF onPrepareShutdown, historyVars
<1>2. QuietCalls
    BY <1>1, ShutdownCalls
<1>3. QuietEvents
    BY <1>1, NoEvents DEF Created
<1> QED
    BY <1>1, <1>2, <1>3, QuietStep DEF IInv, Types, KillerInv

LEMMA OnShutdown ==
    ASSUME IInv, onShutdown
    PROVE  IInv'
<1>1. /\ UNCHANGED <<registry, events, obj, thr, requested, verdict, downs, bad>>
      /\ state = "PREPARE_SHUTDOWN" /\ todo = <<>>
      /\ \/ state' = "STOPPED" /\ UNCHANGED <<todo, killer>>
         \/ /\ state' = "SHUTDOWN" /\ killer' = "sleeping"
            /\ todo' = Calls("shutdown", registry)
    BY DEF onShutdown, historyVars, KernelIdle
<1>2. QuietCalls
    BY <1>1, ShutdownCalls, NoCalls
<1>3. QuietEvents
    BY <1>1, NoEvents DEF Created
<1>4. killer = "none"
    BY <1>1 DEF IInv, KillerInv
<1> QED
    BY <1>1, <1>2, <1>3, <1>4, QuietStep DEF IInv, Types, KillerInv

(* Steps that only raise an event, whatever the kernel thread is doing.     *)
LEMMA RequestsSend ==
    ASSUME IInv, NEW d \in DObjs, NEW t \in Peers, RequestSend(d, t)
    PROVE  IInv'
<1>1. /\ requested[d] < MaxRequests /\ requested' = [requested EXCEPT ![d] = requested[d] + 1]
      /\ events' = Append(events, Event("SEND", None, d, t))
      /\ UNCHANGED <<state, registry, todo, killer, obj, thr, verdict, downs, bad>>
  <2>1. requested[d] \in 0..MaxRequests
      BY DEF IInv, Types
  <2> QED
      BY <2>1, ProtocolConstants DEF RequestSend, addEvent
<1> DEFINE e == Event("SEND", None, d, t)
<1>2. e \in EventSet /\ e.type = "SEND"
    BY EventIn DEF Requests
<1>3. events' = Append(events, e)
    BY <1>1
<1> HIDE DEF e
<1>4. QuietEvents
    BY <1>1, <1>2, <1>3, EventAdded DEF Created
<1>5. requested' \in [DObjs -> 0..MaxRequests]
  <2>1. /\ requested \in [DObjs -> 0..MaxRequests] /\ requested[d] \in 0..MaxRequests
        /\ MaxRequests \in Nat
      BY ProtocolConstants DEF IInv, Types
  <2>2. requested[d] + 1 \in 0..MaxRequests
      BY <1>1, <2>1
  <2> QED
      BY <1>1, <2>1, <2>2
<1>6. Types'
    BY <1>1, <1>4, <1>5 DEF IInv, Types, QuietEvents
<1>7. ThreadInv' /\ KillerInv'
    BY <1>1 DEF IInv, ThreadInv, Owned, Sends, Attempts, KillerInv
<1>8. RegistryInv'
    BY <1>1, <1>4 DEF IInv, RegistryInv, QuietEvents, Safe, Condemned
<1>9. NamesInv' /\ JoinInv' /\ KillInv'
    BY <1>1, <1>4 DEF IInv, NamesInv, JoinInv, ThreadGone, KillInv, QuietEvents,
       NoDeleteUnderLiveThread
<1> QED
    BY <1>6, <1>7, <1>8, <1>9 DEF IInv

LEMMA KillerExpires ==
    ASSUME IInv, killerExpires
    PROVE  IInv'
<1>1. /\ killer = "sleeping" /\ killer' = "done"
      /\ events' = Append(events, Event("SHUTDOWN_TIMEOUT", None, None, None))
      /\ UNCHANGED <<state, registry, todo, obj, thr, requested, verdict, downs, bad>>
    BY DEF killerExpires, addEvent, historyVars
<1> DEFINE e == Event("SHUTDOWN_TIMEOUT", None, None, None)
<1>2. e \in EventSet /\ e.type = "SHUTDOWN_TIMEOUT"
    BY EventIn
<1>3. events' = Append(events, e) /\ events \in Seq(EventSet)
    BY <1>1 DEF IInv, Types
<1> HIDE DEF e
<1>4. /\ events' \in Seq(EventSet)
      /\ Len(events') = Len(events) + 1 /\ Len(events) \in Nat
      /\ \A i \in 1..Len(events) : events'[i] = events[i]
      /\ events'[Len(events) + 1] = e
    BY <1>2, <1>3, Added
<1>5. /\ \A p : Announced(events', p) => Announced(events, p)
      /\ AnnouncedOnce(events) => AnnouncedOnce(events')
    BY <1>2, <1>3, MoreEvents
<1>6. \A i \in 1..Len(events') : events'[i].type = "DELETE" =>
         i \in 1..Len(events) /\ events'[i] = events[i]
    BY <1>2, <1>4
<1>7. Types'
    BY <1>1, <1>4 DEF IInv, Types
<1>8. ThreadInv' /\ KillerInv'
    BY <1>1 DEF IInv, ThreadInv, Owned, Sends, Attempts, KillerInv
<1>9. RegistryInv'
    BY <1>1, <1>5 DEF IInv, RegistryInv, Safe, Condemned
<1>10. NamesInv'
    BY <1>1, <1>6 DEF IInv, NamesInv
<1>11. JoinInv' /\ KillInv'
    BY <1>1 DEF IInv, JoinInv, ThreadGone, KillInv
<1> QED
    BY <1>7, <1>8, <1>9, <1>10, <1>11 DEF IInv

-----------------------------------------------------------------------------
(* New protocols                                                            *)

LEMMA NewObject ==
    ASSUME NEW t \in Peers
    PROVE  /\ [NoObject EXCEPT !.life = "live", !.peer = t, !.isRegistered = TRUE]
                 \in Objects
           /\ [NoObject EXCEPT !.life = "live", !.mode = "LISTENING",
                               !.isRegistered = TRUE] \in Objects
           /\ [NoObject EXCEPT !.life = "live", !.peer = t,
                               !.isRegistered = TRUE].life = "live"
           /\ [NoObject EXCEPT !.life = "live", !.mode = "LISTENING",
                               !.isRegistered = TRUE].life = "live"
           /\ [NoObject EXCEPT !.life = "live", !.peer = t,
                               !.isRegistered = TRUE].q = <<>>
           /\ [NoObject EXCEPT !.life = "live", !.mode = "LISTENING",
                               !.isRegistered = TRUE].q = <<>>
<1>1. <<>> \in Seq(DObjs)
    OBVIOUS
<1>2. NoObject \in Objects
    BY <1>1 DEF NoObject, Objects, Lives, Modes
<1> QED
    BY <1>1, <1>2, Names DEF NoObject, Objects

(* p is created: the others, and its thread if it has none, stay.           *)
LEMMA Creation ==
    ASSUME IInv, NEW p \in Protocols, obj[p].life = "none", NEW o \in Objects,
           o.life = "live", obj' = [obj EXCEPT ![p] = o],
           \/ UNCHANGED thr
           \/ /\ p \in Clients
              /\ thr' = [thr EXCEPT ![p].pc = "begin", ![p].state = "RUNNING",
                                    ![p].connected = TRUE]
    PROVE  /\ ObjectsOK' /\ ThreadsOK' /\ ThreadInv' /\ Created
           /\ \A r \in Protocols : r # p => obj'[r] = obj[r] /\ thr'[r] = thr[r]
           /\ obj'[p] = o /\ ~thr'[p].detached /\ thr[p].pc = "none"
           /\ thr'[p].cur = thr[p].cur
<1>1. /\ ObjectsOK /\ ThreadsOK /\ thr[p].pc = "none" /\ ~thr[p].detached
      /\ thr[p].tries # PROT_CONNECTION_ATTEMPTS /\ thr[p].cur \notin DObjs
    BY DEF IInv, Types, ObjectsOK, ThreadsOK, ThreadInv, Owned, Sends, Attempts
<1>2. /\ ObjectsOK' /\ obj'[p] = o /\ \A r \in Protocols : r # p => obj'[r] = obj[r]
    BY <1>1 DEF ObjectsOK
<1>3. /\ ThreadsOK' /\ \A r \in Protocols : r # p => thr'[r] = thr[r]
      /\ thr'[p].pc \in {"none", "begin"}
      /\ thr'[p].pc # "none" => p \in Clients
      /\ thr'[p].detached = thr[p].detached
      /\ thr'[p].tries = thr[p].tries /\ thr'[p].cur = thr[p].cur
  <2>1. CASE UNCHANGED thr
      BY <1>1, <2>1 DEF ThreadsOK
  <2>2. CASE /\ p \in Clients
             /\ thr' = [thr EXCEPT ![p].pc = "begin", ![p].state = "RUNNING",
                                   ![p].connected = TRUE]
    <3>1. [thr[p] EXCEPT !.pc = "begin", !.state = "RUNNING", !.connected = TRUE]
             \in Threads
      <4>1. thr[p] \in Threads /\ "begin" \in Locations /\ "RUNNING" \in ThreadStates
          BY <1>1, Names DEF ThreadsOK
      <4> QED
          BY <4>1 DEF Threads
    <3>2. ThreadsOK'
        BY <1>1, <2>2, <3>1 DEF ThreadsOK
    <3> QED
        BY <1>1, <2>2, <3>2 DEF ThreadsOK, Threads
  <2> QED
      BY <2>1, <2>2
<1>4. ThreadInv'
  <2>1. ASSUME NEW r \in Protocols
        PROVE  Owned(r)' /\ Sends(r)' /\ Attempts(r)'
    <3>1. CASE r = p
      <4>1. Owned(p)'
          BY <1>1, <1>2, <1>3 DEF Owned
      <4>2. Sends(p)' /\ Attempts(p)'
          BY <1>1, <1>3 DEF Sends, Attempts
      <4> QED
          BY <3>1, <4>1, <4>2
    <3>2. CASE r # p
        BY <1>2, <1>3, <3>2 DEF Owned, Sends, Attempts, IInv, ThreadInv
    <3> QED
        BY <3>1, <3>2
  <2> QED
      BY <2>1 DEF ThreadInv
<1>5. Created
    BY <1>1, <1>2, <1>3 DEF Created
<1> QED
    BY <1>1, <1>2, <1>3, <1>4, <1>5

LEMMA SendCreates ==
    ASSUME IInv, SendCreate
    PROVE  IInv'
<1>1. /\ todo = <<>> /\ events # <<>> /\ Head(events) \in EventSet
      /\ Head(events).type = "SEND_ACTUAL"
    BY Delivered DEF SendCreate
<1> DEFINE d == Head(events).dObj
           t == Head(events).peer
           o == [NoObject EXCEPT !.life = "live", !.peer = t, !.isRegistered = TRUE]
<1>2. d \in DObjs /\ t \in Peers
    BY <1>1, RequestTaken DEF Requests
<1>3. PICK p \in Senders :
         /\ obj[p].life = "none" /\ obj' = [obj EXCEPT ![p] = o]
         /\ registry' = registry \cup {p}
         /\ todo' = <<Call("sendDataObject", p, d)>>
    BY DEF SendCreate
<1>4. /\ events' = Tail(events)
      /\ UNCHANGED <<state, killer, thr, requested, verdict, downs, bad>>
    BY DEF SendCreate, historyVars
<1>5. o \in Objects /\ o.life = "live"
    BY <1>2, NewObject
<1> DEFINE c == Call("sendDataObject", p, d)
<1>6. c \in CallSet /\ c.op = "sendDataObject" /\ c.prot = p /\ p \in Protocols
    BY <1>2, <1>3, CallIn DEF Protocols, Clients
<1>7. todo' \in Seq(CallSet) /\ Len(todo') = 1 /\ todo'[1].op = "sendDataObject"
      /\ todo'[1].prot = p
  <2> HIDE DEF c
  <2>1. todo' = <<c>>
      BY <1>3 DEF c
  <2> QED
      BY <1>6, <2>1
<1> HIDE DEF c, o, d, t
<1>8. /\ ObjectsOK' /\ ThreadsOK' /\ ThreadInv' /\ Created
      /\ \A r \in Protocols : r # p => obj'[r] = obj[r] /\ thr'[r] = thr[r]
      /\ obj'[p] = o /\ ~thr'[p].detached
    BY <1>3, <1>4, <1>5, <1>6, Creation
<1>9. QuietCalls
    BY <1>5, <1>7, <1>8 DEF QuietCalls
<1>10. QuietEvents
    BY <1>1, <1>4, <1>8, EventTaken
<1>11. Types'
    BY <1>3, <1>4, <1>6, <1>7, <1>8, <1>10
       DEF IInv, Types, ObjectsOK, ThreadsOK, QuietEvents
<1>12. RegistryInv'
  <2>1. IsFiniteSet(registry')
      BY <1>3, FS_AddElement DEF IInv, RegistryInv
  <2>2. \A r \in Protocols : ~Condemned(todo', r)
      BY <1>7 DEF Condemned
  <2>3. \A r \in Protocols : Safe(r) => r # p /\ Safe(r)'
      BY <1>3, <1>8, <2>2 DEF Safe
  <2>4. Safe(p)' /\ ~Announced(events', p)
    <3>1. ~Announced(events, p)
        BY <1>3, <1>6 DEF IInv, RegistryInv, Safe
    <3> QED
        BY <1>5, <1>6, <1>8, <1>10, <2>2, <3>1 DEF Safe, QuietEvents
  <2>5. \A r \in registry : r \in Protocols
      BY DEF IInv, Types
  <2> QED
      BY <1>3, <1>10, <2>1, <2>3, <2>4, <2>5 DEF IInv, RegistryInv, QuietEvents
<1> QED
    BY <1>4, <1>8, <1>9, <1>10, <1>11, <1>12, KernelMoves DEF IInv, KillerInv

LEMMA OnLocalInterfaceUp ==
    ASSUME IInv, onLocalInterfaceUp
    PROVE  IInv'
<1> DEFINE o == [NoObject EXCEPT !.life = "live", !.mode = "LISTENING",
                                 !.isRegistered = TRUE]
<1>1. PICK p \in Servers :
         /\ obj[p].life = "none" /\ obj' = [obj EXCEPT ![p] = o]
         /\ registry' = registry \cup {p}
    BY DEF onLocalInterfaceUp
<1>2. /\ todo = <<>>
      /\ UNCHANGED <<state, events, todo, killer, thr, requested, verdict, downs, bad>>
    BY DEF onLocalInterfaceUp, KernelIdle, historyVars
<1>3. o \in Objects /\ o.life = "live" /\ p \in Protocols
  <2>1. <<>> \in Seq(DObjs)
      OBVIOUS
  <2>2. NoObject \in Objects
      BY <2>1 DEF NoObject, Objects, Lives, Modes
  <2> QED
      BY <1>1, <2>2, Names DEF Protocols, Objects
<1> HIDE DEF o
<1>4. /\ ObjectsOK' /\ ThreadsOK' /\ ThreadInv' /\ Created
      /\ \A r \in Protocols : r # p => obj'[r] = obj[r] /\ thr'[r] = thr[r]
      /\ obj'[p] = o /\ ~thr'[p].detached
    BY <1>1, <1>2, <1>3, Creation
<1>5. QuietCalls /\ QuietEvents
    BY <1>2, <1>4, NoCalls, NoEvents
<1>6. Types'
    BY <1>1, <1>2, <1>3, <1>4 DEF IInv, Types, ObjectsOK, ThreadsOK
<1>7. RegistryInv'
  <2>1. IsFiniteSet(registry')
      BY <1>1, FS_AddElement DEF IInv, RegistryInv
  <2>2. \A r \in Protocols : ~Condemned(todo', r)
      BY <1>2 DEF Condemned
  <2>3. \A r \in Protocols : Safe(r) => r # p /\ Safe(r)'
      BY <1>1, <1>4, <2>2 DEF Safe
  <2>4. Safe(p)' /\ ~Announced(events', p)
    <3>1. ~Announced(events, p)
        BY <1>1, <1>3 DEF IInv, RegistryInv, Safe
    <3> QED
        BY <1>2, <1>3, <1>4, <2>2, <3>1 DEF Safe
  <2>5. \A r \in registry : r \in Protocols
      BY DEF IInv, Types
  <2> QED
      BY <1>1, <1>2, <2>1, <2>3, <2>4, <2>5 DEF IInv, RegistryInv
<1> QED
    BY <1>2, <1>4, <1>5, <1>6, <1>7, KernelMoves DEF IInv, KillerInv

LEMMA AcceptClient ==
    ASSUME IInv, acceptClient
    PROVE  IInv'
<1>1. PICK p \in Receivers, t \in Peers :
         /\ obj[p].life = "none"
         /\ obj' = [obj EXCEPT ![p] = [NoObject EXCEPT !.life = "live", !.peer = t,
                                                       !.isRegistered = TRUE]]
         /\ thr' = [thr EXCEPT ![p].pc = "begin", ![p].state = "RUNNING",
                               ![p].connected = TRUE]
         /\ events' = Append(events, Event("ADD", p, None, None))
    BY DEF acceptClient, addEvent
<1>2. /\ todo = <<>>
      /\ UNCHANGED <<state, registry, todo, killer, requested, verdict, downs, bad>>
    BY DEF acceptClient, KernelIdle, historyVars
<1> DEFINE o == [NoObject EXCEPT !.life = "live", !.peer = t, !.isRegistered = TRUE]
           e == Event("ADD", p, None, None)
<1>3. o \in Objects /\ o.life = "live" /\ p \in Protocols /\ p \in Clients
    BY NewObject DEF Protocols, Clients
<1>4. e \in EventSet /\ e.type = "ADD" /\ e.prot = p /\ events' = Append(events, e)
    BY <1>1, EventIn
<1>5. obj' = [obj EXCEPT ![p] = o]
    BY <1>1
<1> HIDE DEF o, e
<1>6. /\ ObjectsOK' /\ ThreadsOK' /\ ThreadInv' /\ Created
      /\ \A r \in Protocols : r # p => obj'[r] = obj[r] /\ thr'[r] = thr[r]
      /\ obj'[p] = o /\ ~thr'[p].detached
    BY <1>1, <1>3, <1>5, Creation
<1>7. /\ events \in Seq(EventSet) /\ events' \in Seq(EventSet)
      /\ Len(events') = Len(events) + 1 /\ Len(events) \in Nat
      /\ \A i \in 1..Len(events) : events'[i] = events[i]
      /\ events'[Len(events) + 1] = e
  <2>1. events \in Seq(EventSet)
      BY DEF IInv, Types
  <2> QED
      BY <1>4, <2>1, Added
<1>8. \A i \in 1..Len(events') :
         (i \in 1..Len(events) /\ events'[i] = events[i])
         \/ (i = Len(events) + 1 /\ events'[i] = e)
    BY <1>7
<1>9. ~Announced(events, p)
    BY <1>1, <1>3 DEF IInv, RegistryInv, Safe
<1>10. /\ AnnouncedOnce(events')
       /\ \A r : Announced(events', r) => r = p \/ Announced(events, r)
  <2>1. AnnouncedOnce(events) /\ \A i \in 1..Len(events) :
           events[i].type = "ADD" => events[i].prot # p
      BY <1>9 DEF IInv, RegistryInv, Announced
  <2> QED
      BY <1>4, <1>8, <2>1 DEF AnnouncedOnce, Announced
<1>11. Types'
    BY <1>2, <1>6, <1>7 DEF IInv, Types, ObjectsOK, ThreadsOK
<1>12. RegistryInv'
  <2>2. \A r \in Protocols : ~Condemned(todo', r)
      BY <1>2 DEF Condemned
  <2>3. \A r \in Protocols : Safe(r) => r # p /\ Safe(r)'
      BY <1>1, <1>6, <2>2 DEF Safe
  <2>4. Safe(p)' /\ p \notin registry
      BY <1>1, <1>3, <1>6, <2>2 DEF Safe, IInv, RegistryInv
  <2>5. \A r \in registry : r \in Protocols
      BY DEF IInv, Types
  <2> QED
      BY <1>2, <1>10, <2>3, <2>4, <2>5 DEF IInv, RegistryInv
<1>13. NamesInv'
  <2>1. \A i \in 1..Len(events) : events[i].type = "DELETE" =>
           events[i].prot \in Protocols /\ obj[events[i].prot].life # "none"
      BY Elements DEF IInv, NamesInv
  <2> QED
      BY <1>2, <1>4, <1>6, <1>8, <2>1 DEF NamesInv, Created
<1>14. JoinInv' /\ KillerInv'
    BY <1>2 DEF JoinInv, IInv, KillerInv
<1>15. KillInv'
    BY <1>2, <1>4, <1>6, <1>8 DEF IInv, KillInv, Created, NoDeleteUnderLiveThread
<1> QED
    BY <1>6, <1>11, <1>12, <1>13, <1>14, <1>15 DEF IInv

-----------------------------------------------------------------------------
(* Calls of protocols                                                       *)

(* An assignment to the state of the thread of p, or to its exit signal,    *)
(* or its start.                                                            *)
LEMMA ThreadPut ==
    ASSUME ThreadsOK, NEW p \in Protocols,
           \/ UNCHANGED thr
           \/ thr' = [thr EXCEPT ![p].state = "JOINED"]
           \/ thr' = [thr EXCEPT ![p].state = "CANCELLED", ![p].exitSignal = TRUE]
           \/ thr' = [thr EXCEPT ![p].pc = "begin", ![p].state = "RUNNING"]
    PROVE  /\ ThreadsOK' /\ \A r \in Protocols : r # p => thr'[r] = thr[r]
           /\ thr'[p].detached = thr[p].detached /\ thr'[p].cur = thr[p].cur
           /\ thr'[p].tries = thr[p].tries
           /\ \/ thr'[p].pc = thr[p].pc
              \/ /\ thr'[p].pc = "begin"
                 /\ thr' = [thr EXCEPT ![p].pc = "begin", ![p].state = "RUNNING"]
<1>0. /\ thr[p] \in Threads /\ "begin" \in Locations
      /\ {"JOINED", "CANCELLED", "RUNNING"} \subseteq ThreadStates
    BY Names DEF ThreadsOK
<1>1. CASE UNCHANGED thr
    BY <1>1 DEF ThreadsOK
<1>2. CASE thr' = [thr EXCEPT ![p].state = "JOINED"]
  <2>1. [thr[p] EXCEPT !.state = "JOINED"] \in Threads
      BY <1>0 DEF Threads
  <2>2. ThreadsOK'
      BY <1>2, <2>1 DEF ThreadsOK
  <2> QED
      BY <1>2, <2>2 DEF ThreadsOK, Threads
<1>3. CASE thr' = [thr EXCEPT ![p].state = "CANCELLED", ![p].exitSignal = TRUE]
  <2>1. [thr[p] EXCEPT !.state = "CANCELLED", !.exitSignal = TRUE] \in Threads
      BY <1>0 DEF Threads
  <2>2. ThreadsOK'
      BY <1>3, <2>1 DEF ThreadsOK
  <2> QED
      BY <1>3, <2>2 DEF ThreadsOK, Threads
<1>4. CASE thr' = [thr EXCEPT ![p].pc = "begin", ![p].state = "RUNNING"]
  <2>1. [thr[p] EXCEPT !.pc = "begin", !.state = "RUNNING"] \in Threads
      BY <1>0 DEF Threads
  <2>2. ThreadsOK'
      BY <1>4, <2>1 DEF ThreadsOK
  <2> QED
      BY <1>4, <2>2 DEF ThreadsOK, Threads
<1> QED
    BY <1>1, <1>2, <1>3, <1>4

(* The call changed p only, and left it as much alive as it was.            *)
CallsOn(p) ==
    /\ ObjectsOK' /\ ThreadsOK'
    /\ \A r \in Protocols : r # p => obj'[r] = obj[r] /\ thr'[r] = thr[r]
    /\ obj'[p].life = obj[p].life /\ thr'[p].detached = thr[p].detached
    /\ Owned(p)' /\ Sends(p)' /\ Attempts(p)'

LEMMA ProtocolCalled ==
    ASSUME IInv, NEW p \in Protocols, CallsOn(p), todo # <<>>, Head(todo).op # "join",
           todo' = Tail(todo) \/ QuietCalls,
           UNCHANGED events \/ QuietEvents,
           UNCHANGED <<state, registry, killer, requested, downs, bad>>,
           verdict' \in [DObjs -> Nat]
    PROVE  IInv'
<1>1. /\ Created
      /\ \A r \in Protocols : obj[r].life = "live" => obj'[r].life = "live"
    BY DEF CallsOn, Created
<1>2. QuietCalls /\ QuietEvents
    BY <1>1, CallDone, NoEvents
<1>3. ThreadInv'
    BY DEF CallsOn, IInv, ThreadInv, Owned, Sends, Attempts
<1>4. Types'
    BY <1>2 DEF IInv, Types, CallsOn, ObjectsOK, ThreadsOK, QuietCalls, QuietEvents
<1>5. RegistryInv'
    BY <1>1, <1>2, StillSafe
<1> QED
    BY <1>1, <1>2, <1>3, <1>4, <1>5, KernelMoves DEF IInv, KillerInv

LEMMA InsertAndStart ==
    ASSUME IInv, insertAndStart
    PROVE  IInv'
<1>0. PICK p, d : p = Head(todo).prot /\ d = Head(todo).dObj
    OBVIOUS
<1>1. /\ todo # <<>> /\ Head(todo).op = "insert" /\ p \in Protocols
      /\ p \in Senders /\ d \in DObjs /\ obj[p].life # "none"
    BY <1>0, CallMade DEF insertAndStart
<1>2. /\ todo' = Tail(todo)
      /\ UNCHANGED <<state, registry, events, killer, requested, downs, bad>>
      /\ \/ Verdict(d) /\ UNCHANGED <<obj, thr>>
         \/ /\ obj' = [obj EXCEPT ![p].q = Append(obj[p].q, d)]
            /\ startTxRx(p) /\ UNCHANGED verdict
    BY <1>0 DEF insertAndStart
<1>3. ObjectsOK /\ ThreadsOK /\ Owned(p) /\ Sends(p) /\ Attempts(p) /\ p \in Clients
    BY <1>1 DEF IInv, Types, ObjectsOK, ThreadsOK, ThreadInv, Clients
<1>4. verdict' \in [DObjs -> Nat]
    BY <1>1, <1>2, VerdictGiven DEF IInv, Types
<1>5. CASE UNCHANGED <<obj, thr>>
  <2>1. CallsOn(p)
      BY <1>3, <1>5 DEF CallsOn, ObjectsOK, ThreadsOK, Owned, Sends, Attempts
  <2> QED
      BY <1>1, <1>2, <1>4, <2>1, ProtocolCalled
<1>6. CASE obj' = [obj EXCEPT ![p].q = Append(obj[p].q, d)] /\ startTxRx(p)
  <2>1. obj[p] \in Objects /\ Append(obj[p].q, d) \in Seq(DObjs)
      BY <1>1, <1>3 DEF ObjectsOK, Objects
  <2>2. [obj[p] EXCEPT !.q = Append(obj[p].q, d)] \in Objects
      BY <2>1 DEF Objects
  <2>3. ObjectsOK'
      BY <1>1, <1>3, <1>6, <2>2 DEF ObjectsOK
  <2>4. /\ \A r \in Protocols : r # p => obj'[r] = obj[r]
        /\ obj'[p].life = obj[p].life /\ obj'[p].mode = obj[p].mode
      BY <1>1, <1>3, <1>6 DEF ObjectsOK, Objects
  <2>5. \/ UNCHANGED thr
        \/ /\ thr[p].pc = "none"
           /\ thr' = [thr EXCEPT ![p].pc = "begin", ![p].state = "RUNNING"]
      BY <1>6 DEF startTxRx
  <2>6. /\ ThreadsOK' /\ \A r \in Protocols : r # p => thr'[r] = thr[r]
        /\ thr'[p].detached = thr[p].detached /\ thr'[p].cur = thr[p].cur
        /\ thr'[p].tries = thr[p].tries
        /\ \/ thr'[p].pc = thr[p].pc
           \/ thr'[p].pc = "begin"
      BY <1>1, <1>3, <2>5, ThreadPut
  <2>7. thr'[p].pc = thr[p].pc \/ (thr'[p].pc = "begin" /\ thr[p].pc = "none")
      BY <2>5, <2>6
  <2>8. Owned(p)'
      BY <1>1, <1>3, <2>4, <2>6 DEF Owned
  <2>9. Sends(p)' /\ Attempts(p)'
      BY <1>3, <2>4, <2>6, <2>7 DEF Sends, Attempts
  <2>10. CallsOn(p)
      BY <2>3, <2>4, <2>6, <2>8, <2>9 DEF CallsOn
  <2> QED
      BY <1>1, <1>2, <1>4, <2>10, ProtocolCalled
<1> QED
    BY <1>2, <1>5, <1>6

LEMMA Shutdown ==
    ASSUME IInv, shutdown
    PROVE  IInv'
<1>0. PICK p : p = Head(todo).prot
    OBVIOUS
<1> DEFINE op == IF isRunning(p) THEN "cancel" ELSE "testRegistered"
           c == Call(op, p, None)
<1>1. /\ todo # <<>> /\ Head(todo).op = "shutdown" /\ p \in Protocols
    BY <1>0, CallMade DEF shutdown
<1>2. /\ todo' = <<c>> \o Tail(todo) /\ obj' = [obj EXCEPT ![p].mode = "DONE"]
      /\ UNCHANGED <<state, registry, events, killer, thr, requested, verdict, downs, bad>>
    BY <1>0 DEF shutdown, historyVars
<1>3. c \in CallSet /\ c.op \in {"cancel", "testRegistered"} /\ c.prot = Head(todo).prot
    BY <1>0, <1>1, CallIn DEF CallNames
<1> HIDE DEF c
<1>4. ObjectsOK /\ ThreadsOK /\ Owned(p) /\ Sends(p) /\ Attempts(p)
    BY <1>1 DEF IInv, Types, ObjectsOK, ThreadsOK, ThreadInv
<1>5. /\ ObjectsOK' /\ \A r \in Protocols : r # p => obj'[r] = obj[r]
      /\ obj'[p].life = obj[p].life /\ (UNCHANGED obj \/ obj'[p].mode = "DONE")
    BY <1>1, <1>2, <1>4, Names, ModePut
<1>6. CallsOn(p)
    BY <1>2, <1>4, <1>5 DEF CallsOn, ThreadsOK, Owned, Sends, Attempts
<1>7. Created
    BY <1>6 DEF CallsOn, Created
<1>8. QuietCalls
    BY <1>1, <1>2, <1>3, <1>7, CallReplaced
<1> QED
    BY <1>1, <1>2, <1>6, <1>8, ProtocolCalled DEF IInv, Types

LEMMA Cancel ==
    ASSUME IInv, cancel
    PROVE  IInv'
<1>0. PICK p : p = Head(todo).prot
    OBVIOUS
<1>1. /\ todo # <<>> /\ Head(todo).op = "cancel" /\ p \in Protocols
    BY <1>0, CallMade DEF cancel
<1>2. /\ todo' = Tail(todo)
      /\ \/ UNCHANGED thr
         \/ thr' = [thr EXCEPT ![p].state = "CANCELLED", ![p].exitSignal = TRUE]
      /\ UNCHANGED <<state, registry, events, killer, obj, requested, verdict, downs, bad>>
    BY <1>0 DEF cancel, historyVars
<1>4. ObjectsOK /\ ThreadsOK /\ Owned(p) /\ Sends(p) /\ Attempts(p)
    BY <1>1 DEF IInv, Types, ObjectsOK, ThreadsOK, ThreadInv
<1>5. /\ ThreadsOK' /\ \A r \in Protocols : r # p => thr'[r] = thr[r]
      /\ thr'[p].detached = thr[p].detached /\ thr'[p].cur = thr[p].cur
      /\ thr'[p].tries = thr[p].tries /\ thr'[p].pc = thr[p].pc
  <2>1. CASE UNCHANGED thr
      BY <1>4, <2>1 DEF ThreadsOK
  <2>2. CASE thr' = [thr EXCEPT ![p].state = "CANCELLED", ![p].exitSignal = TRUE]
    <3>1. /\ ThreadsOK' /\ \A r \in Protocols : r # p => thr'[r] = thr[r]
          /\ thr'[p].detached = thr[p].detached /\ thr'[p].cur = thr[p].cur
          /\ thr'[p].tries = thr[p].tries
        BY <1>1, <1>4, <2>2, ThreadPut
    <3>2. thr'[p].pc = thr[p].pc
        BY <1>1, <1>4, <2>2 DEF ThreadsOK, Threads
    <3> QED
        BY <3>1, <3>2
  <2> QED
      BY <1>2, <2>1, <2>2
<1>6. CallsOn(p)
    BY <1>2, <1>4, <1>5 DEF CallsOn, ObjectsOK, Owned, Sends, Attempts
<1> QED
    BY <1>1, <1>2, <1>6, ProtocolCalled DEF IInv, Types

LEMMA UnregisterByKernel ==
    ASSUME IInv, unregisterByKernel
    PROVE  IInv'
<1>0. PICK p : p = Head(todo).prot
    OBVIOUS
<1> DEFINE e == Event("DELETE", p, None, None)
<1>1. /\ todo # <<>> /\ Head(todo).op = "unregister" /\ p \in Protocols
      /\ obj[p].life # "none"
    BY <1>0, CallMade DEF unregisterByKernel
<1>2. /\ todo' = Tail(todo) /\ events' = Append(events, e)
      /\ obj' = [obj EXCEPT ![p].isRegistered = FALSE, ![p].unregistered = @ + 1]
      /\ UNCHANGED <<state, registry, killer, thr, requested, verdict, downs, bad>>
    BY <1>0 DEF unregisterByKernel, unregister, addEvent, historyVars
<1>3. e \in EventSet /\ e.type = "DELETE" /\ e.prot = p
    BY <1>1, EventIn
<1> HIDE DEF e
<1>4. ObjectsOK /\ ThreadsOK /\ Owned(p) /\ Sends(p) /\ Attempts(p)
    BY <1>1 DEF IInv, Types, ObjectsOK, ThreadsOK, ThreadInv
<1>5. [obj[p] EXCEPT !.isRegistered = FALSE, !.unregistered = @ + 1] \in Objects
    BY <1>1, <1>4, Unregistered DEF ObjectsOK
<1>6. ObjectsOK'
    BY <1>1, <1>2, <1>4, <1>5 DEF ObjectsOK
<1>7. /\ \A r \in Protocols : r # p => obj'[r] = obj[r]
      /\ obj'[p].life = obj[p].life /\ obj'[p].mode = obj[p].mode
    BY <1>1, <1>2, <1>4 DEF ObjectsOK, Objects
<1>8. CallsOn(p)
    BY <1>2, <1>4, <1>6, <1>7 DEF CallsOn, ThreadsOK, Owned, Sends, Attempts
<1>9. Created
    BY <1>8 DEF CallsOn, Created
<1>10. QuietEvents
    BY <1>1, <1>2, <1>3, <1>7, <1>9, EventAdded
<1> QED
    BY <1>1, <1>2, <1>8, <1>10, ProtocolCalled DEF IInv, Types

(* The join returns when the thread is gone: what comes next may be the     *)
(* delete.                                                                  *)
LEMMA Join ==
    ASSUME IInv, join
    PROVE  IInv'
<1>0. PICK p : p = Head(todo).prot
    OBVIOUS
<1>1. /\ todo # <<>> /\ Head(todo).op = "join" /\ p \in Protocols
      /\ Head(todo) = todo[1]
    BY <1>0, CallMade DEF join
<1>2. /\ todo' = Tail(todo) /\ ThreadGone(p)
      /\ UNCHANGED thr \/ thr' = [thr EXCEPT ![p].state = "JOINED"]
      /\ UNCHANGED <<state, registry, events, killer, obj, requested, verdict, downs, bad>>
    BY <1>0 DEF join, historyVars
<1>3. ObjectsOK /\ ThreadsOK
    BY DEF IInv, Types, ObjectsOK, ThreadsOK
<1>4. /\ todo' \in Seq(CallSet) /\ Len(todo') \in Nat
      /\ \A i \in 1..Len(todo') : i + 1 \in 1..Len(todo) /\ todo'[i] = todo[i + 1]
    BY <1>1, <1>2, Taken DEF IInv, Types
<1>5. /\ ThreadsOK'
      /\ \A r \in Protocols : /\ thr'[r].detached = thr[r].detached
                              /\ thr'[r].cur = thr[r].cur
                              /\ thr'[r].tries = thr[r].tries /\ thr'[r].pc = thr[r].pc
  <2>1. CASE UNCHANGED thr
      BY <1>3, <2>1 DEF ThreadsOK
  <2>2. CASE thr' = [thr EXCEPT ![p].state = "JOINED"]
    <3>1. ThreadsOK'
        BY <1>1, <1>3, <2>2, ThreadPut
    <3> QED
        BY <1>1, <1>3, <2>2, <3>1 DEF ThreadsOK, Threads
  <2> QED
      BY <1>2, <2>1, <2>2
<1>6. Types'
    BY <1>2, <1>4, <1>5 DEF IInv, Types, ThreadsOK
<1>7. ThreadInv' /\ KillerInv'
    BY <1>2, <1>5 DEF IInv, ThreadInv, Owned, Sends, Attempts, KillerInv
<1>8. RegistryInv'
  <2>1. \A r \in Protocols : Condemned(todo', r) => Condemned(todo, r)
      BY <1>4 DEF Condemned
  <2>2. \A r \in Protocols : Safe(r) => Safe(r)'
      BY <1>2, <1>5, <2>1 DEF Safe
  <2> QED
      BY <1>2, <2>2, RegistryKept DEF IInv, Types, RegistryInv, Announced, AnnouncedOnce
<1>9. NamesInv'
    BY <1>2, <1>4 DEF IInv, NamesInv
<1>10. JoinInv'
  <2> SUFFICES ASSUME NEW i \in 1..Len(todo'), todo'[i].op = "delete"
               PROVE  i = 1 /\ ThreadGone(todo[1].prot)'
      BY DEF JoinInv
  <2>1. i + 1 \in 1..Len(todo) /\ todo[i + 1].op = "delete" /\ i + 1 # 1
      BY <1>4
  <2>2. i + 1 = 2 /\ todo[1].prot = todo[2].prot
      BY <2>1 DEF IInv, JoinInv
  <2>3. i = 1 /\ todo'[1].prot = p
      BY <1>0, <1>1, <1>4, <2>2
  <2>4. thr'[p].pc \in {"none", "exited"}
      BY <1>1, <1>2, <1>5 DEF ThreadGone
  <2> QED
      BY <2>3, <2>4 DEF ThreadGone
<1>11. KillInv'
    BY <1>2, <1>4, <1>5 DEF IInv, KillInv, NoDeleteUnderLiveThread
<1> QED
    BY <1>6, <1>7, <1>8, <1>9, <1>10, <1>11 DEF IInv

-----------------------------------------------------------------------------
(* Registration                                                             *)

LEMMA OnAddProtocolEvent ==
    ASSUME IInv, onAddProtocolEvent
    PROVE  IInv'
<1>0. PICK p : p = Head(events).prot
    OBVIOUS
<1>1. /\ todo = <<>> /\ events # <<>> /\ events \in Seq(EventSet)
      /\ Head(events) \in EventSet /\ Head(events).type = "ADD"
      /\ Head(events) = events[1] /\ 1 \in 1..Len(events)
    BY Delivered DEF onAddProtocolEvent
<1>2. p \in Protocols /\ Announced(events, p)
    BY <1>0, <1>1 DEF EventSet, Protocols, Clients, Announced
<1>3. Safe(p) /\ p \notin registry /\ ~Announced(Tail(events), p)
    BY <1>0, <1>1, <1>2, FewerEvents DEF IInv, RegistryInv
<1>4. /\ events' = Tail(events)
      /\ UNCHANGED <<state, killer, thr, requested, verdict, downs, bad>>
    BY DEF onAddProtocolEvent, historyVars
<1>5. CASE /\ todo' = <<Call("shutdown", p, None), Call("join", p, None)>>
           /\ UNCHANGED <<registry, obj>>
  <2> DEFINE c == Call("shutdown", p, None)
             j == Call("join", p, None)
  <2>1. /\ c \in CallSet /\ c.op = "shutdown" /\ c.prot = p
        /\ j \in CallSet /\ j.op = "join" /\ j.prot = p
      BY <1>2, CallIn DEF CallNames
  <2>2. todo' = <<c, j>>
      BY <1>5
  <2> HIDE DEF c, j
  <2>3. /\ todo' \in Seq(CallSet) /\ Len(todo') = 2 /\ todo'[1] = c /\ todo'[2] = j
      BY <2>1, <2>2
  <2>4. QuietCalls
      BY <1>3, <1>5, <2>1, <2>3 DEF QuietCalls, Safe
  <2>5. QuietEvents
      BY <1>1, <1>4, <1>5, EventTaken DEF Created
  <2> QED
      BY <1>4, <1>5, <2>4, <2>5, QuietStep DEF IInv, Types, KillerInv
<1>6. CASE /\ registry' = registry \cup {p} /\ UNCHANGED todo
           /\ obj' = [obj EXCEPT ![p].isRegistered = TRUE]
  <2>0. ObjectsOK /\ ThreadsOK
      BY DEF IInv, Types, ObjectsOK, ThreadsOK
  <2>1. [obj[p] EXCEPT !.isRegistered = TRUE] \in Objects
      BY <1>2, <2>0 DEF ObjectsOK, Objects
  <2>2. ObjectsOK'
      BY <1>2, <1>6, <2>0, <2>1 DEF ObjectsOK
  <2>3. \A r \in Protocols : obj'[r].life = obj[r].life /\ obj'[r].mode = obj[r].mode
      BY <1>2, <1>6, <2>0 DEF ObjectsOK, Objects
  <2>4. Created
      BY <1>4, <2>3 DEF Created
  <2>5. QuietCalls /\ QuietEvents
      BY <1>1, <1>4, <1>6, <2>4, NoCalls, EventTaken
  <2>6. Types'
      BY <1>2, <1>4, <1>6, <2>2, <2>5 DEF IInv, Types, ObjectsOK, QuietEvents
  <2>7. ThreadInv'
      BY <1>4, <2>3 DEF IInv, ThreadInv, Owned, Sends, Attempts
  <2>8. RegistryInv'
    <3>1. IsFiniteSet(registry')
        BY <1>6, FS_AddElement DEF IInv, RegistryInv
    <3>2. \A r \in Protocols : Safe(r) => Safe(r)'
        BY <1>1, <1>4, <1>6, <2>3 DEF Safe, Condemned
    <3>3. \A r \in registry : r \in Protocols
        BY DEF IInv, Types
    <3> QED
        BY <1>2, <1>3, <1>4, <1>6, <2>5, <3>1, <3>2, <3>3
           DEF IInv, RegistryInv, QuietEvents
  <2> QED
      BY <1>4, <2>4, <2>5, <2>6, <2>7, <2>8, KernelMoves DEF IInv, KillerInv
<1> QED
    BY <1>0, <1>5, <1>6 DEF onAddProtocolEvent

LEMMA OnDeleteProtocolEvent ==
    ASSUME IInv, onDeleteProtocolEvent
    PROVE  IInv'
<1>0. PICK p : p = Head(events).prot
    OBVIOUS
<1>1. /\ todo = <<>> /\ events # <<>> /\ events \in Seq(EventSet)
      /\ Head(events) \in EventSet /\ Head(events).type = "DELETE"
      /\ Head(events) = events[1] /\ 1 \in 1..Len(events)
    BY Delivered DEF onDeleteProtocolEvent
<1>2. p \in Protocols /\ obj[p].life # "none"
    BY <1>0, <1>1, Elements DEF IInv, NamesInv
<1>3. /\ events' = Tail(events)
      /\ UNCHANGED <<state, killer, obj, thr, requested, verdict, downs>>
    BY DEF onDeleteProtocolEvent
<1>4. Created /\ QuietEvents
    BY <1>1, <1>3, EventTaken DEF Created
<1>5. CASE /\ bad' \in {bad, bad \cup {"used after delete"}}
           /\ UNCHANGED <<registry, todo>>
    BY <1>1, <1>3, <1>4, <1>5, NoCalls, QuietStep DEF IInv, Types, KillerInv
<1>6. CASE /\ p \in registry /\ registry' = registry \ {p} /\ UNCHANGED bad
           /\ todo' = <<Call("join", p, None), Call("delete", p, None),
                        Call("checkShutdown", p, None)>>
  <2> DEFINE j == Call("join", p, None)
             c == Call("delete", p, None)
             s == Call("checkShutdown", p, None)
  <2>1. /\ c \in CallSet /\ c.op = "delete" /\ c.prot = p
        /\ j \in CallSet /\ j.op = "join" /\ j.prot = p
        /\ s \in CallSet /\ s.op = "checkShutdown" /\ s.prot = p
      BY <1>2, CallIn DEF CallNames
  <2>2. todo' = <<j, c, s>>
      BY <1>6
  <2> HIDE DEF c, j, s
  <2>3. /\ todo' \in Seq(CallSet) /\ Len(todo') = 3
        /\ todo'[1] = j /\ todo'[2] = c /\ todo'[3] = s
      BY <2>1, <2>2
  <2>4. \A i \in 1..Len(todo') : i \in {1, 2, 3} /\ todo'[i].prot = p
      BY <2>1, <2>3
  <2>5. Types'
      BY <1>3, <1>4, <1>6, <2>3 DEF IInv, Types, QuietEvents
  <2>6. ThreadInv' /\ KillerInv'
      BY <1>3 DEF IInv, ThreadInv, Owned, Sends, Attempts, KillerInv
  <2>7. RegistryInv'
    <3>1. IsFiniteSet(registry')
        BY <1>6, FS_RemoveElement DEF IInv, RegistryInv
    <3>2. \A r \in Protocols : Safe(r) /\ r # p => Safe(r)'
        BY <1>3, <2>4 DEF Safe, Condemned
    <3>3. ~Announced(events', p)
        BY <1>4, <1>6 DEF IInv, RegistryInv, QuietEvents
    <3>4. \A r \in registry : r \in Protocols
        BY DEF IInv, Types
    <3> QED
        BY <1>4, <1>6, <3>1, <3>2, <3>3, <3>4 DEF IInv, RegistryInv, QuietEvents
  <2>8. NamesInv'
      BY <1>2, <1>3, <1>4, <2>4 DEF NamesInv, QuietEvents
  <2>9. JoinInv'
      BY <2>1, <2>3, <2>4 DEF JoinInv
  <2>10. KillInv'
    <3>1. \A i \in 1..Len(todo') : todo'[i].op # "kill"
        BY <2>1, <2>3, <2>4
    <3> QED
        BY <1>3, <1>4, <1>6, <3>1 DEF IInv, KillInv, QuietEvents, NoDeleteUnderLiveThread
  <2> QED
      BY <2>5, <2>6, <2>7, <2>8, <2>9, <2>10 DEF IInv
<1>7. \/ /\ bad' \in {bad, bad \cup {"used after delete"}}
         /\ UNCHANGED <<registry, todo>>
      \/ /\ p \in registry /\ registry' = registry \ {p} /\ UNCHANGED bad
         /\ todo' = <<Call("join", p, None), Call("delete", p, None),
                      Call("checkShutdown", p, None)>>
  <2>1. CASE obj[p].life = "deleted"
      BY <1>0, <2>1 DEF onDeleteProtocolEvent
  <2>2. CASE obj[p].life # "deleted" /\ p \in registry
      BY <1>0, <2>2 DEF onDeleteProtocolEvent
  <2>3. CASE obj[p].life # "deleted" /\ p \notin registry
    <3>1. /\ registry' = registry \ {p} /\ UNCHANGED <<bad, todo>>
        BY <1>0, <2>3 DEF onDeleteProtocolEvent
    <3> QED
        BY <2>3, <3>1
  <2> QED
      BY <2>1, <2>2, <2>3
<1> QED
    BY <1>5, <1>6, <1>7

-----------------------------------------------------------------------------
(* Deletion                                                                 *)

LEMMA OccurrencesType ==
    ASSUME NEW q \in Seq(DObjs), NEW d
    PROVE  /\ IsFiniteSet({i \in 1..Len(q) : q[i] = d})
           /\ Occurrences(d, q) \in Nat
<1>1. Len(q) \in Nat /\ IsFiniteSet(1..Len(q))
    BY FS_Interval
<1>2. {i \in 1..Len(q) : q[i] = d} \in SUBSET (1..Len(q))
    OBVIOUS
<1>3. IsFiniteSet({i \in 1..Len(q) : q[i] = d})
    BY <1>1, <1>2, FS_Subset
<1> QED
    BY <1>3, FS_CardinalityType DEF Occurrences

LEMMA Cleared ==
    ASSUME IInv, NEW p \in Protocols, NEW l \in {"live", "deleted"},
           closeAndClearQueue(p, l)
    PROVE  /\ ObjectsOK' /\ \A r \in Protocols : r # p => obj'[r] = obj[r]
           /\ obj'[p].life = l /\ obj'[p].q = <<>> /\ obj'[p].mode = obj[p].mode
           /\ verdict' \in [DObjs -> Nat]
<1>1. /\ ObjectsOK /\ verdict \in [DObjs -> Nat] /\ obj[p] \in Objects
      /\ obj[p].q \in Seq(DObjs)
    BY DEF IInv, Types, ObjectsOK, Objects
<1>2. /\ obj' = [obj EXCEPT ![p].closed = TRUE, ![p].q = <<>>, ![p].life = l]
      /\ verdict' = [d \in DObjs |-> verdict[d] + Occurrences(d, obj[p].q)]
    BY DEF closeAndClearQueue
<1>3. l \in Lives /\ <<>> \in Seq(DObjs)
    BY Names
<1>4. [obj[p] EXCEPT !.closed = TRUE, !.q = <<>>, !.life = l] \in Objects
    BY <1>1, <1>3 DEF Objects
<1>5. ObjectsOK'
    BY <1>1, <1>2, <1>4 DEF ObjectsOK
<1>6. /\ \A r \in Protocols : r # p => obj'[r] = obj[r]
      /\ obj'[p].life = l /\ obj'[p].q = <<>> /\ obj'[p].mode = obj[p].mode
    BY <1>1, <1>2 DEF ObjectsOK, Objects
<1>7. \A d \in DObjs : verdict[d] + Occurrences(d, obj[p].q) \in Nat
  <2>1. \A d \in DObjs : verdict[d] \in Nat /\ Occurrences(d, obj[p].q) \in Nat
      BY <1>1, OccurrencesType
  <2> QED
      BY <2>1
<1> QED
    BY <1>2, <1>5, <1>6, <1>7

LEMMA DeleteProtocol ==
    ASSUME IInv, deleteProtocol
    PROVE  IInv'
<1>0. PICK p : p = Head(todo).prot
    OBVIOUS
<1>1. /\ todo # <<>> /\ Head(todo).op = "delete" /\ p \in Protocols
      /\ Head(todo) = todo[1] /\ 1 \in 1..Len(todo) /\ obj[p].life # "none"
    BY <1>0, CallMade DEF deleteProtocol
<1>2. ThreadGone(p) /\ Condemned(todo, p)
    BY <1>0, <1>1 DEF IInv, JoinInv, Condemned
<1>3. /\ closeAndClearQueue(p, "deleted") /\ UNCHANGED bad /\ todo' = Tail(todo)
      /\ UNCHANGED <<state, registry, events, killer, thr, requested, downs>>
    BY <1>0, <1>2 DEF deleteProtocol, destroy
<1>4. /\ ObjectsOK' /\ \A r \in Protocols : r # p => obj'[r] = obj[r]
      /\ obj'[p].life = "deleted" /\ obj'[p].mode = obj[p].mode
      /\ verdict' \in [DObjs -> Nat]
    BY <1>1, <1>3, Cleared
<1>5. Created
    BY <1>3, <1>4 DEF Created
<1>6. QuietCalls /\ QuietEvents
    BY <1>1, <1>3, <1>5, CallDone, NoEvents
<1>7. Types'
    BY <1>3, <1>4, <1>6 DEF IInv, Types, ObjectsOK, QuietCalls
<1>8. ThreadInv'
    BY <1>3, <1>4 DEF IInv, ThreadInv, Owned, Sends, Attempts
<1>9. RegistryInv'
  <2>1. \A r \in Protocols : Condemned(todo', r) => Condemned(todo, r)
      BY <1>6, StillCondemned
  <2>2. \A r \in Protocols : Safe(r) => Safe(r)'
      BY <1>2, <1>3, <1>4, <2>1 DEF Safe
  <2>3. /\ RegistryInv /\ AnnouncedOnce(events)' /\ registry \subseteq Protocols
        /\ \A r \in Protocols : Announced(events, r)' => Announced(events, r)
      BY <1>6 DEF IInv, Types, RegistryInv, QuietEvents
  <2> QED
      BY <1>3, <2>2, <2>3, RegistryKept
<1> QED
    BY <1>3, <1>5, <1>6, <1>7, <1>8, <1>9, KernelMoves DEF IInv, KillerInv

LEMMA OnProtocolShutdownTimeout ==
    ASSUME IInv, onProtocolShutdownTimeout
    PROVE  IInv'
<1>1. /\ todo = <<>> /\ events # <<>> /\ Head(events).type = "SHUTDOWN_TIMEOUT"
      /\ Head(events) = events[1] /\ 1 \in 1..Len(events)
    BY Delivered DEF onProtocolShutdownTimeout
<1>2. killer = "done"
    BY <1>1 DEF IInv, KillInv
<1>3. /\ todo' = Calls("kill", registry) /\ registry' = {} /\ events' = Tail(events)
      /\ UNCHANGED state \/ state' = "STOPPED"
      /\ UNCHANGED <<killer, obj, thr, requested, verdict, downs, bad>>
    BY DEF onProtocolShutdownTimeout, historyVars
<1>4. IsFiniteSet(registry) /\ registry \subseteq Protocols
    BY DEF IInv, RegistryInv, Types
<1>5. /\ todo' \in Seq(CallSet)
      /\ \A i \in 1..Len(todo') : todo'[i].op = "kill" /\ todo'[i].prot \in registry
    BY <1>3, <1>4, CallsOf
<1>6. QuietEvents
    BY <1>1, <1>3, EventTaken DEF Created
<1>7. Types'
    BY <1>3, <1>5, <1>6 DEF IInv, Types, QuietEvents
<1>8. ThreadInv' /\ KillerInv'
    BY <1>3 DEF IInv, ThreadInv, Owned, Sends, Attempts, KillerInv
<1>9. RegistryInv'
  <2>1. \A r \in Protocols : Condemned(todo', r) => r \in registry
      BY <1>5 DEF Condemned
  <2>2. \A r \in Protocols : Safe(r) /\ r \notin registry => Safe(r)'
      BY <1>3, <2>1 DEF Safe
  <2> QED
      BY <1>3, <1>6, <2>2, FS_EmptySet DEF IInv, RegistryInv, QuietEvents
<1>10. NamesInv'
  <2>1. \A r \in registry : obj[r].life = "live"
      BY DEF IInv, RegistryInv, Safe
  <2> QED
      BY <1>3, <1>5, <1>6, <2>1 DEF NamesInv, QuietEvents
<1>11. JoinInv' /\ KillInv'
    BY <1>2, <1>3, <1>5 DEF JoinInv, KillInv
<1> QED
    BY <1>7, <1>8, <1>9, <1>10, <1>11 DEF IInv

(* A protocol that nobody can find any more is destroyed, or left to its    *)
(* own thread.                                                              *)
LEMMA Lost ==
    ASSUME IInv, NEW p \in Protocols, ~Safe(p), obj[p].life # "none", killer = "done",
           ObjectsOK', ThreadsOK', ThreadInv', verdict' \in [DObjs -> Nat],
           \A r \in Protocols : r # p => obj'[r] = obj[r] /\ thr'[r] = thr[r],
           obj'[p].life # "none", thr'[p].pc = thr[p].pc,
           UNCHANGED todo \/ QuietCalls,
           bad' \subseteq {"used after delete", "deleted under a live thread"},
           UNCHANGED <<state, registry, events, killer, requested, downs>>
    PROVE  IInv'
<1>1. /\ todo' \in Seq(CallSet)
      /\ \A r \in Protocols : Condemned(todo', r) => Condemned(todo, r)
  <2>1. CASE UNCHANGED todo
      BY <2>1 DEF IInv, Types
  <2>2. CASE QuietCalls
      BY <2>2, StillCondemned DEF QuietCalls
  <2> QED
      BY <2>1, <2>2
<1>2. Types'
    BY <1>1 DEF IInv, Types, ObjectsOK, ThreadsOK
<1>3. RegistryInv'
  <2>1. \A r \in Protocols : Safe(r) => Safe(r)'
      BY <1>1 DEF Safe
  <2>2. /\ RegistryInv /\ AnnouncedOnce(events)' /\ registry \subseteq Protocols
        /\ \A r \in Protocols : Announced(events, r)' => Announced(events, r)
      BY DEF IInv, Types, RegistryInv, AnnouncedOnce, Announced
  <2> QED
      BY <2>1, <2>2, RegistryKept
<1>4. NamesInv'
  <2>1. \A i \in 1..Len(todo') : obj'[todo'[i].prot].life # "none"
    <3>1. CASE QuietCalls
        BY <3>1 DEF QuietCalls
    <3>2. CASE UNCHANGED todo
        BY <3>2, Elements DEF IInv, NamesInv
    <3> QED
        BY <3>1, <3>2
  <2>2. \A i \in 1..Len(events) :
           events[i].type = "DELETE" => obj'[events[i].prot].life # "none"
      BY Elements DEF IInv, NamesInv
  <2> QED
      BY <2>1, <2>2 DEF NamesInv
<1>5. JoinInv'
  <2>1. CASE QuietCalls
      BY <2>1 DEF QuietCalls, JoinInv
  <2>2. CASE UNCHANGED todo
    <3>1. \A r \in Protocols : thr'[r].pc = thr[r].pc
        OBVIOUS
    <3>2. \A i \in 1..Len(todo) : todo[i].prot \in Protocols
        BY Elements DEF IInv
    <3>3. 1 \in 1..Len(todo) /\ ThreadGone(todo[1].prot) => ThreadGone(todo[1].prot)'
        BY <2>2, <3>1, <3>2 DEF ThreadGone
    <3> QED
        BY <2>2, <3>3 DEF IInv, JoinInv
  <2> QED
      BY <2>1, <2>2
<1>6. KillInv' /\ KillerInv'
    BY DEF KillInv, IInv, KillerInv
<1> QED
    BY <1>2, <1>3, <1>4, <1>5, <1>6 DEF IInv

LEMMA KillProtocol ==
    ASSUME IInv, killProtocol
    PROVE  IInv'
<1>0. PICK p : p = Head(todo).prot
    OBVIOUS
<1>1. /\ todo # <<>> /\ Head(todo).op = "kill" /\ p \in Protocols
      /\ Head(todo) = todo[1] /\ 1 \in 1..Len(todo) /\ obj[p].life # "none"
    BY <1>0, CallMade DEF killProtocol
<1>2. Condemned(todo, p) /\ killer = "done"
    BY <1>0, <1>1 DEF IInv, KillInv, Condemned
<1>3. /\ todo' = Tail(todo)
      /\ UNCHANGED <<state, registry, events, killer, requested, downs>>
      /\ \/ /\ thr' = [thr EXCEPT ![p].detached = TRUE, ![p].state = "CANCELLED",
                                  ![p].exitSignal = TRUE]
            /\ closeAndClearQueue(p, "live") /\ UNCHANGED bad
         \/ destroy(p) /\ UNCHANGED thr
    BY <1>0 DEF killProtocol
<1>4. ObjectsOK /\ ThreadsOK /\ Owned(p) /\ Sends(p) /\ Attempts(p)
    BY <1>1 DEF IInv, Types, ObjectsOK, ThreadsOK, ThreadInv
<1>5. PICK l \in {"live", "deleted"} : closeAndClearQueue(p, l)
    BY <1>3 DEF destroy
<1>6. /\ ObjectsOK' /\ \A r \in Protocols : r # p => obj'[r] = obj[r]
      /\ obj'[p].life = l /\ obj'[p].mode = obj[p].mode
      /\ verdict' \in [DObjs -> Nat]
    BY <1>1, <1>5, Cleared
<1>7. /\ ThreadsOK' /\ \A r \in Protocols : r # p => thr'[r] = thr[r]
      /\ thr'[p].cur = thr[p].cur /\ thr'[p].tries = thr[p].tries
      /\ thr'[p].pc = thr[p].pc
  <2>1. CASE UNCHANGED thr
      BY <1>4, <2>1 DEF ThreadsOK
  <2>2. CASE thr' = [thr EXCEPT ![p].detached = TRUE, ![p].state = "CANCELLED",
                                ![p].exitSignal = TRUE]
    <3>1. thr[p] \in Threads /\ "CANCELLED" \in ThreadStates
        BY <1>1, <1>4, Names DEF ThreadsOK
    <3>2. [thr[p] EXCEPT !.detached = TRUE, !.state = "CANCELLED", !.exitSignal = TRUE]
             \in Threads
        BY <3>1 DEF Threads
    <3>3. ThreadsOK'
        BY <1>1, <1>4, <2>2, <3>2 DEF ThreadsOK
    <3> QED
        BY <1>1, <1>4, <2>2, <3>3 DEF ThreadsOK, Threads
  <2> QED
      BY <1>3, <2>1, <2>2
<1>8. ThreadInv'
  <2>1. ASSUME NEW r \in Protocols
        PROVE  Owned(r)' /\ Sends(r)' /\ Attempts(r)'
    <3>1. CASE r = p
        BY <1>1, <1>4, <1>6, <1>7, <3>1 DEF Owned, Sends, Attempts
    <3>2. CASE r # p
        BY <1>6, <1>7, <3>2 DEF Owned, Sends, Attempts, IInv, ThreadInv
    <3> QED
        BY <3>1, <3>2
  <2> QED
      BY <2>1 DEF ThreadInv
<1>9. QuietCalls
    BY <1>1, <1>3, <1>6, CallReturned
<1>10. bad' \subseteq {"used after delete", "deleted under a live thread"}
    BY <1>3 DEF IInv, Types, destroy
<1>11. ~Safe(p)
    BY <1>2 DEF Safe
<1> QED
    BY <1>1, <1>2, <1>3, <1>6, <1>7, <1>8, <1>9, <1>10, <1>11, Lost

(* A detached protocol deletes itself.                                      *)
LEMMA DetachedCase ==
    ASSUME NEW p \in Clients, Thread(p), thr[p].pc = "garbage"
    PROVE  cleanupGarbage(p)
BY DEF Thread, At, runBegin, runLoop, connectSuccess, connectFailure, takeElement,
       sendSuccess, sendFailure, waitOver, received, receiveClosed, waitError, runEnd,
       lowerExitSignal, cleanupBegin, cleanupUnregister, cleanupEnd

LEMMA DetachedEnds ==
    ASSUME IInv, NEW p \in Clients, cleanupGarbage(p), thr[p].detached
    PROVE  IInv'
<1>1. /\ p \in Protocols /\ Owned(p) /\ ~Safe(p)
    BY DEF Protocols, IInv, ThreadInv, Safe
<1>2. killer = "done" /\ obj[p].life # "none"
    BY <1>1 DEF IInv, KillInv, Owned
<1>3. /\ closeAndClearQueue(p, "deleted") /\ UNCHANGED thr
      /\ bad' = bad \/ bad' = bad \cup {"deleted under a live thread"}
      /\ UNCHANGED <<state, registry, events, todo, killer, requested, downs>>
    BY DEF cleanupGarbage, destroy, kernelVars
<1>4. /\ ObjectsOK' /\ \A r \in Protocols : r # p => obj'[r] = obj[r]
      /\ obj'[p].life = "deleted" /\ obj'[p].mode = obj[p].mode
      /\ verdict' \in [DObjs -> Nat]
    BY <1>1, <1>3, Cleared
<1>5. ThreadInv' /\ ThreadsOK'
    BY <1>3, <1>4 DEF IInv, Types, ThreadsOK, ThreadInv, Owned, Sends, Attempts
<1>6. bad' \subseteq {"used after delete", "deleted under a live thread"}
    BY <1>3 DEF IInv, Types
<1> QED
    BY <1>1, <1>2, <1>3, <1>4, <1>5, <1>6, Lost

-----------------------------------------------------------------------------
LEMMA Initially ==
    ASSUME Init
    PROVE  IInv
<1>1. NoObject \in Objects
    BY DEF NoObject, Objects, Lives, Modes
<1>2. NoThread \in Threads
    BY ProtocolConstants DEF NoThread, Threads, Locations, ThreadStates
<1>3. \A p \in Protocols : obj[p] = NoObject /\ thr[p] = NoThread
    BY DEF Init
<1>4. /\ NoThread.pc = "none" /\ NoThread.cur = None /\ NoThread.tries = 0
      /\ NoThread.detached = FALSE
    BY DEF NoThread
<1>5. Types
  <2>1. /\ obj \in [Protocols -> Objects] /\ thr \in [Protocols -> Threads]
      BY <1>1, <1>2 DEF Init
  <2>2. /\ requested \in [DObjs -> 0..MaxRequests] /\ verdict \in [DObjs -> Nat]
        /\ downs \in 0..MaxDowns
      BY ProtocolConstants DEF Init
  <2>3. events \in Seq(EventSet) /\ todo \in Seq(CallSet)
      BY DEF Init
  <2> QED
      BY <2>1, <2>2, <2>3 DEF Init, Types
<1>6. ThreadInv
    BY <1>3, <1>4, ProtocolConstants DEF ThreadInv, Owned, Sends, Attempts
<1>7. Len(events) = 0 /\ Len(todo) = 0
    BY DEF Init
<1>8. RegistryInv
    BY <1>7, FS_EmptySet DEF Init, RegistryInv, Announced, AnnouncedOnce
<1>9. NamesInv /\ JoinInv
    BY <1>7 DEF NamesInv, JoinInv
<1>10. KillInv /\ KillerInv
    BY <1>3, <1>4, <1>7 DEF Init, KillInv, KillerInv, NoDeleteUnderLiveThread
<1> QED
    BY <1>5, <1>6, <1>8, <1>9, <1>10 DEF IInv

LEMMA Stuttering ==
    ASSUME IInv, UNCHANGED vars
    PROVE  IInv'
BY DEF vars, IInv, Types, ThreadInv, Owned, Sends, Attempts, RegistryInv, Safe, Announced,
       Condemned, AnnouncedOnce, NamesInv, JoinInv, ThreadGone, KillInv, KillerInv,
       NoDeleteUnderLiveThread

LEMMA Inductive ==
    ASSUME IInv, [Next]_vars
    PROVE  IInv'
<1>1. CASE Kernel
    BY <1>1, OnSendDataObject, SendUnheard, SendFinds, SendCreates, SendFails,
       SendDataObject, InsertAndStart, OnAddProtocolEvent, OnDeleteProtocolEvent,
       Join, DeleteProtocol, CheckShutdown, Shutdown, Cancel, TestRegistered,
       UnregisterByKernel, OnProtocolShutdownTimeout, KillProtocol DEF Kernel
<1>2. CASE Environment
    BY <1>2, RequestsSend, AcceptClient, OnLocalInterfaceUp, InterfaceDown,
       OnPrepareShutdown DEF Environment
<1>3. CASE onShutdown
    BY <1>3, OnShutdown
<1>4. CASE killerExpires
    BY <1>4, KillerExpires
<1>5. ASSUME NEW p \in Clients, Thread(p)
      PROVE  IInv'
  <2>1. CASE ~(thr[p].pc = "garbage" /\ thr[p].detached)
      BY <1>5, <2>1, ThreadSteps
  <2>2. CASE thr[p].pc = "garbage" /\ thr[p].detached
      BY <1>5, <2>2, DetachedCase, DetachedEnds
  <2> QED
      BY <2>1, <2>2
<1>6. CASE UNCHANGED vars
    BY <1>6, Stuttering
<1> QED
    BY <1>1, <1>2, <1>3, <1>4, <1>5, <1>6 DEF Next

LEMMA Always == Spec => []IInv
<1>1. Init => IInv
    BY Initially
<1>2. IInv /\ [Next]_vars => IInv'
    BY Inductive
<1> QED
    BY <1>1, <1>2, PTL DEF Spec

(* The manager, its protocols and their threads keep their types, whatever  *)
(* the threads do while the kernel thread runs a handler                    *)
(* (ProtocolManager.cpp, Protocol.cpp, Thread.cpp).                         *)
THEOREM TypeCorrect == Spec => []TypeOK
<1>1. IInv => TypeOK
  <2> SUFFICES ASSUME IInv
               PROVE  TypeOK
      OBVIOUS
  <2>1. /\ events \in Seq([type : EventTypes, prot : Protocols \cup {None},
                           dObj : DObjs \cup {None}, peer : Peers \cup {None}])
        /\ todo \in Seq([op : CallNames, prot : Protocols, dObj : DObjs \cup {None}])
    <3>1. /\ EventSet \subseteq [type : EventTypes, prot : Protocols \cup {None},
                                 dObj : DObjs \cup {None}, peer : Peers \cup {None}]
          /\ CallSet \subseteq [op : CallNames, prot : Protocols, dObj : DObjs \cup {None}]
        BY DEF EventSet, CallSet
    <3>2. events \in Seq(EventSet) /\ todo \in Seq(CallSet)
        BY DEF IInv, Types
    <3> QED
        BY <3>1, <3>2, SeqMonotonic
  <2> QED
      BY <2>1 DEF IInv, Types, TypeOK, Objects, Threads, Lives, Modes, ThreadStates
<1> QED
    BY <1>1, Always, PTL

(* The registry holds no protocol that was deleted: a protocol leaves it    *)
(* before the handler of the DELETE event, or the timeout, deletes it, and  *)
(* none is registered once somebody is about to delete it                   *)
(* (ProtocolManager::registerProtocol, onDeleteProtocolEvent,               *)
(* onProtocolShutdownTimeout).                                              *)
THEOREM RegistryLive == Spec => []RegistryIsLive
<1>1. IInv => RegistryIsLive
    BY DEF IInv, RegistryInv, Safe, RegistryIsLive
<1> QED
    BY <1>1, Always, PTL

(* Until the timeout of the shutdown, every Protocol object is deleted      *)
(* after the join with its thread, whatever ended that thread               *)
(* (ProtocolManager::onDeleteProtocolEvent, Thread::join).                  *)
THEOREM JoinedBeforeDelete == Spec => []JoinedBeforeTimeout
<1>1. IInv => JoinedBeforeTimeout
    BY DEF IInv, KillInv, JoinedBeforeTimeout
<1> QED
    BY <1>1, Always, PTL

-----------------------------------------------------------------------------
(***************************************************************************)
(* One verdict per request                                                  *)
(***************************************************************************)

(* Nothing is queued in a protocol that was not created, or that has no     *)
(* thread to send it.                                                       *)
Unused(p) == obj[p].life = "none" \/ p \notin Clients => obj[p].q = <<>>

VerdictInv ==
    /\ \A p \in Protocols : Unused(p)
    /\ \A d \in DObjs : IsFiniteSet(Sending(d)) /\ IsFiniteSet(Waiting(d))
    /\ OneVerdictPerRequest

(* Counting in lists                                                        *)
One(b) == IF b THEN 1 ELSE 0

LEMMA Shifted ==
    ASSUME NEW A, IsFiniteSet(A), A \subseteq Nat
    PROVE  /\ IsFiniteSet({i + 1 : i \in A})
           /\ Cardinality({i + 1 : i \in A}) = Cardinality(A)
<1> DEFINE B == {i + 1 : i \in A}
           f == [i \in A |-> i + 1]
<1>1. f \in Bijection(A, B)
  <2>1. f \in [A -> B]
      OBVIOUS
  <2>2. \A i, j \in A : f[i] = f[j] => i = j
      OBVIOUS
  <2>3. \A b \in B : \E i \in A : f[i] = b
      OBVIOUS
  <2> QED
      BY <2>1, <2>2, <2>3 DEF Bijection, Injection, IsInjective, Surjection
<1>2. ExistsBijection(A, B)
    BY <1>1 DEF ExistsBijection
<1> QED
    BY <1>2, FS_Bijection

(* A set of positions, with the first one taken or one more at the end.     *)
LEMMA FirstTaken ==
    ASSUME NEW n \in Nat, NEW A \in SUBSET (1..n), NEW B \in SUBSET (1..(n + 1)),
           \A i \in 1..n : i \in A <=> i + 1 \in B
    PROVE  /\ IsFiniteSet(A) /\ IsFiniteSet(B)
           /\ Cardinality(A) \in Nat
           /\ Cardinality(B) = Cardinality(A) + One(1 \in B)
<1> DEFINE C == {i + 1 : i \in A}
<1>0. IsFiniteSet(1..n) /\ IsFiniteSet(1..(n + 1))
    BY FS_Interval
<1>1. IsFiniteSet(A) /\ IsFiniteSet(B)
    BY <1>0, FS_Subset
<1>2. IsFiniteSet(C) /\ Cardinality(C) = Cardinality(A) /\ Cardinality(A) \in Nat
  <2>1. A \subseteq Nat
      OBVIOUS
  <2> QED
      BY <1>1, <2>1, Shifted, FS_CardinalityType
<1>3. 1 \notin C
    OBVIOUS
<1>4. \A i \in B : i = 1 \/ i \in C
  <2> SUFFICES ASSUME NEW i \in B, i # 1
               PROVE  i \in C
      OBVIOUS
  <2>1. i - 1 \in 1..n /\ (i - 1) + 1 = i
      OBVIOUS
  <2>2. i - 1 \in A
      BY <2>1
  <2> QED
      BY <2>1, <2>2
<1>5. C \subseteq B
    OBVIOUS
<1> HIDE DEF C
<1>6. CASE 1 \in B
  <2>1. B = C \cup {1}
      BY <1>4, <1>5, <1>6
  <2>2. Cardinality(C \cup {1}) = Cardinality(C) + 1
      BY <1>2, <1>3, FS_AddElement
  <2> QED
      BY <1>1, <1>2, <1>6, <2>1, <2>2 DEF One
<1>7. CASE 1 \notin B
  <2>1. B = C
      BY <1>4, <1>5, <1>7
  <2> QED
      BY <1>1, <1>2, <1>7, <2>1 DEF One
<1> QED
    BY <1>6, <1>7

LEMMA LastAdded ==
    ASSUME NEW n \in Nat, NEW A \in SUBSET (1..n), NEW B \in SUBSET (1..(n + 1)),
           \A i \in 1..n : i \in A <=> i \in B
    PROVE  Cardinality(B) = Cardinality(A) + One(n + 1 \in B) /\ Cardinality(A) \in Nat
<1>0. IsFiniteSet(1..n)
    BY FS_Interval
<1>1. IsFiniteSet(A) /\ Cardinality(A) \in Nat
    BY <1>0, FS_Subset, FS_CardinalityType
<1>2. n + 1 \notin A /\ \A i \in 1..(n + 1) : i \in 1..n \/ i = n + 1
    OBVIOUS
<1>3. CASE n + 1 \in B
  <2>1. B = A \cup {n + 1}
      BY <1>2, <1>3
  <2>2. Cardinality(A \cup {n + 1}) = Cardinality(A) + 1
      BY <1>1, <1>2, FS_AddElement
  <2> QED
      BY <1>1, <1>3, <2>1, <2>2 DEF One
<1>4. CASE n + 1 \notin B
  <2>1. B = A
      BY <1>2, <1>4
  <2> QED
      BY <1>1, <1>4, <2>1 DEF One
<1> QED
    BY <1>3, <1>4

(* Events and calls that name d.                                            *)
Named(d, s) == Cardinality(Naming(d, s))

LEMMA NamingType ==
    ASSUME NEW S, NEW s \in Seq(S), NEW d
    PROVE  Named(d, s) \in Nat
<1>1. IsFiniteSet(1..Len(s)) /\ Naming(d, s) \in SUBSET (1..Len(s))
    BY FS_Interval DEF Naming
<1> QED
    BY <1>1, FS_Subset, FS_CardinalityType DEF Named

LEMMA NamingTaken ==
    ASSUME NEW S, NEW s \in Seq(S), s # <<>>, NEW d
    PROVE  Named(d, s) = Named(d, Tail(s)) + One(Head(s).dObj = d)
<1> DEFINE n == Len(Tail(s))
<1>1. /\ n \in Nat /\ Len(s) = n + 1 /\ Head(s) = s[1] /\ 1 \in 1..Len(s)
      /\ \A i \in 1..n : Tail(s)[i] = s[i + 1] /\ i + 1 \in 1..(n + 1)
    BY Taken
<1>2. /\ Naming(d, Tail(s)) \in SUBSET (1..n) /\ Naming(d, s) \in SUBSET (1..(n + 1))
      /\ \A i \in 1..n : i \in Naming(d, Tail(s)) <=> i + 1 \in Naming(d, s)
      /\ 1 \in Naming(d, s) <=> Head(s).dObj = d
    BY <1>1 DEF Naming
<1> HIDE DEF n
<1>3. Named(d, s) = Named(d, Tail(s)) + One(1 \in Naming(d, s))
    BY <1>1, <1>2, FirstTaken DEF Named
<1> QED
    BY <1>2, <1>3 DEF One

LEMMA NamingAdded ==
    ASSUME NEW S, NEW s \in Seq(S), NEW x \in S, NEW d
    PROVE  Named(d, Append(s, x)) = Named(d, s) + One(x.dObj = d)
<1> DEFINE n == Len(s)
           r == Append(s, x)
<1>1. /\ n \in Nat /\ Len(r) = n + 1 /\ \A i \in 1..n : r[i] = s[i]
      /\ r[n + 1] = x /\ n + 1 \in 1..(n + 1) /\ 1..n \subseteq 1..(n + 1)
    BY Added
<1> HIDE DEF r
<1>2. /\ Naming(d, s) \in SUBSET (1..n) /\ Naming(d, r) \in SUBSET (1..(n + 1))
      /\ \A i \in 1..n : i \in Naming(d, s) <=> i \in Naming(d, r)
      /\ n + 1 \in Naming(d, r) <=> x.dObj = d
    BY <1>1 DEF Naming
<1> HIDE DEF n
<1>3. Named(d, r) = Named(d, s) + One(n + 1 \in Naming(d, r))
    BY <1>1, <1>2, LastAdded DEF Named
<1> QED
    BY <1>2, <1>3 DEF One, r

LEMMA NamingReplaced ==
    ASSUME NEW S, NEW s \in Seq(S), s # <<>>, NEW x \in S, NEW d,
           x.dObj = Head(s).dObj
    PROVE  Named(d, <<x>> \o Tail(s)) = Named(d, s)
<1> DEFINE r == <<x>> \o Tail(s)
<1>1. /\ Len(r) = Len(s) /\ Len(s) \in Nat \ {0} /\ r[1] = x
      /\ \A i \in 2..Len(s) : r[i] = s[i]
    BY Replaced
<1>2. Head(s) = s[1]
    OBVIOUS
<1> HIDE DEF r
<1>3. \A i \in 1..Len(s) : r[i].dObj = s[i].dObj
    BY <1>1, <1>2
<1>4. Naming(d, r) = Naming(d, s)
    BY <1>1, <1>3 DEF Naming
<1> QED
    BY <1>4 DEF Named, r

LEMMA NamingNone ==
    ASSUME NEW s, NEW d \in DObjs, \A i \in 1..Len(s) : s[i].dObj = None
    PROVE  Named(d, s) = 0
<1>1. Naming(d, s) = {}
    BY ProtocolConstants DEF Naming
<1> QED
    BY <1>1, FS_EmptySet DEF Named

(* Queued data objects.                                                     *)
LEMMA OccurrencesTaken ==
    ASSUME NEW q \in Seq(DObjs), q # <<>>, NEW d
    PROVE  Occurrences(d, q) = Occurrences(d, Tail(q)) + One(Head(q) = d)
<1> DEFINE n == Len(Tail(q))
           A == {i \in 1..Len(Tail(q)) : Tail(q)[i] = d}
           B == {i \in 1..Len(q) : q[i] = d}
<1>1. /\ n \in Nat /\ Len(q) = n + 1 /\ Head(q) = q[1] /\ 1 \in 1..Len(q)
      /\ \A i \in 1..n : Tail(q)[i] = q[i + 1] /\ i + 1 \in 1..(n + 1)
    BY Taken
<1>2. /\ A \in SUBSET (1..n) /\ B \in SUBSET (1..(n + 1))
      /\ \A i \in 1..n : i \in A <=> i + 1 \in B
      /\ 1 \in B <=> Head(q) = d
    BY <1>1
<1>3. Occurrences(d, q) = Cardinality(B) /\ Occurrences(d, Tail(q)) = Cardinality(A)
    BY DEF Occurrences
<1> HIDE DEF n, A, B
<1>4. Cardinality(B) = Cardinality(A) + One(1 \in B)
    BY <1>1, <1>2, FirstTaken
<1> QED
    BY <1>2, <1>3, <1>4 DEF One

LEMMA OccurrencesAdded ==
    ASSUME NEW q \in Seq(DObjs), NEW x \in DObjs, NEW d
    PROVE  Occurrences(d, Append(q, x)) = Occurrences(d, q) + One(x = d)
<1> DEFINE n == Len(q)
           r == Append(q, x)
           A == {i \in 1..Len(q) : q[i] = d}
           B == {i \in 1..Len(r) : r[i] = d}
<1>1. /\ n \in Nat /\ Len(r) = n + 1 /\ \A i \in 1..n : r[i] = q[i]
      /\ r[n + 1] = x /\ n + 1 \in 1..(n + 1) /\ 1..n \subseteq 1..(n + 1)
    BY Added
<1> HIDE DEF r
<1>2. /\ A \in SUBSET (1..n) /\ B \in SUBSET (1..(n + 1))
      /\ \A i \in 1..n : i \in A <=> i \in B
      /\ n + 1 \in B <=> x = d
    BY <1>1
<1>3. Occurrences(d, r) = Cardinality(B) /\ Occurrences(d, q) = Cardinality(A)
    BY DEF Occurrences
<1> HIDE DEF n, A, B
<1>4. Cardinality(B) = Cardinality(A) + One(n + 1 \in B)
    BY <1>1, <1>2, LastAdded
<1> QED
    BY <1>2, <1>3, <1>4 DEF One, r

LEMMA OccurrencesNone ==
    ASSUME NEW d
    PROVE  Occurrences(d, <<>>) = 0
<1>1. {i \in 1..Len(<<>>) : <<>>[i] = d} = {}
    OBVIOUS
<1> QED
    BY <1>1, FS_EmptySet DEF Occurrences

(* What the protocols hold: only p changes.                                 *)
LEMMA SendingChange ==
    ASSUME NEW d \in DObjs, NEW p \in Clients, IsFiniteSet(Sending(d)),
           \A r \in Clients : r # p => thr'[r].cur = thr[r].cur
    PROVE  /\ IsFiniteSet(Sending(d)')
           /\ Cardinality(Sending(d)) \in Nat
           /\ Cardinality(Sending(d)') + One(thr[p].cur = d)
                 = Cardinality(Sending(d)) + One(thr'[p].cur = d)
<1> DEFINE A == Sending(d)
           B == Sending(d)'
           R == A \ {p}
<1>1. /\ p \in A <=> thr[p].cur = d
      /\ p \in B <=> thr'[p].cur = d
      /\ B \ {p} = R
    BY DEF Sending
<1>2. B = R \/ B = R \cup {p}
    BY <1>1
<1>3. IsFiniteSet(A)
    OBVIOUS
<1> HIDE DEF A, B
<1>4. /\ IsFiniteSet(R) /\ Cardinality(A) \in Nat /\ Cardinality(R) \in Nat
      /\ Cardinality(R) = IF p \in A THEN Cardinality(A) - 1 ELSE Cardinality(A)
    BY <1>3, FS_RemoveElement, FS_CardinalityType
<1>5. p \notin R
    OBVIOUS
<1> HIDE DEF R
<1>6. /\ IsFiniteSet(R \cup {p}) /\ Cardinality(R \cup {p}) = Cardinality(R) + 1
    BY <1>4, <1>5, FS_AddElement
<1>7. /\ IsFiniteSet(B)
      /\ Cardinality(B) = Cardinality(R) + One(p \in B)
  <2>1. CASE B = R
      BY <1>4, <1>5, <2>1 DEF One
  <2>2. CASE B = R \cup {p}
    <3>1. p \in B
        BY <2>2
    <3> QED
        BY <1>6, <2>2, <3>1 DEF One
  <2> QED
      BY <1>2, <2>1, <2>2
<1>8. One(p \in A) = One(thr[p].cur = d) /\ One(p \in B) = One(thr'[p].cur = d)
    BY <1>1 DEF One
<1>9. Cardinality(A) = Cardinality(R) + One(p \in A) /\ One(p \in A) \in Nat /\ One(p \in B) \in Nat
    BY <1>4 DEF One
<1>10. Cardinality(B) + One(p \in A) = Cardinality(A) + One(p \in B)
    BY <1>4, <1>7, <1>9
<1> QED
    BY <1>4, <1>7, <1>8, <1>10 DEF A, B

Slots(d, q) == {i \in 1..Len(q) : q[i] = d}

LEMMA SlotsOf ==
    ASSUME NEW q \in Seq(DObjs), NEW d, NEW p, NEW R, IsFiniteSet(R),
           \A x \in R : x[1] # p
    PROVE  /\ IsFiniteSet(R \cup ({p} \X Slots(d, q)))
           /\ Cardinality(R \cup ({p} \X Slots(d, q)))
                 = Cardinality(R) + Occurrences(d, q)
<1> DEFINE T == Slots(d, q)
           P == {p} \X T
<1>1. IsFiniteSet(T) /\ Cardinality(T) = Occurrences(d, q) /\ Cardinality(T) \in Nat
    BY OccurrencesType DEF Slots, Occurrences
<1>2. IsFiniteSet({p}) /\ Cardinality({p}) = 1
    BY FS_Singleton
<1> HIDE DEF T
<1>3. IsFiniteSet(P) /\ Cardinality(P) = 1 * Cardinality(T)
    BY <1>1, <1>2, FS_Product
<1>4. Cardinality(P) = Occurrences(d, q) /\ Cardinality(P) \in Nat
    BY <1>1, <1>3
<1>5. R \cap P = {}
    OBVIOUS
<1> HIDE DEF P
<1>6. /\ IsFiniteSet(R \cup P)
      /\ Cardinality(R \cup P) = Cardinality(R) + Cardinality(P) - Cardinality(R \cap P)
    BY <1>3, FS_Union
<1>7. Cardinality(R \cap P) = 0 /\ Cardinality(R) \in Nat
    BY <1>5, FS_EmptySet, FS_CardinalityType
<1>8. Cardinality(R \cup P) = Cardinality(R) + Occurrences(d, q)
    BY <1>4, <1>6, <1>7
<1> QED
    BY <1>6, <1>8 DEF P, T

LEMMA WaitingChange ==
    ASSUME NEW d \in DObjs, NEW p \in Clients, IsFiniteSet(Waiting(d)),
           obj[p].q \in Seq(DObjs), obj'[p].q \in Seq(DObjs),
           \A r \in Clients : r # p => obj'[r].q = obj[r].q
    PROVE  /\ IsFiniteSet(Waiting(d)')
           /\ Cardinality(Waiting(d)) \in Nat
           /\ Cardinality(Waiting(d)') + Occurrences(d, obj[p].q)
                 = Cardinality(Waiting(d)) + Occurrences(d, obj'[p].q)
<1> DEFINE A == Waiting(d)
           B == Waiting(d)'
           R == UNION {{r} \X Slots(d, obj[r].q) : r \in Clients \ {p}}
           P == {p} \X Slots(d, obj[p].q)
           Q == {p} \X Slots(d, obj'[p].q)
<1>1. A = UNION {{r} \X Slots(d, obj[r].q) : r \in Clients}
    BY DEF Waiting, Slots
<1>2. B = UNION {{r} \X Slots(d, obj'[r].q) : r \in Clients}
    BY DEF Waiting, Slots
<1>3. A = R \cup P
    BY <1>1
<1>4. R = UNION {{r} \X Slots(d, obj'[r].q) : r \in Clients \ {p}}
    OBVIOUS
<1>5. B = R \cup Q
    BY <1>2, <1>4
<1>6. \A x \in R : x[1] # p
    OBVIOUS
<1>7. IsFiniteSet(A)
    OBVIOUS
<1> HIDE DEF A, B, R
<1>8. R \subseteq A
    BY <1>3
<1>9. IsFiniteSet(R) /\ Cardinality(A) \in Nat /\ Cardinality(R) \in Nat
    BY <1>7, <1>8, FS_Subset, FS_CardinalityType
<1>10. Cardinality(A) = Cardinality(R) + Occurrences(d, obj[p].q)
    BY <1>3, <1>6, <1>9, SlotsOf
<1>11. IsFiniteSet(B) /\ Cardinality(B) = Cardinality(R) + Occurrences(d, obj'[p].q)
    BY <1>5, <1>6, <1>9, SlotsOf
<1>12. Occurrences(d, obj[p].q) \in Nat /\ Occurrences(d, obj'[p].q) \in Nat
    BY OccurrencesType
<1>13. Cardinality(B) + Occurrences(d, obj[p].q) = Cardinality(A) + Occurrences(d, obj'[p].q)
    BY <1>9, <1>10, <1>11, <1>12
<1> QED
    BY <1>9, <1>11, <1>13 DEF A, B

-----------------------------------------------------------------------------
(* What is noted about the requests for d outside the protocols, and what   *)
(* p holds of them.                                                         *)
Noted(d) == Named(d, events) + Named(d, todo) + verdict[d]
Held(d, p) == Occurrences(d, obj[p].q) + One(thr[p].cur = d)

(* A step leaves what r holds to send.                                      *)
Idle(r) ==
    /\ obj'[r].q = obj[r].q /\ thr'[r].cur = thr[r].cur
    /\ obj'[r].life = "none" => obj[r].life = "none"

LEMMA NotedType ==
    ASSUME IInv, NEW d \in DObjs
    PROVE  /\ Named(d, events) \in Nat /\ Named(d, todo) \in Nat
           /\ verdict[d] \in Nat /\ requested[d] \in Nat /\ Noted(d) \in Nat
<1>1. events \in Seq(EventSet) /\ todo \in Seq(CallSet)
    BY DEF IInv, Types
<1>2. Named(d, events) \in Nat /\ Named(d, todo) \in Nat
    BY <1>1, NamingType
<1>3. verdict[d] \in Nat /\ requested[d] \in Nat
  <2>1. /\ verdict \in [DObjs -> Nat]
        /\ requested \in [DObjs -> 0..MaxRequests]
      BY DEF IInv, Types
  <2> QED
      BY <2>1
<1> QED
    BY <1>2, <1>3 DEF Noted

LEMMA NotedTypeNext ==
    ASSUME IInv', NEW d \in DObjs
    PROVE  /\ Named(d, events') \in Nat /\ Named(d, todo') \in Nat
           /\ verdict'[d] \in Nat /\ requested'[d] \in Nat /\ Noted(d)' \in Nat
<1>1. events' \in Seq(EventSet) /\ todo' \in Seq(CallSet)
    BY DEF IInv, Types
<1>2. Named(d, events') \in Nat /\ Named(d, todo') \in Nat
    BY <1>1, NamingType
<1>3. verdict'[d] \in Nat /\ requested'[d] \in Nat
  <2>1. /\ verdict' \in [DObjs -> Nat]
        /\ requested' \in [DObjs -> 0..MaxRequests]
      BY DEF IInv, Types
  <2> QED
      BY <2>1
<1>4. Noted(d)' = Named(d, events') + Named(d, todo') + verdict'[d]
    BY DEF Noted, Named, Naming
<1> QED
    BY <1>2, <1>3, <1>4

LEMMA HeldKept ==
    ASSUME IInv, IInv', VerdictInv, Registered' => Registered,
           \A r \in Protocols : Idle(r),
           \A d \in DObjs : requested'[d] + Noted(d) = requested[d] + Noted(d)'
    PROVE  VerdictInv'
<1>1. \A r \in Protocols : Unused(r)'
    BY DEF VerdictInv, Unused, Idle
<1>2. \A r \in Clients : r \in Protocols
    BY DEF Protocols
<1>3. \A d \in DObjs : Sending(d)' = Sending(d) /\ Waiting(d)' = Waiting(d)
    BY <1>2 DEF Sending, Waiting, Idle
<1>4. \A d \in DObjs : IsFiniteSet(Sending(d)') /\ IsFiniteSet(Waiting(d)')
    BY <1>3 DEF VerdictInv
<1>5. ASSUME Registered', NEW d \in DObjs
      PROVE  requested'[d] = Pending(d)' + verdict'[d]
  <2> DEFINE s == Cardinality(Sending(d))
             w == Cardinality(Waiting(d))
  <2>1. s \in Nat /\ w \in Nat
      BY FS_CardinalityType DEF VerdictInv
  <2>2. requested[d] = Named(d, events) + Named(d, todo) + s + w + verdict[d]
      BY <1>5 DEF VerdictInv, OneVerdictPerRequest, Pending, Named
  <2>3. Pending(d)' = Named(d, events') + Named(d, todo') + s + w
      BY <1>3 DEF Pending, Named, Naming
  <2>4. /\ Noted(d) = Named(d, events) + Named(d, todo) + verdict[d]
        /\ Noted(d)' = Named(d, events') + Named(d, todo') + verdict'[d]
      BY DEF Noted, Named, Naming
  <2>5. requested'[d] + Noted(d) = requested[d] + Noted(d)'
      OBVIOUS
  <2>7. /\ Named(d, events) \in Nat /\ Named(d, todo) \in Nat
        /\ verdict[d] \in Nat /\ requested[d] \in Nat
        /\ Named(d, events') \in Nat /\ Named(d, todo') \in Nat
        /\ verdict'[d] \in Nat /\ requested'[d] \in Nat
      BY NotedType, NotedTypeNext
  <2> HIDE DEF s, w
  <2> QED
      BY <2>1, <2>2, <2>3, <2>4, <2>5, <2>7
<1> QED
    BY <1>1, <1>4, <1>5 DEF VerdictInv, OneVerdictPerRequest

(* The sums of the next lemma.                                              *)
LEMMA Sums ==
    ASSUME NEW r \in Nat, NEW rr \in Nat, NEW e \in Nat, NEW ee \in Nat,
           NEW t \in Nat, NEW tt \in Nat, NEW v \in Nat, NEW vv \in Nat,
           NEW s \in Nat, NEW ss \in Nat, NEW w \in Nat, NEW ww \in Nat,
           NEW o \in Nat, NEW oo \in Nat, NEW c \in Nat, NEW cc \in Nat,
           r = e + t + s + w + v, ss + c = s + cc, ww + o = w + oo,
           rr + (e + t + v) + (o + c) = r + (ee + tt + vv) + (oo + cc)
    PROVE  rr = ee + tt + ss + ww + vv
OBVIOUS

(* Only p changes what it holds.                                            *)
LEMMA HeldChanges ==
    ASSUME IInv, IInv', VerdictInv, Registered' => Registered,
           NEW p \in Clients, obj'[p].life # "none",
           \A r \in Protocols : r # p => Idle(r),
           \A d \in DObjs : requested'[d] + Noted(d) + Held(d, p)
                                = requested[d] + Noted(d)' + Held(d, p)'
    PROVE  VerdictInv'
<1>0. /\ p \in Protocols /\ \A r \in Clients : r \in Protocols
      /\ obj[p].q \in Seq(DObjs) /\ obj'[p].q \in Seq(DObjs)
    BY DEF Protocols, IInv, Types, Objects
<1>1. \A r \in Protocols : Unused(r)'
  <2>1. Unused(p)'
      BY DEF Unused
  <2> QED
      BY <2>1 DEF VerdictInv, Unused, Idle
<1>2. ASSUME NEW d \in DObjs
      PROVE  /\ IsFiniteSet(Sending(d)')
             /\ Cardinality(Sending(d)) \in Nat
             /\ Cardinality(Sending(d)') + One(thr[p].cur = d)
                   = Cardinality(Sending(d)) + One(thr'[p].cur = d)
    BY <1>0, SendingChange DEF VerdictInv, Idle
<1>3. ASSUME NEW d \in DObjs
      PROVE  /\ IsFiniteSet(Waiting(d)')
             /\ Cardinality(Waiting(d)) \in Nat
             /\ Cardinality(Waiting(d)') + Occurrences(d, obj[p].q)
                   = Cardinality(Waiting(d)) + Occurrences(d, obj'[p].q)
    BY <1>0, WaitingChange DEF VerdictInv, Idle
<1>4. ASSUME Registered', NEW d \in DObjs
      PROVE  requested'[d] = Pending(d)' + verdict'[d]
  <2> DEFINE s == Cardinality(Sending(d))
             w == Cardinality(Waiting(d))
             ss == Cardinality(Sending(d)')
             ww == Cardinality(Waiting(d)')
             c == One(thr[p].cur = d)
             cc == One(thr'[p].cur = d)
             o == Occurrences(d, obj[p].q)
             oo == Occurrences(d, obj'[p].q)
  <2>1. /\ s \in Nat /\ w \in Nat /\ ss \in Nat /\ ww \in Nat
        /\ c \in Nat /\ cc \in Nat /\ o \in Nat /\ oo \in Nat
      BY <1>0, <1>2, <1>3, FS_CardinalityType, OccurrencesType DEF One
  <2>2. requested[d] = Named(d, events) + Named(d, todo) + s + w + verdict[d]
      BY <1>4 DEF VerdictInv, OneVerdictPerRequest, Pending, Named
  <2>3. Pending(d)' = Named(d, events') + Named(d, todo') + ss + ww
      BY DEF Pending, Named, Naming
  <2>4. /\ Noted(d) = Named(d, events) + Named(d, todo) + verdict[d]
        /\ Noted(d)' = Named(d, events') + Named(d, todo') + verdict'[d]
        /\ Held(d, p) = o + c
        /\ Held(d, p)' = oo + cc
      BY DEF Noted, Held, Named, Naming, Occurrences
  <2>5. requested'[d] + Noted(d) + Held(d, p) = requested[d] + Noted(d)' + Held(d, p)'
      OBVIOUS
  <2>6. ss + c = s + cc /\ ww + o = w + oo
      BY <1>2, <1>3
  <2>7. /\ Named(d, events) \in Nat /\ Named(d, todo) \in Nat
        /\ verdict[d] \in Nat /\ requested[d] \in Nat
        /\ Named(d, events') \in Nat /\ Named(d, todo') \in Nat
        /\ verdict'[d] \in Nat /\ requested'[d] \in Nat
      BY NotedType, NotedTypeNext
  <2> HIDE DEF s, w, ss, ww, c, cc, o, oo
  <2>8. requested'[d] + (Named(d, events) + Named(d, todo) + verdict[d]) + (o + c)
           = requested[d] + (Named(d, events') + Named(d, todo') + verdict'[d]) + (oo + cc)
      BY <2>4, <2>5
  <2>9. requested'[d] = Named(d, events') + Named(d, todo') + ss + ww + verdict'[d]
      BY <2>1, <2>2, <2>6, <2>7, <2>8, Sums
  <2> QED
      BY <2>3, <2>9
<1> QED
    BY <1>1, <1>2, <1>3, <1>4 DEF VerdictInv, OneVerdictPerRequest

-----------------------------------------------------------------------------
(* Steps that move no request                                               *)

LEMMA NoRequest ==
    ASSUME NEW d \in DObjs, NEW x, x = None
    PROVE  One(x = d) = 0
BY ProtocolConstants DEF One

LEMMA EventsName ==
    ASSUME IInv, NEW d \in DObjs,
           \/ UNCHANGED events
           \/ /\ events # <<>> /\ events' = Tail(events)
              /\ Head(events).type \notin Requests
           \/ \E e \in EventSet : e.type \notin Requests /\ events' = Append(events, e)
    PROVE  Named(d, events') = Named(d, events)
<1>0. events \in Seq(EventSet) /\ Named(d, events) \in Nat
    BY NotedType DEF IInv, Types
<1>1. CASE UNCHANGED events
    BY <1>1
<1>2. CASE /\ events # <<>> /\ events' = Tail(events)
           /\ Head(events).type \notin Requests
  <2>1. Head(events) \in EventSet /\ Tail(events) \in Seq(EventSet)
      BY <1>0, <1>2, Taken
  <2>2. Head(events).dObj = None
      BY <1>2, <2>1 DEF EventSet
  <2>3. Named(d, events) = Named(d, Tail(events)) + One(Head(events).dObj = d)
      BY <1>0, <1>2, NamingTaken
  <2>4. One(Head(events).dObj = d) = 0 /\ Named(d, Tail(events)) \in Nat
      BY <2>1, <2>2, NoRequest, NamingType
  <2> QED
      BY <1>2, <2>3, <2>4
<1>3. CASE \E e \in EventSet : e.type \notin Requests /\ events' = Append(events, e)
  <2>1. PICK e \in EventSet : e.type \notin Requests /\ events' = Append(events, e)
      BY <1>3
  <2>2. e.dObj = None
      BY <2>1 DEF EventSet
  <2>3. Named(d, Append(events, e)) = Named(d, events) + One(e.dObj = d)
      BY <1>0, NamingAdded
  <2>4. One(e.dObj = d) = 0
      BY <2>2, NoRequest
  <2> QED
      BY <1>0, <2>1, <2>3, <2>4
<1> QED
    BY <1>1, <1>2, <1>3

LEMMA CallsName ==
    ASSUME IInv, NEW d \in DObjs,
           \/ UNCHANGED todo
           \/ todo # <<>> /\ todo' = Tail(todo) /\ Head(todo).dObj = None
           \/ /\ todo # <<>>
              /\ \E c \in CallSet : /\ todo' = <<c>> \o Tail(todo)
                                    /\ c.dObj = Head(todo).dObj
           \/ todo = <<>> /\ \A i \in 1..Len(todo') : todo'[i].dObj = None
    PROVE  Named(d, todo') = Named(d, todo)
<1>0. todo \in Seq(CallSet)
    BY DEF IInv, Types
<1>1. CASE UNCHANGED todo
    BY <1>1
<1>2. CASE todo # <<>> /\ todo' = Tail(todo) /\ Head(todo).dObj = None
  <2>1. Named(d, todo) = Named(d, Tail(todo)) + One(Head(todo).dObj = d)
      BY <1>0, <1>2, NamingTaken
  <2>2. Tail(todo) \in Seq(CallSet)
      BY <1>0, <1>2, Taken
  <2>3. One(Head(todo).dObj = d) = 0 /\ Named(d, Tail(todo)) \in Nat
      BY <1>2, <2>2, NoRequest, NamingType
  <2> QED
      BY <1>2, <2>1, <2>3
<1>3. CASE /\ todo # <<>>
           /\ \E c \in CallSet : /\ todo' = <<c>> \o Tail(todo)
                                 /\ c.dObj = Head(todo).dObj
    BY <1>0, <1>3, NamingReplaced
<1>4. CASE todo = <<>> /\ \A i \in 1..Len(todo') : todo'[i].dObj = None
  <2>1. Named(d, todo') = 0
      BY <1>4, NamingNone
  <2>2. Named(d, todo) = 0
      BY <1>4, NamingNone
  <2> QED
      BY <2>1, <2>2
<1> QED
    BY <1>1, <1>2, <1>3, <1>4

LEMMA VerdictKept ==
    ASSUME IInv, IInv', VerdictInv, Registered' => Registered,
           \A r \in Protocols : Idle(r), UNCHANGED <<requested, verdict>>,
           \A d \in DObjs : /\ Named(d, events') = Named(d, events)
                            /\ Named(d, todo') = Named(d, todo)
    PROVE  VerdictInv'
<1>1. \A d \in DObjs : Noted(d)' = Noted(d)
    BY DEF Noted, Named, Naming
<1> QED
    BY <1>1, HeldKept

-----------------------------------------------------------------------------
(* The threads                                                              *)

LEMMA ThreadTakes ==
    ASSUME IInv, IInv', VerdictInv, NEW p \in Clients, Runs(p), takeElement(p)
    PROVE  VerdictInv'
<1>1. /\ Moves(p) /\ obj[p].q \in Seq(DObjs) /\ obj[p].q # <<>>
      /\ obj'[p].q = Tail(obj[p].q)
      /\ thr'[p].cur = Head(obj[p].q) /\ thr[p].cur \notin DObjs
    BY TakeElementMoves DEF IInv
<1>2. UNCHANGED <<state, events, todo, requested, verdict>>
    BY DEF takeElement, kernelVars, historyVars
<1>3. /\ \A r \in Protocols : r # p => Idle(r)
      /\ obj'[p].life # "none"
  <2>1. p \in Protocols /\ thr[p].pc # "none"
      BY <1>1 DEF Protocols, Moves, ThreadGone
  <2>2. obj[p].life # "none"
      BY <2>1 DEF IInv, ThreadInv, Owned
  <2> QED
      BY <1>1, <2>2 DEF Moves, Idle
<1>4. ASSUME NEW d \in DObjs
      PROVE  requested'[d] + Noted(d) + Held(d, p) = requested[d] + Noted(d)' + Held(d, p)'
  <2>1. Noted(d)' = Noted(d)
      BY <1>2 DEF Noted, Named, Naming
  <2>2. Occurrences(d, obj[p].q) = Occurrences(d, Tail(obj[p].q)) + One(Head(obj[p].q) = d)
      BY <1>1, OccurrencesTaken
  <2>3. One(thr[p].cur = d) = 0
      BY <1>1 DEF One
  <2>4. Held(d, p)' = Occurrences(d, Tail(obj[p].q)) + One(Head(obj[p].q) = d)
      BY <1>1 DEF Held, Occurrences
  <2>5. Occurrences(d, obj[p].q) \in Nat
      BY <1>1, OccurrencesType
  <2>6. Held(d, p)' = Held(d, p)
      BY <2>2, <2>3, <2>4, <2>5 DEF Held
  <2> QED
      BY <1>2, <2>1, <2>6
<1> QED
    BY <1>2, <1>3, <1>4, HeldChanges DEF Registered

LEMMA ThreadSends ==
    ASSUME IInv, IInv', VerdictInv, NEW p \in Clients, Runs(p), Sent(p)
    PROVE  VerdictInv'
<1>1. /\ Moves(p) /\ obj'[p].q = obj[p].q
      /\ thr[p].cur \in DObjs /\ thr'[p].cur = None
      /\ verdict' = [verdict EXCEPT ![thr[p].cur] = verdict[thr[p].cur] + 1]
      /\ UNCHANGED <<state, events, todo, requested>>
    BY SendMoves DEF IInv, Sent, kernelVars
<1>3. /\ \A r \in Protocols : r # p => Idle(r)
      /\ obj'[p].life # "none" /\ p \in Protocols
  <2>1. p \in Protocols /\ thr[p].pc # "none"
      BY <1>1 DEF Protocols, Moves, ThreadGone
  <2>2. obj[p].life # "none"
      BY <2>1 DEF IInv, ThreadInv, Owned
  <2> QED
      BY <1>1, <2>1, <2>2 DEF Moves, Idle
<1>4. ASSUME NEW d \in DObjs
      PROVE  requested'[d] + Noted(d) + Held(d, p) = requested[d] + Noted(d)' + Held(d, p)'
  <2>1. /\ Named(d, events) \in Nat /\ Named(d, todo) \in Nat
        /\ verdict[d] \in Nat /\ requested[d] \in Nat
      BY NotedType
  <2>2. verdict'[d] = verdict[d] + One(thr[p].cur = d)
    <3>1. verdict \in [DObjs -> Nat]
        BY DEF IInv, Types
    <3> QED
        BY <1>1, <2>1, <3>1 DEF One
  <2>3. Noted(d)' = Named(d, events) + Named(d, todo) + verdict'[d]
      BY <1>1 DEF Noted, Named, Naming
  <2>4. One(thr'[p].cur = d) = 0
      BY <1>1, NoRequest
  <2>5. Held(d, p)' = Occurrences(d, obj[p].q) + One(thr'[p].cur = d)
      BY <1>1 DEF Held, Occurrences
  <2>6. Occurrences(d, obj[p].q) \in Nat
      BY <1>3, OccurrencesType DEF IInv, Types, Objects
  <2>7. One(thr[p].cur = d) \in Nat
      BY DEF One
  <2> QED
      BY <1>1, <2>1, <2>2, <2>3, <2>4, <2>5, <2>6, <2>7 DEF Noted, Held
<1> QED
    BY <1>1, <1>3, <1>4, HeldChanges DEF Registered

LEMMA ThreadVerdicts ==
    ASSUME IInv, IInv', VerdictInv, NEW p \in Clients, Thread(p),
           ~(thr[p].pc = "garbage" /\ thr[p].detached)
    PROVE  VerdictInv'
<1>1. Runs(p)
    BY ThreadRuns
<1>2. CASE takeElement(p)
    BY <1>1, <1>2, ThreadTakes
<1>3. CASE Sent(p)
    BY <1>1, <1>3, ThreadSends
<1>4. CASE Holds(p) /\ UNCHANGED verdict
  <2>1. \A r \in Protocols : Idle(r)
      BY <1>1, <1>4 DEF Runs, Moves, Holds, Idle
  <2>2. UNCHANGED <<state, todo, requested>>
      BY <1>1 DEF Runs
  <2>3. /\ Event("DELETE", p, None, None) \in EventSet
        /\ Event("DELETE", p, None, None).type \notin Requests
      BY EventIn DEF Protocols, Requests
  <2>4. \A d \in DObjs : Named(d, events') = Named(d, events)
      BY <1>1, <2>3, EventsName DEF Runs
  <2> QED
      BY <1>4, <2>1, <2>2, <2>4, VerdictKept DEF Registered
<1> QED
    BY <1>1, <1>2, <1>3, <1>4 DEF Runs

-----------------------------------------------------------------------------
(* The kernel thread                                                        *)

LEMMA AllIdle ==
    ASSUME UNCHANGED <<obj, thr>>
    PROVE  \A r \in Protocols : Idle(r)
BY DEF Idle

(* Handlers that shut down or kill registered protocols.                    *)
LEMMA CallsForNobody ==
    ASSUME IInv, NEW op \in {"shutdown", "kill"}, NEW S, S \subseteq registry,
           todo' = Calls(op, S), todo = <<>>, NEW d \in DObjs
    PROVE  Named(d, todo') = Named(d, todo)
<1>1. IsFiniteSet(S) /\ S \subseteq Protocols
    BY FS_Subset DEF IInv, RegistryInv, Types
<1>2. \A i \in 1..Len(todo') : todo'[i].dObj = None
    BY <1>1, CallsOf
<1> QED
    BY <1>2, CallsName

LEMMA HandlersVerdicts ==
    ASSUME IInv, IInv', VerdictInv,
           \/ onLocalInterfaceDown
           \/ \E t \in Peers : onNeighborInterfaceDown(t)
           \/ onPrepareShutdown
           \/ onShutdown
           \/ onProtocolShutdownTimeout
    PROVE  VerdictInv'
<1>1. /\ UNCHANGED <<obj, thr, requested, verdict>> /\ todo = <<>>
      /\ Registered' => Registered
      /\ \/ UNCHANGED todo
         \/ \E op \in {"shutdown", "kill"}, S \in SUBSET registry : todo' = Calls(op, S)
      /\ \/ UNCHANGED events
         \/ /\ events # <<>> /\ events' = Tail(events)
            /\ Head(events).type = "SHUTDOWN_TIMEOUT"
    BY DEF onLocalInterfaceDown, onNeighborInterfaceDown, onPrepareShutdown, onShutdown,
       onProtocolShutdownTimeout, historyVars, KernelIdle, Deliver, Registered
<1>2. \A d \in DObjs : Named(d, todo') = Named(d, todo)
  <2>1. CASE UNCHANGED todo
      BY <2>1
  <2>2. CASE \E op \in {"shutdown", "kill"}, S \in SUBSET registry : todo' = Calls(op, S)
      BY <1>1, <2>2, CallsForNobody
  <2> QED
      BY <1>1, <2>1, <2>2
<1>3. \A d \in DObjs : Named(d, events') = Named(d, events)
  <2>1. "SHUTDOWN_TIMEOUT" \notin Requests
      BY DEF Requests
  <2> QED
      BY <1>1, <2>1, EventsName
<1> QED
    BY <1>1, <1>2, <1>3, AllIdle, VerdictKept

LEMMA KillerVerdicts ==
    ASSUME IInv, IInv', VerdictInv, killerExpires
    PROVE  VerdictInv'
<1>1. /\ events' = Append(events, Event("SHUTDOWN_TIMEOUT", None, None, None))
      /\ UNCHANGED <<state, todo, obj, thr, requested, verdict>>
    BY DEF killerExpires, addEvent, historyVars
<1>2. /\ Event("SHUTDOWN_TIMEOUT", None, None, None) \in EventSet
      /\ Event("SHUTDOWN_TIMEOUT", None, None, None).type \notin Requests
    BY EventIn DEF Requests
<1>3. \A d \in DObjs : Named(d, events') = Named(d, events)
    BY <1>1, <1>2, EventsName
<1> QED
    BY <1>1, <1>3, AllIdle, VerdictKept DEF Registered

LEMMA DeleteEventVerdicts ==
    ASSUME IInv, IInv', VerdictInv, onDeleteProtocolEvent
    PROVE  VerdictInv'
<1>0. PICK p : p = Head(events).prot
    OBVIOUS
<1>1. /\ todo = <<>> /\ events # <<>> /\ Head(events).type = "DELETE"
    BY Delivered DEF onDeleteProtocolEvent
<1>2. /\ events' = Tail(events)
      /\ UNCHANGED <<state, obj, thr, requested, verdict>>
      /\ \/ UNCHANGED todo
         \/ todo' = <<Call("join", p, None), Call("delete", p, None),
                      Call("checkShutdown", p, None)>>
    BY <1>0 DEF onDeleteProtocolEvent
<1>3. \A d \in DObjs : Named(d, events') = Named(d, events)
    BY <1>1, <1>2, EventsName DEF Requests
<1>4. \A d \in DObjs : Named(d, todo') = Named(d, todo)
  <2>1. CASE UNCHANGED todo
      BY <2>1
  <2>2. CASE todo' = <<Call("join", p, None), Call("delete", p, None),
                       Call("checkShutdown", p, None)>>
    <3>1. \A i \in 1..Len(todo') : todo'[i].dObj = None
        BY <2>2 DEF Call
    <3> QED
        BY <1>1, <3>1, CallsName
  <2> QED
      BY <1>2, <2>1, <2>2
<1> QED
    BY <1>2, <1>3, <1>4, AllIdle, VerdictKept DEF Registered

LEMMA AddEventVerdicts ==
    ASSUME IInv, IInv', VerdictInv, onAddProtocolEvent
    PROVE  VerdictInv'
<1>0. PICK p : p = Head(events).prot
    OBVIOUS
<1>1. /\ todo = <<>> /\ events # <<>> /\ Head(events).type = "ADD"
      /\ Head(events) \in EventSet
    BY Delivered DEF onAddProtocolEvent
<1>2. /\ events' = Tail(events)
      /\ UNCHANGED <<state, thr, requested, verdict>>
      /\ \/ UNCHANGED todo
         \/ todo' = <<Call("shutdown", p, None), Call("join", p, None)>>
      /\ UNCHANGED obj \/ obj' = [obj EXCEPT ![p].isRegistered = TRUE]
    BY <1>0 DEF onAddProtocolEvent, historyVars
<1>3. \A d \in DObjs : Named(d, events') = Named(d, events)
    BY <1>1, <1>2, EventsName DEF Requests
<1>4. \A d \in DObjs : Named(d, todo') = Named(d, todo)
  <2>1. CASE UNCHANGED todo
      BY <2>1
  <2>2. CASE todo' = <<Call("shutdown", p, None), Call("join", p, None)>>
    <3>1. \A i \in 1..Len(todo') : todo'[i].dObj = None
        BY <2>2 DEF Call
    <3> QED
        BY <1>1, <3>1, CallsName
  <2> QED
      BY <1>2, <2>1, <2>2
<1>5. \A r \in Protocols : Idle(r)
  <2>1. CASE UNCHANGED obj
      BY <1>2, <2>1, AllIdle
  <2>2. CASE obj' = [obj EXCEPT ![p].isRegistered = TRUE]
    <3>1. \A r \in Protocols : obj'[r].q = obj[r].q /\ obj'[r].life = obj[r].life
        BY <2>2 DEF IInv, Types, Objects
    <3> QED
        BY <1>2, <3>1 DEF Idle
  <2> QED
      BY <1>2, <2>1, <2>2
<1> QED
    BY <1>2, <1>3, <1>4, <1>5, VerdictKept DEF Registered

(* Calls of protocols that leave what they hold.                            *)
LEMMA CallsVerdicts ==
    ASSUME IInv, IInv', VerdictInv,
           testRegistered \/ checkShutdown \/ shutdown \/ cancel \/ join
           \/ unregisterByKernel
    PROVE  VerdictInv'
<1>0. PICK p : p = Head(todo).prot
    OBVIOUS
<1>a. PICK call \in {"testRegistered", "checkShutdown", "shutdown", "cancel", "join",
                  "unregister"} : NextCall(call)
    BY DEF testRegistered, checkShutdown, shutdown, cancel, join, unregisterByKernel
<1>1. /\ todo # <<>> /\ Head(todo).dObj = None /\ p \in Protocols
    BY <1>0, <1>a, CallMade
<1>2. /\ UNCHANGED <<requested, verdict>>
      /\ Registered' => Registered
      /\ UNCHANGED events \/ events' = Append(events, Event("DELETE", p, None, None))
      /\ \/ todo' = Tail(todo)
         \/ \E op \in {"cancel", "testRegistered", "unregister"} :
               todo' = <<Call(op, p, None)>> \o Tail(todo)
      /\ \/ UNCHANGED obj
         \/ obj' = [obj EXCEPT ![p].mode = "DONE"]
         \/ obj' = [obj EXCEPT ![p].isRegistered = FALSE, ![p].unregistered = @ + 1]
      /\ \/ UNCHANGED thr
         \/ thr' = [thr EXCEPT ![p].state = "JOINED"]
         \/ thr' = [thr EXCEPT ![p].state = "CANCELLED", ![p].exitSignal = TRUE]
    BY <1>0 DEF testRegistered, checkShutdown, shutdown, cancel, join,
       unregisterByKernel, unregister, addEvent, historyVars, Registered
<1>3. \A d \in DObjs : Named(d, events') = Named(d, events)
  <2>1. /\ Event("DELETE", p, None, None) \in EventSet
        /\ Event("DELETE", p, None, None).type \notin Requests
      BY <1>1, EventIn DEF Requests
  <2> QED
      BY <1>2, <2>1, EventsName
<1>4. \A d \in DObjs : Named(d, todo') = Named(d, todo)
  <2>1. \A op \in {"cancel", "testRegistered", "unregister"} :
           Call(op, p, None) \in CallSet /\ Call(op, p, None).dObj = None
      BY <1>1, CallIn DEF CallNames
  <2> QED
      BY <1>1, <1>2, <2>1, CallsName
<1>5. \A r \in Protocols : obj'[r].q = obj[r].q /\ obj'[r].life = obj[r].life
  <2>0. obj \in [Protocols -> Objects]
      BY DEF IInv, Types
  <2>1. CASE UNCHANGED obj
      BY <2>1
  <2>2. CASE obj' = [obj EXCEPT ![p].mode = "DONE"]
      BY <1>1, <2>0, <2>2 DEF Objects
  <2>3. CASE obj' = [obj EXCEPT ![p].isRegistered = FALSE, ![p].unregistered = @ + 1]
      BY <1>1, <2>0, <2>3 DEF Objects
  <2> QED
      BY <1>2, <2>1, <2>2, <2>3
<1>6. \A r \in Protocols : thr'[r].cur = thr[r].cur
  <2>1. ThreadsOK
      BY DEF IInv, Types, ThreadsOK
  <2>2. /\ \A r \in Protocols : r # p => thr'[r] = thr[r]
        /\ thr'[p].cur = thr[p].cur
      BY <1>1, <1>2, <2>1, ThreadPut
  <2> QED
      BY <2>2
<1>7. \A r \in Protocols : Idle(r)
    BY <1>5, <1>6 DEF Idle
<1> QED
    BY <1>2, <1>3, <1>4, <1>7, VerdictKept

(* New protocols hold nothing.                                              *)
LEMMA CreationIdle ==
    ASSUME IInv, VerdictInv, NEW p \in Protocols, obj[p].life = "none",
           NEW o \in Objects, o.q = <<>>, o.life = "live", obj' = [obj EXCEPT ![p] = o],
           \/ UNCHANGED thr
           \/ /\ p \in Clients
              /\ thr' = [thr EXCEPT ![p].pc = "begin", ![p].state = "RUNNING",
                                    ![p].connected = TRUE]
    PROVE  \A r \in Protocols : Idle(r)
<1>1. /\ \A r \in Protocols : r # p => obj'[r] = obj[r] /\ thr'[r] = thr[r]
      /\ obj'[p] = o /\ thr'[p].cur = thr[p].cur
    BY Creation
<1>2. obj[p].q = <<>>
    BY DEF VerdictInv, Unused
<1> QED
    BY <1>1, <1>2 DEF Idle

LEMMA InterfaceUpVerdicts ==
    ASSUME IInv, IInv', VerdictInv, onLocalInterfaceUp
    PROVE  VerdictInv'
<1> DEFINE o == [NoObject EXCEPT !.life = "live", !.mode = "LISTENING",
                                 !.isRegistered = TRUE]
<1>1. PICK p \in Servers : obj[p].life = "none" /\ obj' = [obj EXCEPT ![p] = o]
    BY DEF onLocalInterfaceUp
<1>2. UNCHANGED <<state, events, todo, thr, requested, verdict>>
    BY DEF onLocalInterfaceUp, historyVars
<1>3. o.q = <<>> /\ o.life = "live" /\ p \in Protocols
    BY DEF NoObject, Protocols
<1>4. o \in Objects
  <2>1. <<>> \in Seq(DObjs)
      OBVIOUS
  <2>2. NoObject \in Objects
      BY <2>1 DEF NoObject, Objects, Lives, Modes
  <2> QED
      BY <2>2, Names DEF Objects
<1> HIDE DEF o
<1>5. \A r \in Protocols : Idle(r)
    BY <1>1, <1>2, <1>3, <1>4, CreationIdle
<1> QED
    BY <1>2, <1>5, VerdictKept DEF Registered

LEMMA AcceptVerdicts ==
    ASSUME IInv, IInv', VerdictInv, acceptClient
    PROVE  VerdictInv'
<1>1. PICK p \in Receivers, t \in Peers :
         /\ obj[p].life = "none"
         /\ obj' = [obj EXCEPT ![p] = [NoObject EXCEPT !.life = "live", !.peer = t,
                                                       !.isRegistered = TRUE]]
         /\ thr' = [thr EXCEPT ![p].pc = "begin", ![p].state = "RUNNING",
                               ![p].connected = TRUE]
         /\ events' = Append(events, Event("ADD", p, None, None))
    BY DEF acceptClient, addEvent
<1>2. UNCHANGED <<state, todo, requested, verdict>>
    BY DEF acceptClient, historyVars
<1> DEFINE o == [NoObject EXCEPT !.life = "live", !.peer = t, !.isRegistered = TRUE]
<1>3. /\ o \in Objects /\ o.life = "live" /\ o.q = <<>> /\ obj' = [obj EXCEPT ![p] = o]
      /\ p \in Protocols /\ p \in Clients
    BY <1>1, NewObject DEF Protocols, Clients
<1> HIDE DEF o
<1>4. \A r \in Protocols : Idle(r)
    BY <1>1, <1>3, CreationIdle
<1>5. /\ Event("ADD", p, None, None) \in EventSet
      /\ Event("ADD", p, None, None).type \notin Requests
    BY EventIn DEF Requests
<1>6. \A d \in DObjs : Named(d, events') = Named(d, events)
    BY <1>1, <1>5, EventsName
<1> QED
    BY <1>2, <1>4, <1>6, VerdictKept DEF Registered

-----------------------------------------------------------------------------
(* Steps that move a request                                                *)

LEMMA GivenVerdict ==
    ASSUME IInv, NEW d \in DObjs, NEW x \in DObjs, Verdict(x)
    PROVE  verdict'[d] = verdict[d] + One(x = d)
<1>1. verdict \in [DObjs -> Nat] /\ verdict' = [verdict EXCEPT ![x] = verdict[x] + 1]
    BY DEF IInv, Types, Verdict
<1> QED
    BY <1>1 DEF One

LEMMA RequestCounted ==
    ASSUME IInv, IInv', VerdictInv, NEW x \in DObjs, NEW t \in Peers, RequestSend(x, t)
    PROVE  VerdictInv'
<1> DEFINE e == Event("SEND", None, x, t)
<1>1. /\ requested' = [requested EXCEPT ![x] = requested[x] + 1]
      /\ events' = Append(events, e)
      /\ UNCHANGED <<state, todo, obj, thr, verdict>>
    BY DEF RequestSend, addEvent
<1>2. e \in EventSet /\ e.dObj = x
    BY EventIn DEF Requests
<1> HIDE DEF e
<1>3. ASSUME NEW d \in DObjs
      PROVE  requested'[d] + Noted(d) = requested[d] + Noted(d)'
  <2>1. /\ Named(d, events) \in Nat /\ Named(d, todo) \in Nat
        /\ verdict[d] \in Nat /\ requested[d] \in Nat
      BY NotedType
  <2>2. requested'[d] = requested[d] + One(x = d)
    <3>1. requested \in [DObjs -> 0..MaxRequests]
        BY DEF IInv, Types
    <3> QED
        BY <1>1, <2>1, <3>1 DEF One
  <2>3. Named(d, events') = Named(d, events) + One(x = d)
    <3>1. events \in Seq(EventSet)
        BY DEF IInv, Types
    <3> QED
        BY <1>1, <1>2, <3>1, NamingAdded
  <2>4. Noted(d)' = Named(d, events') + Named(d, todo) + verdict[d]
      BY <1>1 DEF Noted, Named, Naming
  <2>5. One(x = d) \in Nat
      BY DEF One
  <2> QED
      BY <2>1, <2>2, <2>3, <2>4, <2>5 DEF Noted
<1> QED
    BY <1>1, <1>3, AllIdle, HeldKept DEF Registered

LEMMA RequestRaisedAgain ==
    ASSUME IInv, IInv', VerdictInv, onSendDataObject
    PROVE  VerdictInv'
<1> DEFINE e == [Head(events) EXCEPT !.type = "SEND_ACTUAL"]
           rest == Tail(events)
<1>1. /\ events # <<>> /\ events \in Seq(EventSet)
      /\ Head(events) \in EventSet /\ Head(events).type = "SEND"
    BY Delivered DEF onSendDataObject
<1>2. e \in EventSet /\ e.dObj = Head(events).dObj
    BY <1>1, RequestTaken DEF Requests
<1>3. /\ events' = Append(rest, e)
      /\ UNCHANGED <<state, todo, obj, thr, requested, verdict>>
    BY DEF onSendDataObject, historyVars
<1>4. rest \in Seq(EventSet)
    BY <1>1, Taken
<1>5. \A d \in DObjs : Named(d, events) = Named(d, rest) + One(e.dObj = d)
    BY <1>1, <1>2, NamingTaken
<1> HIDE DEF e, rest
<1>6. \A d \in DObjs : Named(d, events') = Named(d, rest) + One(e.dObj = d)
    BY <1>2, <1>3, <1>4, NamingAdded
<1> QED
    BY <1>3, <1>5, <1>6, AllIdle, VerdictKept DEF Registered

(* After the manager is gone nobody answers.                                *)
LEMMA RequestUnheard ==
    ASSUME IInv, IInv', VerdictInv, sendUnheard
    PROVE  VerdictInv'
<1>1. UNCHANGED <<state, obj, thr>> /\ ~Registered
    BY DEF sendUnheard
<1>2. \A d \in DObjs : Sending(d)' = Sending(d) /\ Waiting(d)' = Waiting(d)
    BY <1>1 DEF Sending, Waiting
<1>3. ~Registered'
    BY <1>1 DEF Registered
<1>4. \A r \in Protocols : Unused(r)'
    BY <1>1 DEF VerdictInv, Unused
<1>5. \A d \in DObjs : IsFiniteSet(Sending(d)') /\ IsFiniteSet(Waiting(d)')
    BY <1>2 DEF VerdictInv
<1> QED
    BY <1>3, <1>4, <1>5 DEF VerdictInv, OneVerdictPerRequest

(* The request becomes a call of the protocol that was found or created.    *)
LEMMA RequestPassed ==
    ASSUME IInv, IInv', VerdictInv, SendFound \/ SendCreate
    PROVE  VerdictInv'
<1> DEFINE x == Head(events).dObj
           t == Head(events).peer
           o == [NoObject EXCEPT !.life = "live", !.peer = t, !.isRegistered = TRUE]
<1>a. Deliver("SEND_ACTUAL")
    BY DEF SendFound, SendCreate
<1>1. /\ todo = <<>> /\ events # <<>> /\ events \in Seq(EventSet)
      /\ Head(events) \in EventSet /\ Head(events).type = "SEND_ACTUAL"
    BY <1>a, Delivered
<1>2. x \in DObjs /\ t \in Peers
    BY <1>1, RequestTaken DEF Requests
<1>3. /\ events' = Tail(events)
      /\ UNCHANGED <<state, thr, requested, verdict>>
    BY DEF SendFound, SendCreate, historyVars
<1>4. PICK p \in Senders :
         /\ todo' = <<Call("sendDataObject", p, x)>>
         /\ \/ UNCHANGED obj
            \/ obj[p].life = "none" /\ obj' = [obj EXCEPT ![p] = o]
    BY DEF SendFound, SendCreate, Usable
<1> DEFINE c == Call("sendDataObject", p, x)
<1>5. c \in CallSet /\ c.dObj = x /\ p \in Protocols
    BY <1>2, <1>4, CallIn DEF Protocols, Clients
<1>6. o \in Objects /\ o.life = "live" /\ o.q = <<>>
    BY <1>2, NewObject
<1>7. \A d \in DObjs : Named(d, events) = Named(d, Tail(events)) + One(x = d)
    BY <1>1, NamingTaken
<1> HIDE DEF x, t, o, c
<1>8. \A r \in Protocols : Idle(r)
  <2>1. CASE UNCHANGED obj
      BY <1>3, <2>1, AllIdle
  <2>2. CASE obj[p].life = "none" /\ obj' = [obj EXCEPT ![p] = o]
      BY <1>3, <1>5, <1>6, <2>2, CreationIdle
  <2> QED
      BY <1>4, <2>1, <2>2
<1>9. todo' = Append(todo, c)
    BY <1>1, <1>4 DEF c
<1>10. ASSUME NEW d \in DObjs
       PROVE  requested'[d] + Noted(d) = requested[d] + Noted(d)'
  <2>1. /\ Named(d, events) \in Nat /\ Named(d, todo) \in Nat
        /\ verdict[d] \in Nat /\ requested[d] \in Nat
      BY NotedType
  <2>2. Named(d, todo') = Named(d, todo) + One(x = d)
    <3>1. todo \in Seq(CallSet)
        BY DEF IInv, Types
    <3> QED
        BY <1>5, <1>9, <3>1, NamingAdded
  <2>3. Named(d, events') \in Nat
      BY NotedTypeNext
  <2>4. Named(d, events) = Named(d, events') + One(x = d)
      BY <1>3, <1>7
  <2>5. Noted(d)' = Named(d, events') + Named(d, todo') + verdict[d]
      BY <1>3 DEF Noted, Named, Naming
  <2>6. One(x = d) \in Nat
      BY DEF One
  <2> QED
      BY <1>3, <2>1, <2>2, <2>3, <2>4, <2>5, <2>6 DEF Noted
<1> QED
    BY <1>3, <1>8, <1>10, HeldKept DEF Registered

LEMMA RequestFailed ==
    ASSUME IInv, IInv', VerdictInv, SendImpossible
    PROVE  VerdictInv'
<1> DEFINE x == Head(events).dObj
<1>1. /\ events # <<>> /\ events \in Seq(EventSet)
      /\ Head(events) \in EventSet /\ Head(events).type = "SEND_ACTUAL"
    BY Delivered DEF SendImpossible
<1>2. x \in DObjs
    BY <1>1, RequestTaken DEF Requests
<1>3. /\ events' = Tail(events) /\ Verdict(x)
      /\ UNCHANGED <<state, todo, obj, thr, requested>>
    BY DEF SendImpossible
<1>4. \A d \in DObjs : Named(d, events) = Named(d, Tail(events)) + One(x = d)
    BY <1>1, NamingTaken
<1> HIDE DEF x
<1>5. ASSUME NEW d \in DObjs
      PROVE  requested'[d] + Noted(d) = requested[d] + Noted(d)'
  <2>1. /\ Named(d, events') \in Nat /\ Named(d, todo) \in Nat
        /\ verdict[d] \in Nat /\ requested[d] \in Nat
      BY NotedType, NotedTypeNext
  <2>2. verdict'[d] = verdict[d] + One(x = d)
      BY <1>2, <1>3, GivenVerdict
  <2>3. Named(d, events) = Named(d, events') + One(x = d)
      BY <1>3, <1>4
  <2>4. Noted(d)' = Named(d, events') + Named(d, todo) + verdict'[d]
      BY <1>3 DEF Noted, Named, Naming
  <2>5. One(x = d) \in Nat
      BY DEF One
  <2> QED
      BY <1>3, <2>1, <2>2, <2>3, <2>4, <2>5 DEF Noted
<1> QED
    BY <1>3, <1>5, AllIdle, HeldKept DEF Registered

LEMMA CallAnswered ==
    ASSUME IInv, IInv', VerdictInv, NEW x \in DObjs, todo # <<>>, Head(todo).dObj = x,
           todo' = Tail(todo), Verdict(x), UNCHANGED <<state, events, obj, thr, requested>>
    PROVE  VerdictInv'
<1>1. todo \in Seq(CallSet)
    BY DEF IInv, Types
<1>2. ASSUME NEW d \in DObjs
      PROVE  requested'[d] + Noted(d) = requested[d] + Noted(d)'
  <2>1. /\ Named(d, events) \in Nat /\ Named(d, todo') \in Nat
        /\ verdict[d] \in Nat /\ requested[d] \in Nat
      BY NotedType, NotedTypeNext
  <2>2. verdict'[d] = verdict[d] + One(x = d)
      BY GivenVerdict
  <2>3. Named(d, todo) = Named(d, todo') + One(x = d)
      BY <1>1, NamingTaken
  <2>4. Noted(d)' = Named(d, events) + Named(d, todo') + verdict'[d]
      BY DEF Noted, Named, Naming
  <2>5. One(x = d) \in Nat
      BY DEF One
  <2> QED
      BY <2>1, <2>2, <2>3, <2>4, <2>5 DEF Noted
<1> QED
    BY <1>2, AllIdle, HeldKept DEF Registered

LEMMA SendVerdicts ==
    ASSUME IInv, IInv', VerdictInv, sendDataObject
    PROVE  VerdictInv'
<1>0. PICK p, x : p = Head(todo).prot /\ x = Head(todo).dObj
    OBVIOUS
<1>1. todo # <<>> /\ p \in Senders /\ x \in DObjs
    BY <1>0, CallMade DEF sendDataObject
<1>2. /\ UNCHANGED <<state, events, obj, thr, requested>>
      /\ \/ todo' = Tail(todo) /\ Verdict(x)
         \/ todo' = <<Call("insert", p, x)>> \o Tail(todo) /\ UNCHANGED verdict
    BY <1>0 DEF sendDataObject
<1>3. CASE todo' = Tail(todo) /\ Verdict(x)
    BY <1>0, <1>1, <1>2, <1>3, CallAnswered
<1>4. CASE todo' = <<Call("insert", p, x)>> \o Tail(todo) /\ UNCHANGED verdict
  <2>1. Call("insert", p, x) \in CallSet /\ Call("insert", p, x).dObj = x
      BY <1>1, CallIn
  <2>2. \A d \in DObjs : Named(d, todo') = Named(d, todo)
      BY <1>0, <1>1, <1>4, <2>1, CallsName
  <2> QED
      BY <1>2, <1>4, <2>2, AllIdle, VerdictKept DEF Registered
<1> QED
    BY <1>2, <1>3, <1>4

LEMMA InsertVerdicts ==
    ASSUME IInv, IInv', VerdictInv, insertAndStart
    PROVE  VerdictInv'
<1>0. PICK p, x : p = Head(todo).prot /\ x = Head(todo).dObj
    OBVIOUS
<1>1. /\ todo # <<>> /\ todo \in Seq(CallSet) /\ p \in Senders /\ x \in DObjs
      /\ obj[p].life # "none"
    BY <1>0, CallMade DEF insertAndStart
<1>2. /\ todo' = Tail(todo)
      /\ UNCHANGED <<state, events, requested>>
      /\ \/ Verdict(x) /\ UNCHANGED <<obj, thr>>
         \/ /\ obj' = [obj EXCEPT ![p].q = Append(obj[p].q, x)]
            /\ startTxRx(p) /\ UNCHANGED verdict
    BY <1>0 DEF insertAndStart
<1>3. CASE Verdict(x) /\ UNCHANGED <<obj, thr>>
    BY <1>0, <1>1, <1>2, <1>3, CallAnswered
<1>4. CASE /\ obj' = [obj EXCEPT ![p].q = Append(obj[p].q, x)]
           /\ startTxRx(p) /\ UNCHANGED verdict
  <2>0. ObjectsOK /\ ThreadsOK /\ p \in Protocols /\ p \in Clients
      BY <1>1 DEF IInv, Types, ObjectsOK, ThreadsOK, Protocols, Clients
  <2>1. /\ obj'[p].q = Append(obj[p].q, x) /\ obj'[p].life # "none"
        /\ \A r \in Protocols : r # p => obj'[r] = obj[r]
        /\ obj[p].q \in Seq(DObjs)
      BY <1>1, <1>4, <2>0 DEF ObjectsOK, Objects
  <2>2. \/ UNCHANGED thr
        \/ thr' = [thr EXCEPT ![p].pc = "begin", ![p].state = "RUNNING"]
      BY <1>4 DEF startTxRx
  <2>3. /\ thr'[p].cur = thr[p].cur
        /\ \A r \in Protocols : r # p => thr'[r] = thr[r]
      BY <2>0, <2>2, ThreadPut
  <2>4. \A r \in Protocols : r # p => Idle(r)
      BY <2>1, <2>3 DEF Idle
  <2>5. ASSUME NEW d \in DObjs
        PROVE  requested'[d] + Noted(d) + Held(d, p)
                  = requested[d] + Noted(d)' + Held(d, p)'
    <3>1. /\ Named(d, events) \in Nat /\ Named(d, todo') \in Nat
          /\ verdict[d] \in Nat /\ requested[d] \in Nat
        BY NotedType, NotedTypeNext
    <3>2. Named(d, todo) = Named(d, todo') + One(x = d)
        BY <1>0, <1>1, <1>2, NamingTaken
    <3>3. Noted(d)' = Named(d, events) + Named(d, todo') + verdict[d]
        BY <1>2, <1>4 DEF Noted, Named, Naming
    <3>4. Occurrences(d, Append(obj[p].q, x)) = Occurrences(d, obj[p].q) + One(x = d)
        BY <1>1, <2>1, OccurrencesAdded
    <3>5. Held(d, p)' = Occurrences(d, Append(obj[p].q, x)) + One(thr[p].cur = d)
        BY <2>1, <2>3 DEF Held, Occurrences
    <3>6. /\ One(x = d) \in Nat /\ One(thr[p].cur = d) \in Nat
          /\ Occurrences(d, obj[p].q) \in Nat
        BY <2>1, OccurrencesType DEF One
    <3> QED
        BY <1>2, <3>1, <3>2, <3>3, <3>4, <3>5, <3>6 DEF Noted, Held
  <2> QED
      BY <1>2, <2>0, <2>1, <2>4, <2>5, HeldChanges DEF Registered
<1> QED
    BY <1>2, <1>3, <1>4

(* A queue that is cleared: one verdict for every data object in it.        *)
LEMMA ClearedVerdicts ==
    ASSUME IInv, IInv', VerdictInv, NEW p \in Protocols, NEW l \in {"live", "deleted"},
           closeAndClearQueue(p, l), UNCHANGED <<state, events, requested>>,
           \A r \in Protocols : thr'[r].cur = thr[r].cur,
           \A d \in DObjs : Named(d, todo') = Named(d, todo)
    PROVE  VerdictInv'
<1>1. /\ \A r \in Protocols : r # p => obj'[r] = obj[r]
      /\ obj'[p].life = l /\ obj'[p].q = <<>> /\ obj[p].q \in Seq(DObjs)
    BY Cleared DEF IInv, Types, Objects
<1>2. \A d \in DObjs : verdict'[d] = verdict[d] + Occurrences(d, obj[p].q)
    BY DEF closeAndClearQueue
<1>3. \A r \in Protocols : r # p => Idle(r)
    BY <1>1 DEF Idle
<1>4. ASSUME NEW d \in DObjs
      PROVE  /\ Named(d, events) \in Nat /\ Named(d, todo) \in Nat
             /\ verdict[d] \in Nat /\ requested[d] \in Nat
             /\ Noted(d)' = Named(d, events) + Named(d, todo) + verdict'[d]
  <2>1. Noted(d)' = Named(d, events') + Named(d, todo') + verdict'[d]
      BY DEF Noted, Named, Naming
  <2> QED
      BY <2>1, NotedType
<1>5. CASE p \in Clients
  <2>1. ASSUME NEW d \in DObjs
        PROVE  requested'[d] + Noted(d) + Held(d, p)
                  = requested[d] + Noted(d)' + Held(d, p)'
    <3>1. Held(d, p)' = Occurrences(d, <<>>) + One(thr[p].cur = d)
        BY <1>1 DEF Held, Occurrences
    <3>2. /\ Occurrences(d, <<>>) = 0 /\ One(thr[p].cur = d) \in Nat
          /\ Occurrences(d, obj[p].q) \in Nat
        BY <1>1, OccurrencesType, OccurrencesNone DEF One
    <3> QED
        BY <1>2, <1>4, <3>1, <3>2 DEF Noted, Held
  <2> QED
      BY <1>1, <1>3, <1>5, <2>1, HeldChanges DEF Registered
<1>6. CASE p \notin Clients
  <2>1. obj[p].q = <<>>
      BY <1>6 DEF VerdictInv, Unused
  <2>2. \A r \in Protocols : Idle(r)
      BY <1>1, <1>3, <2>1 DEF Idle
  <2>3. ASSUME NEW d \in DObjs
        PROVE  requested'[d] + Noted(d) = requested[d] + Noted(d)'
    <3>1. Occurrences(d, <<>>) = 0
        BY OccurrencesNone
    <3>2. verdict'[d] = verdict[d]
        BY <1>2, <1>4, <2>1, <3>1
    <3> QED
        BY <1>4, <3>2 DEF Noted
  <2> QED
      BY <2>2, <2>3, HeldKept DEF Registered
<1> QED
    BY <1>5, <1>6

LEMMA DeletionVerdicts ==
    ASSUME IInv, IInv', VerdictInv, deleteProtocol \/ killProtocol
    PROVE  VerdictInv'
<1>0. PICK p : p = Head(todo).prot
    OBVIOUS
<1>a. PICK op \in {"delete", "kill"} : NextCall(op)
    BY DEF deleteProtocol, killProtocol
<1>1. todo # <<>> /\ Head(todo).dObj = None /\ p \in Protocols
    BY <1>0, <1>a, CallMade
<1>2. /\ todo' = Tail(todo) /\ UNCHANGED <<state, events, requested>>
      /\ \E l \in {"live", "deleted"} : closeAndClearQueue(p, l)
      /\ \/ UNCHANGED thr
         \/ thr' = [thr EXCEPT ![p].detached = TRUE, ![p].state = "CANCELLED",
                               ![p].exitSignal = TRUE]
    BY <1>0 DEF deleteProtocol, killProtocol, destroy
<1>3. \A r \in Protocols : thr'[r].cur = thr[r].cur
  <2>0. thr \in [Protocols -> Threads]
      BY DEF IInv, Types
  <2>1. CASE UNCHANGED thr
      BY <2>1
  <2>2. CASE thr' = [thr EXCEPT ![p].detached = TRUE, ![p].state = "CANCELLED",
                                ![p].exitSignal = TRUE]
      BY <1>1, <2>0, <2>2 DEF Threads
  <2> QED
      BY <1>2, <2>1, <2>2
<1>4. \A d \in DObjs : Named(d, todo') = Named(d, todo)
    BY <1>1, <1>2, CallsName
<1> QED
    BY <1>1, <1>2, <1>3, <1>4, ClearedVerdicts

LEMMA DetachedVerdicts ==
    ASSUME IInv, IInv', VerdictInv, NEW p \in Clients, cleanupGarbage(p), thr[p].detached
    PROVE  VerdictInv'
<1>1. /\ closeAndClearQueue(p, "deleted") /\ UNCHANGED thr
      /\ UNCHANGED <<state, events, todo, requested>>
    BY DEF cleanupGarbage, destroy, kernelVars
<1>2. p \in Protocols
    BY DEF Protocols
<1> QED
    BY <1>1, <1>2, ClearedVerdicts

-----------------------------------------------------------------------------
LEMMA VerdictInitially ==
    ASSUME Init
    PROVE  VerdictInv
<1>1. \A p \in Protocols : obj[p].q = <<>> /\ thr[p].cur = None
    BY DEF Init, NoObject, NoThread
<1>2. \A p \in Protocols : Unused(p)
    BY <1>1 DEF Unused
<1>3. ASSUME NEW d \in DObjs
      PROVE  Sending(d) = {} /\ Waiting(d) = {}
  <2>1. \A p \in Clients : p \in Protocols
      BY DEF Protocols
  <2>2. Sending(d) = {}
      BY <1>1, <2>1, ProtocolConstants DEF Sending
  <2>3. \A p \in Clients : {i \in 1..Len(obj[p].q) : obj[p].q[i] = d} = {}
    <3> SUFFICES ASSUME NEW p \in Clients
                 PROVE  {i \in 1..Len(obj[p].q) : obj[p].q[i] = d} = {}
        OBVIOUS
    <3>1. Len(obj[p].q) = 0
        BY <1>1, <2>1
    <3> QED
        BY <3>1
  <2> QED
      BY <2>2, <2>3 DEF Waiting
<1>4. \A d \in DObjs : IsFiniteSet(Sending(d)) /\ IsFiniteSet(Waiting(d))
    BY <1>3, FS_EmptySet
<1>5. ASSUME NEW d \in DObjs
      PROVE  requested[d] = Pending(d) + verdict[d]
  <2>1. Len(events) = 0 /\ Len(todo) = 0 /\ requested[d] = 0 /\ verdict[d] = 0
      BY DEF Init
  <2>2. Naming(d, events) = {} /\ Naming(d, todo) = {}
      BY <2>1 DEF Naming
  <2>3. Pending(d) = 0 + 0 + 0 + 0
      BY <1>3, <2>2, FS_EmptySet DEF Pending
  <2> QED
      BY <2>1, <2>3
<1> QED
    BY <1>2, <1>4, <1>5 DEF VerdictInv, OneVerdictPerRequest

LEMMA VerdictInductive ==
    ASSUME IInv, VerdictInv, [Next]_vars
    PROVE  VerdictInv'
<1>0. IInv'
    BY Inductive
<1>1. CASE Kernel
    BY <1>0, <1>1, RequestRaisedAgain, RequestUnheard, RequestPassed, RequestFailed,
       SendVerdicts, InsertVerdicts, AddEventVerdicts, DeleteEventVerdicts, CallsVerdicts,
       DeletionVerdicts, HandlersVerdicts DEF Kernel
<1>2. CASE Environment
    BY <1>0, <1>2, RequestCounted, AcceptVerdicts, InterfaceUpVerdicts, HandlersVerdicts
       DEF Environment
<1>3. CASE onShutdown
    BY <1>0, <1>3, HandlersVerdicts
<1>4. CASE killerExpires
    BY <1>0, <1>4, KillerVerdicts
<1>5. ASSUME NEW p \in Clients, Thread(p)
      PROVE  VerdictInv'
  <2>1. CASE ~(thr[p].pc = "garbage" /\ thr[p].detached)
      BY <1>0, <1>5, <2>1, ThreadVerdicts
  <2>2. CASE thr[p].pc = "garbage" /\ thr[p].detached
      BY <1>0, <1>5, <2>2, DetachedCase, DetachedVerdicts
  <2> QED
      BY <2>1, <2>2
<1>6. CASE UNCHANGED vars
  <2>1. UNCHANGED <<state, events, todo, obj, thr, requested, verdict>>
      BY <1>6 DEF vars
  <2> QED
      BY <1>0, <2>1, AllIdle, VerdictKept DEF Registered
<1> QED
    BY <1>1, <1>2, <1>3, <1>4, <1>5, <1>6 DEF Next

(* As long as the manager is registered, every send request is in exactly   *)
(* one event, call, queue or thread or has had exactly one verdict, however *)
(* many protocols, neighbours and data objects there are and however their  *)
(* threads fail, are shut down or are deleted with data objects in their    *)
(* queues (Protocol::sendDataObject, closeAndClearQueue, run and            *)
(* ProtocolManager::onSendDataObjectActual).                                *)
THEOREM OneVerdict == Spec => []OneVerdictPerRequest
<1>1. Init => VerdictInv
    BY VerdictInitially
<1>2. IInv /\ VerdictInv /\ [Next]_vars => VerdictInv'
    BY VerdictInductive
<1>3. VerdictInv => OneVerdictPerRequest
    BY DEF VerdictInv
<1> QED
    BY <1>1, <1>2, <1>3, Always, PTL DEF Spec

=============================================================================
