------------------------- MODULE DataTransferProofs -------------------------
(***************************************************************************)
(* Proofs about DataTransfer, for any number of data objects, connections,  *)
(* sends, pieces of a body and tolerated errors.                            *)
(***************************************************************************)
EXTENDS DataTransfer, TLAPS

(***************************************************************************)
(* Types, without the bound on the number of copies                         *)
(***************************************************************************)
CopyNames == [obj : DataObjects, conn : Connections, nr : Nat]
EventSet == [type : EventTypes, copy : CopyNames]
Items == [kind : {"header", "data"}, obj : DataObjects]
Messages == [type : {"ACCEPT", "REJECT", "ACK"}, obj : DataObjects]
Results == {"none", "acked", "rejected", "failed"}

SenderPcs == {"closed", "idle"} \cup SendStages
ReceiverPcs == {"closed", "idle"} \cup ReceiveStages
MaybeObjects == DataObjects \cup {None}
Lefts == 0..Chunks
Flags == BOOLEAN
Errors == 0..(MaxErrors + 1)

SenderRecords == [pc : SenderPcs, obj : MaybeObjects, left : Lefts]

ReceiverRecords == [pc : ReceiverPcs, obj : MaybeObjects, left : Lefts,
                    nr : Nat, intact : Flags, numerr : Errors]

SenderEnds ==
    {s \in SenderRecords :
        /\ s.pc \in SendStages => s.obj \in DataObjects
        /\ s.pc = "body" => s.left > 0}

ReceiverEnds ==
    {r \in ReceiverRecords :
        /\ r.pc \in {"check", "reject"} \cup CopyStages => r.obj \in DataObjects
        /\ r.pc = "body" => r.left > 0
        /\ r.pc \in {"accept", "body", "ack"} => r.nr > 0}

NetTypes ==
    /\ snd \in [Connections -> SenderEnds]
    /\ rcv \in [Connections -> ReceiverEnds]
    /\ fwd \in [Connections -> Seq(Items)]
    /\ back \in [Connections -> Seq(Messages)]
    /\ outcome \in [Connections -> [DataObjects -> Results]]
    /\ sends \in 0..MaxSends /\ copies \in Nat

NodeTypes ==
    /\ bf \subseteq DataObjects /\ localBF \subseteq DataObjects
    /\ duplicate \subseteq CopyNames /\ stored \subseteq CopyNames
    /\ received \subseteq CopyNames
    /\ events \in Seq(EventSet)
    /\ signing \in Seq(CopyNames) /\ hashing \in Seq(CopyNames)
    /\ inserting \in Seq(CopyNames)

Types == NetTypes /\ NodeTypes

-----------------------------------------------------------------------------
(***************************************************************************)
(* Queues                                                                   *)
(***************************************************************************)

(* An element that is taken was queued, and no new one is.                  *)
LEMMA Taken ==
    ASSUME NEW S, NEW q \in Seq(S), q # <<>>
    PROVE  /\ Head(q) \in S /\ Tail(q) \in Seq(S)
           /\ \A x : Contains(q, x) <=> Contains(Tail(q), x) \/ x = Head(q)
<1>1. /\ Head(q) = q[1] /\ Head(q) \in S
      /\ Tail(q) \in Seq(S) /\ Len(Tail(q)) = Len(q) - 1
      /\ Len(q) \in Nat /\ Len(q) > 0
      /\ \A i \in 1..Len(Tail(q)) :
            i + 1 \in 1..Len(q) /\ Tail(q)[i] = q[i + 1]
  OBVIOUS
<1>2. \A i \in 1..Len(q) : i = 1 \/ i - 1 \in 1..Len(Tail(q))
  BY <1>1
<1>3. ASSUME NEW x, Contains(Tail(q), x) \/ x = Head(q)
      PROVE  Contains(q, x)
  <2>1. 1 \in 1..Len(q)
    BY <1>1
  <2> QED
    BY <1>1, <1>3, <2>1 DEF Contains
<1>4. ASSUME NEW x, Contains(q, x), x # Head(q)
      PROVE  Contains(Tail(q), x)
  <2>1. PICK i \in 1..Len(q) : q[i] = x
    BY <1>4 DEF Contains
  <2>2. i - 1 \in 1..Len(Tail(q)) /\ Tail(q)[i - 1] = q[i]
    BY <1>1, <1>2, <1>4, <2>1
  <2> QED
    BY <2>1, <2>2 DEF Contains
<1> QED
  BY <1>1, <1>3, <1>4

LEMMA Added ==
    ASSUME NEW S, NEW q \in Seq(S), NEW e \in S
    PROVE  /\ Append(q, e) \in Seq(S)
           /\ \A x : Contains(Append(q, e), x) <=> Contains(q, x) \/ x = e
<1>1. /\ Append(q, e) \in Seq(S) /\ Len(Append(q, e)) = Len(q) + 1
      /\ Len(q) \in Nat
      /\ \A i \in 1..Len(q) : Append(q, e)[i] = q[i]
      /\ Append(q, e)[Len(q) + 1] = e
  OBVIOUS
<1>2. \A i \in 1..Len(Append(q, e)) : i \in 1..Len(q) \/ i = Len(q) + 1
  BY <1>1
<1>3. ASSUME NEW x, Contains(Append(q, e), x)
      PROVE  Contains(q, x) \/ x = e
  BY <1>1, <1>2, <1>3 DEF Contains
<1>4. ASSUME NEW x, Contains(q, x) \/ x = e
      PROVE  Contains(Append(q, e), x)
  <2>1. CASE Contains(q, x)
    <3>1. PICK i \in 1..Len(q) : q[i] = x
      BY <2>1 DEF Contains
    <3>2. i \in 1..Len(Append(q, e))
      BY <1>1
    <3> QED
      BY <1>1, <3>1, <3>2 DEF Contains
  <2>2. CASE x = e
    <3>1. Len(q) + 1 \in 1..Len(Append(q, e))
      BY <1>1
    <3> QED
      BY <1>1, <2>2, <3>1 DEF Contains
  <2> QED
    BY <1>4, <2>1, <2>2
<1> QED
  BY <1>1, <1>3, <1>4

LEMMA RangeContains ==
    ASSUME NEW S, NEW q \in Seq(S)
    PROVE  /\ DOMAIN q = 1..Len(q)
           /\ \A x : x \in Range(q) <=> Contains(q, x)
BY DEF Range, Contains

-----------------------------------------------------------------------------
(***************************************************************************)
(* What the parts of a step do                                              *)
(***************************************************************************)

(* However receiveDataObject() ends, the receiver starts afresh.            *)
LEMMA Afresh ==
    ASSUME NEW r \in ReceiverEnds
    PROVE  /\ Idle(r, 0) \in ReceiverEnds /\ Idle(r, 0).pc = "idle"
           /\ AfterError(r) \in ReceiverEnds
           /\ AfterError(r).pc \in {"idle", "closed"}
           /\ ReceiverClosed(r) \in ReceiverEnds
           /\ ReceiverClosed(r).pc = "closed"
           /\ Idle(r, 0).intact = TRUE /\ Idle(r, 0).nr = 0
           /\ AfterError(r).intact = TRUE /\ AfterError(r).nr = 0
           /\ ReceiverClosed(r).intact = TRUE /\ ReceiverClosed(r).nr = 0
<1> USE TransferConstants
<1>0. /\ "idle" \in ReceiverPcs /\ "closed" \in ReceiverPcs
      /\ None \in MaybeObjects /\ 0 \in Lefts /\ TRUE \in Flags
      /\ 0 \in Errors
  BY DEF ReceiverPcs, MaybeObjects, Lefts, Flags, Errors
<1>1. ASSUME NEW e \in Errors
      PROVE  /\ Idle(r, e) \in ReceiverEnds /\ Idle(r, e).pc = "idle"
             /\ Idle(r, e).intact = TRUE /\ Idle(r, e).nr = 0
  <2>1. /\ Idle(r, e) \in ReceiverRecords
        /\ Idle(r, e).pc = "idle" /\ Idle(r, e).nr = 0
        /\ Idle(r, e).intact = TRUE
    BY <1>0 DEF Idle, ReceiverEnds, ReceiverRecords
  <2> QED
    BY <2>1 DEF ReceiverEnds, ReceiverRecords, CopyStages,
         ReceiverPcs
<1>3. /\ ReceiverClosed(r) \in ReceiverEnds /\ ReceiverClosed(r).pc = "closed"
      /\ ReceiverClosed(r).intact = TRUE /\ ReceiverClosed(r).nr = 0
  <2> DEFINE i == Idle(r, 0)
  <2>0. i \in ReceiverRecords /\ i.nr = 0 /\ i.intact = TRUE
    BY <1>0, <1>1 DEF ReceiverEnds
  <2> HIDE DEF i
  <2>1. /\ [i EXCEPT !.pc = "closed"] \in ReceiverRecords
        /\ [i EXCEPT !.pc = "closed"].pc = "closed"
        /\ [i EXCEPT !.pc = "closed"].nr = 0
        /\ [i EXCEPT !.pc = "closed"].intact = TRUE
    BY <1>0, <2>0 DEF ReceiverRecords
  <2>2. ReceiverClosed(r) = [i EXCEPT !.pc = "closed"]
    BY DEF ReceiverClosed, i
  <2> QED
    BY <2>1, <2>2 DEF ReceiverEnds, CopyStages
<1>4. CASE r.numerr > MaxErrors
  BY <1>0, <1>1, <1>3, <1>4 DEF AfterError, ReceiverClosed
<1>5. CASE ~(r.numerr > MaxErrors)
  <2>1. r.numerr + 1 \in Errors
    BY <1>5 DEF ReceiverEnds, ReceiverRecords, Errors
  <2> QED
    BY <1>0, <1>1, <1>3, <1>5, <2>1 DEF AfterError
<1> QED
  BY <1>4, <1>5

LEMMA ReceiverStepTypes ==
    ASSUME Types, NEW c \in Connections, NEW r \in ReceiverEnds,
           NEW input \in Seq(Items), Receiver(c, r, input)
    PROVE  /\ rcv' \in [Connections -> ReceiverEnds]
           /\ fwd' \in [Connections -> Seq(Items)]
BY DEF Types, NetTypes, Receiver

LEMMA AnswerTypes ==
    ASSUME Types, NEW c \in Connections, rcv[c].obj \in DataObjects,
           NEW type \in {"ACCEPT", "REJECT", "ACK"}, Answer(c, type)
    PROVE  back' \in [Connections -> Seq(Messages)]
<1> DEFINE m == [type |-> type, obj |-> rcv[c].obj]
<1>1. m \in Messages
  BY DEF Messages
<1>2. back[c] \in Seq(Messages) /\ back \in [Connections -> Seq(Messages)]
  BY DEF Types, NetTypes
<1>3. back' = back \/ back' = [back EXCEPT ![c] = Append(@, m)]
  BY DEF Answer
<1>4. Append(back[c], m) \in Seq(Messages)
  BY <1>1, <1>2
<1> QED
  BY <1>2, <1>3, <1>4

LEMMA WriteTypes ==
    ASSUME Types, NEW c \in Connections, NEW item \in Items, Write(c, item)
    PROVE  fwd' \in [Connections -> Seq(Items)]
BY DEF Types, NetTypes, Write

LEMMA ResultTypes ==
    ASSUME Types, NEW c \in Connections, snd[c].pc \in SendStages,
           NEW result \in Results, NEW pc \in {"idle", "closed"},
           SendResult(c, result, pc)
    PROVE  /\ snd' \in [Connections -> SenderEnds]
           /\ outcome' \in [Connections -> [DataObjects -> Results]]
           /\ snd'[c].pc = pc
<1> USE TransferConstants
<1>1. snd[c].obj \in DataObjects
  BY DEF Types, NetTypes, SenderEnds
<1>2. [ClosedEnd EXCEPT !.pc = pc] \in SenderEnds
  BY DEF ClosedEnd, SenderEnds, SenderRecords, SendStages,
         SenderPcs, Lefts, MaybeObjects
<1>3. snd' = [snd EXCEPT ![c] = [ClosedEnd EXCEPT !.pc = pc]]
  BY DEF SendResult
<1>4. [ClosedEnd EXCEPT !.pc = pc].pc = pc
  BY DEF ClosedEnd
<1>5. snd' \in [Connections -> SenderEnds] /\ snd'[c].pc = pc
  BY <1>2, <1>3, <1>4 DEF Types, NetTypes
<1>6. outcome' \in [Connections -> [DataObjects -> Results]]
  BY <1>1 DEF SendResult, Types, NetTypes
<1> QED
  BY <1>5, <1>6

LEMMA HeadTail ==
    ASSUME NEW S, NEW q \in Seq(S), q # <<>>
    PROVE  Head(q) \in S /\ Tail(q) \in Seq(S)
OBVIOUS

-----------------------------------------------------------------------------
(***************************************************************************)
(* The types are kept                                                       *)
(***************************************************************************)
LEMMA InitTypes ==
    ASSUME Init
    PROVE  Types
<1> USE TransferConstants
<1>1. ClosedEnd \in SenderEnds /\ ClosedReceiver \in ReceiverEnds
  BY DEF ClosedEnd, ClosedReceiver, SenderEnds, ReceiverEnds, SenderRecords,
         ReceiverRecords, SendStages, SenderPcs, ReceiverPcs, Lefts,
         MaybeObjects, Flags, Errors,         CopyStages
<1>2. NetTypes
  BY <1>1 DEF Init, NetTypes, Results
<1>3. NodeTypes
  BY DEF Init, NodeTypes
<1> QED
  BY <1>2, <1>3 DEF Types

LEMMA SenderTypes ==
    ASSUME Types, NEW c \in Connections, Connect(c) \/ Sender(c)
    PROVE  Types' /\ UNCHANGED nodeVars /\ UNCHANGED copies
<1> USE TransferConstants DEF netVars, tally
<1> DEFINE s == snd[c]
<1>s. s \in SenderEnds /\ rcv[c] \in ReceiverEnds
  BY DEF Types, NetTypes
<1>b. back[c] \in Seq(Messages) /\ fwd[c] \in Seq(Items)
  BY DEF Types, NetTypes
<1>t. back[c] # <<>> =>
          [back EXCEPT ![c] = Tail(@)] \in [Connections -> Seq(Messages)]
  BY <1>b, HeadTail DEF Types, NetTypes
<1>e. [back EXCEPT ![c] = <<>>] \in [Connections -> Seq(Messages)]
  BY DEF Types, NetTypes
<1>1. CASE Connect(c)
  <2>1. [ClosedEnd EXCEPT !.pc = "idle"] \in SenderEnds
    BY DEF ClosedEnd, SenderEnds, SenderRecords, SendStages,
         SenderPcs, Lefts, MaybeObjects
  <2>2. [ClosedReceiver EXCEPT !.pc = "idle"] \in ReceiverEnds
    <3>1. ClosedReceiver \in ReceiverRecords
      <4>1. 0 \in Errors
        BY TransferConstants DEF Errors
      <4>2. 0 \in Lefts
        BY TransferConstants DEF Lefts
      <4>3. None \in MaybeObjects /\ TRUE \in Flags /\ "closed" \in ReceiverPcs
        BY DEF MaybeObjects, Flags, ReceiverPcs
      <4> QED
        BY <4>1, <4>2, <4>3 DEF ClosedReceiver, ReceiverRecords
    <3>2. "idle" \in ReceiverPcs
      BY DEF ReceiverPcs
    <3>3. [ClosedReceiver EXCEPT !.pc = "idle"] \in ReceiverRecords
          /\ [ClosedReceiver EXCEPT !.pc = "idle"].pc = "idle"
      BY <3>1, <3>2 DEF ReceiverRecords
    <3> QED
      BY <3>3 DEF ReceiverEnds, CopyStages
  <2>3. snd' \in [Connections -> SenderEnds]
        /\ rcv' \in [Connections -> ReceiverEnds]
    BY <1>1, <2>1, <2>2 DEF Connect, Types, NetTypes
  <2>4. NetTypes'
    BY <1>1, <1>e, <2>3 DEF Connect, Types, NetTypes
  <2> QED
    BY <1>1, <2>4 DEF Connect, Types, NodeTypes, nodeVars, kernelVars
<1>2. CASE TakeObject(c)
  <2>1. PICK d \in DataObjects :
          snd' = [snd EXCEPT ![c] = [pc |-> "header", obj |-> d, left |-> 0]]
    BY <1>2 DEF TakeObject
  <2>2. [pc |-> "header", obj |-> d, left |-> 0] \in SenderEnds
    BY DEF SenderEnds, SenderRecords, SendStages,
         SenderPcs, Lefts, MaybeObjects
  <2>3. snd' \in [Connections -> SenderEnds]
    BY <2>1, <2>2 DEF Types, NetTypes
  <2>4. sends' \in 0..MaxSends
    BY <1>2 DEF TakeObject, Types, NetTypes
  <2>5. NetTypes'
    BY <1>2, <2>3, <2>4 DEF TakeObject, Types, NetTypes
  <2> QED
    BY <1>2, <2>5 DEF TakeObject, Types, NodeTypes, nodeVars, kernelVars
<1>3. CASE SendHeader(c)
  <2>1. [kind |-> "header", obj |-> s.obj] \in Items
    BY <1>3, <1>s DEF SendHeader, SenderEnds, SendStages, Items
  <2>2. fwd' \in [Connections -> Seq(Items)]
    BY <1>3, <2>1, WriteTypes DEF SendHeader
  <2>3. [s EXCEPT !.pc = "answer"] \in SenderEnds
    BY <1>3, <1>s DEF SendHeader, SenderEnds, SenderRecords, SendStages,
         SenderPcs, Lefts, MaybeObjects
  <2>4. snd' \in [Connections -> SenderEnds]
    BY <1>3, <2>3 DEF SendHeader, Types, NetTypes
  <2>5. NetTypes'
    BY <1>3, <2>2, <2>4 DEF SendHeader, Types, NetTypes
  <2> QED
    BY <1>3, <2>5 DEF SendHeader, Types, NodeTypes, nodeVars, kernelVars
<1>4. CASE ReceiveAnswer(c)
  <2> DEFINE m == Head(back[c])
  <2>1. s.pc = "answer" /\ s.obj \in DataObjects
    BY <1>4, <1>s DEF ReceiveAnswer, SenderEnds, SenderRecords, SendStages,
         SenderPcs, Lefts, MaybeObjects
  <2>2. ASSUME m.type = "ACCEPT"
        PROVE  /\ snd' \in [Connections -> SenderEnds]
               /\ outcome' \in [Connections -> [DataObjects -> Results]]
    <3>1. /\ snd' = [snd EXCEPT ![c].pc = AfterAccept(c),
                                ![c].left = BodyLen(snd[c].obj)]
          /\ outcome' = outcome
      BY <1>4, <2>2 DEF ReceiveAnswer
    <3>2. [s EXCEPT !.pc = AfterAccept(c), !.left = BodyLen(s.obj)]
              \in SenderEnds
      <4> DEFINE e == [s EXCEPT !.pc = AfterAccept(c), !.left = BodyLen(s.obj)]
      <4>2. /\ AfterAccept(c) \in {"ack", "body"}
            /\ BodyLen(s.obj) \in 0..Chunks
            /\ AfterAccept(c) = "body" => BodyLen(s.obj) > 0
        BY DEF AfterAccept, BodyLen
      <4>3. /\ e \in SenderRecords /\ e.pc = AfterAccept(c)
            /\ e.obj = s.obj /\ e.left = BodyLen(s.obj)
        BY <1>s, <4>2 DEF SenderEnds, SenderRecords, SendStages,
         SenderPcs, Lefts, MaybeObjects
      <4> QED
        BY <2>1, <4>2, <4>3 DEF SenderEnds, SenderRecords, SendStages,
         SenderPcs, Lefts, MaybeObjects
    <3> QED
      BY <3>1, <3>2 DEF Types, NetTypes
  <2>3. ASSUME m.type = "REJECT"
        PROVE  /\ snd' \in [Connections -> SenderEnds]
               /\ outcome' \in [Connections -> [DataObjects -> Results]]
    <3>1. SendResult(c, "rejected", "idle")
      BY <1>4, <2>3 DEF ReceiveAnswer
    <3> QED
      BY <2>1, <3>1, ResultTypes DEF Results, SendStages
  <2>4. ASSUME m.type \notin {"ACCEPT", "REJECT"}
        PROVE  /\ snd' \in [Connections -> SenderEnds]
               /\ outcome' \in [Connections -> [DataObjects -> Results]]
    <3>1. snd' = [snd EXCEPT ![c].pc = "ack"] /\ outcome' = outcome
      BY <1>4, <2>4 DEF ReceiveAnswer
    <3>2. [s EXCEPT !.pc = "ack"] \in SenderEnds
      BY <1>s, <2>1 DEF SenderEnds, SenderRecords, SendStages,
         SenderPcs, Lefts, MaybeObjects
    <3> QED
      BY <3>1, <3>2 DEF Types, NetTypes
  <2>5. /\ snd' \in [Connections -> SenderEnds]
        /\ outcome' \in [Connections -> [DataObjects -> Results]]
    BY <2>2, <2>3, <2>4 DEF Types, NetTypes
  <2>6. NetTypes'
    BY <1>4, <1>t, <2>5 DEF ReceiveAnswer, Types, NetTypes
  <2> QED
    BY <1>4, <2>6 DEF ReceiveAnswer, Types, NodeTypes, nodeVars, kernelVars
<1>5. CASE SendBody(c)
  <2>1. s.pc = "body" /\ s.obj \in DataObjects /\ s.left \in 1..Chunks
    BY <1>5, <1>s DEF SendBody, SenderEnds, SenderRecords, SendStages,
         SenderPcs, Lefts, MaybeObjects
  <2>2. [kind |-> "data", obj |-> s.obj] \in Items
    BY <2>1 DEF Items
  <2>3. fwd' \in [Connections -> Seq(Items)]
    BY <1>5, <2>2, WriteTypes DEF SendBody
  <2>4. [s EXCEPT !.left = @ - 1,
                  !.pc = IF s.left = 1 THEN "ack" ELSE "body"] \in SenderEnds
    <3> DEFINE pc == IF s.left = 1 THEN "ack" ELSE "body"
    <3> DEFINE e == [s EXCEPT !.left = @ - 1, !.pc = pc]
    <3>2. /\ s.left - 1 \in 0..Chunks /\ pc \in {"ack", "body"}
          /\ pc = "body" => s.left - 1 > 0
      BY <2>1
    <3> HIDE DEF pc
    <3>3. /\ e \in SenderRecords /\ e.pc = pc
          /\ e.obj = s.obj /\ e.left = s.left - 1
      BY <1>s, <3>2 DEF SenderEnds, SenderRecords, SendStages,
         SenderPcs, Lefts, MaybeObjects
    <3>4. e \in SenderEnds
      BY <2>1, <3>2, <3>3 DEF SenderEnds, SenderRecords, SendStages,
         SenderPcs, Lefts, MaybeObjects
    <3> QED
      BY <3>4 DEF pc
  <2>5. snd' \in [Connections -> SenderEnds]
    BY <1>5, <2>4 DEF SendBody, Types, NetTypes
  <2>6. NetTypes'
    BY <1>5, <2>3, <2>5 DEF SendBody, Types, NetTypes
  <2> QED
    BY <1>5, <2>6 DEF SendBody, Types, NodeTypes, nodeVars, kernelVars
<1>6. CASE ReceiveAck(c)
  <2>1. PICK result \in Results : SendResult(c, result, "idle")
    BY <1>6 DEF ReceiveAck, Results
  <2>2. /\ snd' \in [Connections -> SenderEnds]
        /\ outcome' \in [Connections -> [DataObjects -> Results]]
    BY <1>6, <2>1, ResultTypes DEF ReceiveAck, SendStages
  <2>3. NetTypes'
    BY <1>6, <1>t, <2>2 DEF ReceiveAck, Types, NetTypes
  <2> QED
    BY <1>6, <2>3 DEF ReceiveAck, Types, NodeTypes, nodeVars, kernelVars
<1>7. CASE SendBroken(c)
  <2>1. /\ snd' \in [Connections -> SenderEnds]
        /\ outcome' \in [Connections -> [DataObjects -> Results]]
    BY <1>7, ResultTypes DEF SendBroken, Results
  <2>2. NetTypes'
    BY <1>7, <1>e, <2>1 DEF SendBroken, Types, NetTypes
  <2> QED
    BY <1>7, <2>2 DEF SendBroken, Types, NodeTypes, nodeVars, kernelVars
<1>8. CASE SendError(c)
  <2>1. snd[c].pc \in SendStages
    BY <1>8 DEF SendError, SendStages
  <2>2. /\ snd' \in [Connections -> SenderEnds]
        /\ outcome' \in [Connections -> [DataObjects -> Results]]
    BY <1>8, <2>1, ResultTypes DEF SendError, Results
  <2>3. NetTypes'
    BY <1>8, <2>2 DEF SendError, Types, NetTypes
  <2> QED
    BY <1>8, <2>3 DEF SendError, Types, NodeTypes, nodeVars, kernelVars
<1>9. CASE SenderLeaves(c)
  <2>1. [s EXCEPT !.pc = "closed"] \in SenderEnds
    BY <1>s DEF SenderEnds, SenderRecords, SendStages,
         SenderPcs, Lefts, MaybeObjects
  <2>2. snd' \in [Connections -> SenderEnds]
    BY <1>9, <2>1 DEF SenderLeaves, Types, NetTypes
  <2>3. NetTypes'
    BY <1>9, <1>e, <2>2 DEF SenderLeaves, Types, NetTypes
  <2> QED
    BY <1>9, <2>3 DEF SenderLeaves, Types, NodeTypes, nodeVars, kernelVars
<1> QED
  BY <1>1, <1>2, <1>3, <1>4, <1>5, <1>6, <1>7, <1>8, <1>9 DEF Sender

(* No copy is made or announced, none becomes received: the receiver goes   *)
(* on with the copy it has, or has none.                                    *)
Quiet ==
    /\ UNCHANGED nodeVars /\ UNCHANGED copies
    /\ \A c \in Connections :
          /\ rcv'[c].nr = rcv[c].nr \/ rcv'[c].nr = 0
          /\ rcv'[c].pc = "accept" => rcv'[c] = rcv[c]
          /\ rcv'[c].pc \in {"body", "ack"} =>
                /\ rcv[c].pc \in {"body", "ack"}
                /\ rcv'[c].obj = rcv[c].obj /\ rcv'[c].nr = rcv[c].nr

LEMMA ReceiverAt ==
    ASSUME Types, NEW c \in Connections, NEW r, NEW input,
           Receiver(c, r, input)
    PROVE  /\ rcv'[c] = r
           /\ fwd'[c] = IF r.pc = "closed" THEN <<>> ELSE input
           /\ \A e \in Connections \ {c} :
                 rcv'[e] = rcv[e] /\ fwd'[e] = fwd[e]
BY DEF Types, NetTypes, Receiver

(* A record that replaces the receiver of one connection.                   *)
LEMMA QuietReceiver ==
    ASSUME Types, NEW c \in Connections, NEW r \in ReceiverEnds,
           NEW input \in Seq(Items), Receiver(c, r, input),
           UNCHANGED <<snd, tally, outcome, nodeVars>>,
           back' \in [Connections -> Seq(Messages)],
           r.nr = rcv[c].nr \/ r.nr = 0,
           r.pc # "accept",
           r.pc \in {"body", "ack"} =>
               /\ rcv[c].pc \in {"body", "ack"}
               /\ r.obj = rcv[c].obj /\ r.nr = rcv[c].nr
    PROVE  Types' /\ Quiet
<1>1. NetTypes'
  BY ReceiverStepTypes DEF Types, NetTypes, tally
<1>2. Types'
  BY <1>1 DEF Types, NodeTypes, nodeVars, kernelVars
<1>3. Quiet
  BY ReceiverAt DEF Quiet, tally
<1> QED
  BY <1>2, <1>3

LEMMA QuietSteps ==
    ASSUME Types, NEW c \in Connections,
           \/ ReceiveHeader(c) \/ ReceiveJunk(c) \/ CheckFilter(c)
           \/ SendReject(c) \/ ReceiveBody(c) \/ ReceiveBroken(c)
           \/ ReceiveError(c)
    PROVE  Types' /\ Quiet
<1> USE TransferConstants
<1> DEFINE r == rcv[c]
<1>r. r \in ReceiverEnds /\ r \in ReceiverRecords
  BY DEF Types, NetTypes, ReceiverEnds
<1>f. /\ fwd[c] \in Seq(Items) /\ <<>> \in Seq(Items)
      /\ fwd[c] # <<>> =>
            /\ Head(fwd[c]) \in Items /\ Head(fwd[c]).obj \in DataObjects
            /\ Tail(fwd[c]) \in Seq(Items)
  <2>1. fwd[c] \in Seq(Items)
    BY DEF Types, NetTypes
  <2>2. fwd[c] # <<>> => Head(fwd[c]) \in Items /\ Tail(fwd[c]) \in Seq(Items)
    BY <2>1, HeadTail
  <2> QED
    BY <2>1, <2>2 DEF Items
<1>b. back \in [Connections -> Seq(Messages)]
  BY DEF Types, NetTypes
<1>p. /\ {"junk", "check", "reject", "add", "ack", "body"} \subseteq ReceiverPcs
      /\ TRUE \in Flags /\ FALSE \in Flags
  BY DEF ReceiverPcs, ReceiveStages, CopyStages, Flags
<1>1. CASE ReceiveHeader(c)
  <2> DEFINE s == [r EXCEPT !.pc = "check", !.obj = Head(fwd[c]).obj]
  <2>1. s \in ReceiverRecords /\ s.pc = "check" /\ s.nr = r.nr
        /\ s.obj \in DataObjects
    BY <1>1, <1>r, <1>f, <1>p DEF ReceiveHeader, ReceiverRecords, MaybeObjects
  <2>2. s \in ReceiverEnds
    BY <2>1 DEF ReceiverEnds, CopyStages
  <2> QED
    BY <1>1, <1>f, <1>b, <2>1, <2>2, QuietReceiver DEF ReceiveHeader
<1>2. CASE ReceiveJunk(c)
  <2>1. CASE Receiver(c, [r EXCEPT !.pc = "junk"], Tail(fwd[c]))
    <3> DEFINE s == [r EXCEPT !.pc = "junk"]
    <3>1. s \in ReceiverRecords /\ s.pc = "junk" /\ s.nr = r.nr
      BY <1>r, <1>p DEF ReceiverRecords
    <3>2. s \in ReceiverEnds
      BY <3>1 DEF ReceiverEnds, CopyStages
    <3> QED
      BY <1>2, <2>1, <1>f, <1>b, <3>1, <3>2, QuietReceiver DEF ReceiveJunk
  <2>2. CASE Receiver(c, AfterError(r), Tail(fwd[c]))
    BY <1>2, <2>2, <1>r, <1>f, <1>b, Afresh, QuietReceiver DEF ReceiveJunk
  <2> QED
    BY <1>2, <2>1, <2>2 DEF ReceiveJunk
<1>3. CASE CheckFilter(c)
  <2> DEFINE pc == IF r.obj \in bf THEN "reject" ELSE "add"
             s == [r EXCEPT !.pc = pc]
  <2>1. pc \in {"reject", "add"}
    OBVIOUS
  <2>2. /\ s \in ReceiverRecords /\ s.pc = pc /\ s.nr = r.nr
        /\ s.obj = r.obj
    <3> HIDE DEF pc
    <3> QED
      BY <1>r, <1>p, <2>1 DEF ReceiverRecords
  <2>3. s \in ReceiverEnds
    BY <1>3, <1>r, <2>1, <2>2 DEF CheckFilter, ReceiverEnds, CopyStages
  <2>4. rcv' = [rcv EXCEPT ![c] = s]
    BY <1>3 DEF CheckFilter
  <2>5. NetTypes'
    <3> HIDE DEF s
    <3> QED
      BY <1>3, <2>3, <2>4 DEF CheckFilter, Types, NetTypes, netVars, tally
  <2>6. Quiet
    <3> HIDE DEF s, pc
    <3>1. rcv'[c] = s /\ \A e \in Connections \ {c} : rcv'[e] = rcv[e]
      BY <2>4 DEF Types, NetTypes
    <3> QED
      BY <1>3, <2>1, <2>2, <3>1 DEF CheckFilter, Quiet, netVars, tally
  <2> QED
    BY <1>3, <2>5, <2>6 DEF CheckFilter, Types, NodeTypes, nodeVars, kernelVars
<1>4. CASE SendReject(c)
  <2>1. r.obj \in DataObjects
    BY <1>4, <1>r DEF SendReject, ReceiverEnds
  <2>2. CASE Answer(c, "REJECT") /\ Receiver(c, Idle(r, 0), fwd[c])
    BY <1>4, <1>r, <1>f, <2>1, <2>2, AnswerTypes, Afresh, QuietReceiver
       DEF SendReject
  <2>3. CASE UNCHANGED back /\ Receiver(c, AfterError(r), fwd[c])
    BY <1>4, <1>r, <1>f, <1>b, <2>3, Afresh, QuietReceiver DEF SendReject
  <2>4. CASE UNCHANGED back /\ Receiver(c, ReceiverClosed(r), fwd[c])
    BY <1>4, <1>r, <1>f, <1>b, <2>4, Afresh, QuietReceiver DEF SendReject
  <2> QED
    BY <1>4, <2>2, <2>3, <2>4 DEF SendReject
<1>5. CASE ReceiveBody(c)
  <2> DEFINE pc == IF r.left = 1 THEN "ack" ELSE "body"
             same == Head(fwd[c]) = [kind |-> "data", obj |-> r.obj]
             intact == r.intact /\ same
             left == r.left - 1
             s == [r EXCEPT !.left = left, !.pc = pc, !.intact = intact]
  <2>1. /\ r.pc = "body" /\ r.left \in 1..Chunks /\ r.obj \in DataObjects
        /\ r.nr \in Nat /\ r.nr > 0
    BY <1>5, <1>r DEF ReceiveBody, ReceiverEnds, ReceiverRecords, CopyStages,
       Lefts
  <2>2. /\ pc \in {"body", "ack"} /\ left \in Lefts
        /\ pc = "body" => left > 0
    BY <2>1 DEF Lefts
  <2>3. intact \in Flags
    BY DEF Flags
  <2>4. Receiver(c, s, Tail(fwd[c]))
    BY <1>5 DEF ReceiveBody
  <2> HIDE DEF pc, intact, left
  <2>5. /\ s \in ReceiverRecords /\ s.pc = pc /\ s.nr = r.nr
        /\ s.obj = r.obj /\ s.left = left
    BY <1>r, <1>p, <2>2, <2>3 DEF ReceiverRecords
  <2>6. s \in ReceiverEnds
    BY <2>1, <2>2, <2>5 DEF ReceiverEnds
  <2> QED
    BY <1>5, <1>f, <1>b, <2>1, <2>2, <2>4, <2>5, <2>6, QuietReceiver
       DEF ReceiveBody
<1>6. CASE ReceiveBroken(c)
  BY <1>6, <1>r, <1>f, <1>b, Afresh, QuietReceiver DEF ReceiveBroken
<1>7. CASE ReceiveError(c)
  BY <1>7, <1>r, <1>f, <1>b, Afresh, QuietReceiver DEF ReceiveError
<1> QED
  BY <1>1, <1>2, <1>3, <1>4, <1>5, <1>6, <1>7

-----------------------------------------------------------------------------
(* The three steps that make, announce and deliver a copy.                  *)

(* What AddToFilter does.                                                   *)
LEMMA AddToFilterStep ==
    ASSUME Types, NEW c \in Connections, AddToFilter(c)
    PROVE  /\ Types'
           /\ rcv'[c].pc = "accept" /\ rcv'[c].nr = copies + 1
           /\ rcv'[c].obj = rcv[c].obj /\ rcv'[c].intact = rcv[c].intact
           /\ \A e \in Connections \ {c} : rcv'[e] = rcv[e]
<1> USE TransferConstants
<1> DEFINE r == rcv[c]
           n == copies + 1
           s == [r EXCEPT !.pc = "accept", !.nr = n]
<1>1. /\ r \in ReceiverEnds /\ r \in ReceiverRecords /\ r.pc = "add"
      /\ copies \in Nat
  BY DEF Types, NetTypes, ReceiverEnds, AddToFilter
<1>2. "accept" \in ReceiverPcs
  BY DEF ReceiverPcs, ReceiveStages, CopyStages
<1>n. n \in Nat /\ n > 0
  BY <1>1
<1> HIDE DEF n
<1>3. /\ s \in ReceiverRecords /\ s.pc = "accept" /\ s.nr = n
      /\ s.obj = r.obj
  BY <1>1, <1>2, <1>n DEF ReceiverRecords
<1>i. s.intact = r.intact
  BY <1>1 DEF ReceiverRecords
<1>4. r.obj \in DataObjects /\ s \in ReceiverEnds
  BY <1>1, <1>3, <1>n DEF ReceiverEnds, CopyStages
<1>5. rcv' = [rcv EXCEPT ![c] = s]
  BY DEF AddToFilter, n
<1> HIDE DEF s
<1>6. /\ rcv' \in [Connections -> ReceiverEnds] /\ rcv'[c] = s
      /\ \A e \in Connections \ {c} : rcv'[e] = rcv[e]
  BY <1>4, <1>5 DEF Types, NetTypes
<1>7. NetTypes'
  BY <1>1, <1>6 DEF AddToFilter, Types, NetTypes
<1>8. NodeTypes'
  BY <1>4 DEF AddToFilter, Types, NodeTypes, kernelVars
<1> QED
  BY <1>3, <1>i, <1>6, <1>7, <1>8 DEF Types, n

LEMMA CopyAtType ==
    ASSUME Types, NEW c \in Connections,
           rcv[c].pc \in {"accept", "body", "ack"}
    PROVE  CopyAt(c) \in CopyNames /\ rcv[c].obj \in DataObjects
BY DEF Types, NetTypes, ReceiverEnds, ReceiverRecords, CopyStages, CopyAt,
       CopyNames

(* What SendAccept does: the copy is announced, and the receiver reads the  *)
(* body of that copy or has none.                                           *)
LEMMA SendAcceptStep ==
    ASSUME Types, NEW c \in Connections, SendAccept(c)
    PROVE  /\ Types'
           /\ rcv'[c].pc # "accept"
           /\ rcv'[c].pc \in {"body", "ack"} => CopyAt(c)' = CopyAt(c)
           /\ rcv'[c].nr = rcv[c].nr \/ rcv'[c].nr = 0
           /\ \A e \in Connections \ {c} : rcv'[e] = rcv[e]
<1> USE TransferConstants
<1> DEFINE r == rcv[c]
           len == BodyLen(r.obj)
           pc == IF len = 0 THEN "ack" ELSE "body"
           s == [r EXCEPT !.pc = pc, !.left = len]
           e0 == [type |-> "INCOMING", copy |-> CopyAt(c)]
<1>1. r \in ReceiverEnds /\ r \in ReceiverRecords /\ r.pc = "accept"
  BY DEF Types, NetTypes, ReceiverEnds, SendAccept
<1>2. CopyAt(c) \in CopyNames /\ r.obj \in DataObjects
  BY <1>1, CopyAtType
<1>3. /\ pc \in {"ack", "body"} /\ pc \in ReceiverPcs /\ len \in Lefts
      /\ pc = "body" => len > 0
  BY DEF BodyLen, ReceiverPcs, ReceiveStages, CopyStages, Lefts
<1>4. \/ Answer(c, "ACCEPT") /\ Receiver(c, s, fwd[c])
      \/ UNCHANGED back /\ Receiver(c, AfterError(r), fwd[c])
      \/ UNCHANGED back /\ Receiver(c, ReceiverClosed(r), fwd[c])
  BY DEF SendAccept
<1> HIDE DEF len, pc
<1>5. /\ s \in ReceiverRecords /\ s.pc = pc /\ s.left = len
      /\ s.obj = r.obj /\ s.nr = r.nr
  BY <1>1, <1>3 DEF ReceiverRecords
<1>6. s \in ReceiverEnds
  BY <1>1, <1>2, <1>3, <1>5 DEF ReceiverEnds, CopyStages
<1>7. back' \in [Connections -> Seq(Messages)]
  BY <1>2, <1>4, AnswerTypes DEF Types, NetTypes
<1>8. PICK t \in {s, AfterError(r), ReceiverClosed(r)} : Receiver(c, t, fwd[c])
  BY <1>4
<1>9. t \in ReceiverEnds /\ fwd[c] \in Seq(Items)
  BY <1>1, <1>6, Afresh DEF Types, NetTypes
<1>10. NetTypes'
  BY <1>7, <1>8, <1>9, ReceiverStepTypes DEF SendAccept, Types, NetTypes,
     tally
<1>11. e0 \in EventSet
  BY <1>2 DEF EventSet, EventTypes
<1>12. events' \in Seq(EventSet)
  BY <1>11 DEF SendAccept, addEvent, Types, NodeTypes
<1>13. NodeTypes'
  BY <1>12 DEF SendAccept, Types, NodeTypes, kernelVars
<1>14. rcv'[c] = t /\ \A e \in Connections \ {c} : rcv'[e] = rcv[e]
  BY <1>8, ReceiverAt
<1>15. CASE t = s
  BY <1>3, <1>5, <1>10, <1>13, <1>14, <1>15 DEF Types, CopyAt
<1>16. CASE t # s
  <2>1. t.pc \in {"idle", "closed"} /\ t.nr = 0
    <3>1. t = AfterError(r) \/ t = ReceiverClosed(r)
      BY <1>8, <1>16
    <3>2. /\ AfterError(r).pc \in {"idle", "closed"} /\ AfterError(r).nr = 0
          /\ ReceiverClosed(r).pc \in {"idle", "closed"}
          /\ ReceiverClosed(r).nr = 0
      BY <1>1, Afresh
    <3> HIDE DEF s
    <3> QED
      BY <3>1, <3>2
  <2> QED
    BY <1>10, <1>13, <1>14, <2>1 DEF Types
<1> QED
  BY <1>15, <1>16

(* What SendAck does: the copy is received, and the receiver has none.      *)
LEMMA SendAckStep ==
    ASSUME Types, NEW c \in Connections, SendAck(c)
    PROVE  /\ Types'
           /\ rcv'[c].pc = "idle" /\ rcv'[c].nr = 0
           /\ \A e \in Connections \ {c} : rcv'[e] = rcv[e]
           /\ CopyAt(c) \in CopyNames
<1> USE TransferConstants
<1> DEFINE e0 == [type |-> "RECEIVED", copy |-> CopyAt(c)]
<1>1. rcv[c] \in ReceiverEnds /\ rcv[c].pc = "ack"
  BY DEF Types, NetTypes, SendAck
<1>2. CopyAt(c) \in CopyNames /\ rcv[c].obj \in DataObjects
  BY <1>1, CopyAtType
<1>3. Idle(rcv[c], 0) \in ReceiverEnds /\ fwd[c] \in Seq(Items)
      /\ Idle(rcv[c], 0).pc = "idle" /\ Idle(rcv[c], 0).nr = 0
  BY <1>1, Afresh DEF Types, NetTypes
<1>4. back' \in [Connections -> Seq(Messages)]
  BY <1>2, AnswerTypes DEF SendAck, Types, NetTypes
<1>5. NetTypes'
  BY <1>3, <1>4, ReceiverStepTypes DEF SendAck, Types, NetTypes, tally
<1>6. e0 \in EventSet
  BY <1>2 DEF EventSet, EventTypes
<1>7. events' \in Seq(EventSet)
  BY <1>6 DEF SendAck, addEvent, Types, NodeTypes
<1>8. NodeTypes'
  BY <1>2, <1>7 DEF SendAck, Types, NodeTypes, kernelVars
<1>9. rcv'[c] = Idle(rcv[c], 0) /\ \A e \in Connections \ {c} : rcv'[e] = rcv[e]
  BY ReceiverAt DEF SendAck
<1> QED
  BY <1>2, <1>3, <1>5, <1>8, <1>9 DEF Types

-----------------------------------------------------------------------------
(***************************************************************************)
(* The invariant of the copies                                              *)
(***************************************************************************)
Ev(type, k) == [type |-> type, copy |-> k]

(* The copy's INCOMING event is queued; its RECEIVED event is queued; the   *)
(* receiver is reading it; it is past the duplicate test.                   *)
Announced(k) == Contains(events, Ev("INCOMING", k))
Arrived(k) == Contains(events, Ev("RECEIVED", k))
Arriving(k) ==
    \E c \in Connections : rcv[c].pc \in {"body", "ack"} /\ CopyAt(c) = k
Passed(k) ==
    \/ Contains(events, Ev("SECURITY_TASK_COMPLETE", k))
    \/ Contains(events, Ev("VERIFIED", k))
    \/ Contains(events, Ev("DATA_TASK_COMPLETE", k))
    \/ Contains(signing, k) \/ Contains(hashing, k) \/ Contains(inserting, k)
    \/ k \in stored

(* The copy's INCOMING event was handled and did not mark it: it may pass   *)
(* the duplicate test, or has passed it.                                    *)
Winner(k) ==
    /\ Arriving(k) \/ Arrived(k) \/ Passed(k)
    /\ ~Announced(k)
    /\ k \notin duplicate \/ Passed(k)

(* The RECEIVED event of a copy is behind its INCOMING event.               *)
InOrder(q) ==
    \A i, j \in 1..Len(q) : \A k \in CopyNames :
        q[i] = Ev("INCOMING", k) /\ q[j] = Ev("RECEIVED", k) => i < j

(* Copies are numbered; a copy that is not announced yet is nowhere.        *)
Numbered ==
    /\ \A c \in Connections : rcv[c].nr <= copies
    /\ \A k \in CopyNames : Arrived(k) \/ Passed(k) => k.nr <= copies
Fresh ==
    \A c \in Connections : rcv[c].pc = "accept" =>
        ~Arrived(CopyAt(c)) /\ ~Passed(CopyAt(c))

PassedInv == \A k \in CopyNames : Passed(k) => ~Announced(k)

(* One winner per data object, and the data manager's filter has it.        *)
OneWinner ==
    \A k, l \in CopyNames : k.obj = l.obj /\ Winner(k) /\ Winner(l) => k = l
WinnerKnown == \A k \in CopyNames : Winner(k) => k.obj \in localBF

CopyInv ==
    /\ Numbered /\ Fresh /\ InOrder(events) /\ PassedInv
    /\ OneWinner /\ WinnerKnown
    /\ localBF \subseteq bf

-----------------------------------------------------------------------------
LEMMA EvSame ==
    ASSUME NEW a, NEW b, NEW k, NEW l
    PROVE  Ev(a, k) = Ev(b, l) <=> a = b /\ k = l
<1>1. Ev(a, k) = Ev(b, l) => Ev(a, k).type = Ev(b, l).type
                             /\ Ev(a, k).copy = Ev(b, l).copy
  OBVIOUS
<1> QED
  BY <1>1 DEF Ev

LEMMA EvType ==
    ASSUME NEW type \in EventTypes, NEW k \in CopyNames
    PROVE  Ev(type, k) \in EventSet
BY DEF Ev, EventSet

(* A record of the right fields is such an event.                           *)
LEMMA EvOf ==
    ASSUME NEW e \in EventSet
    PROVE  e = Ev(e.type, e.copy) /\ e.type \in EventTypes
           /\ e.copy \in CopyNames
BY DEF Ev, EventSet

LEMMA OrderTaken ==
    ASSUME NEW q \in Seq(EventSet), q # <<>>, InOrder(q)
    PROVE  /\ InOrder(Tail(q))
           /\ \A k \in CopyNames : Head(q) = Ev("RECEIVED", k)
                 => ~Contains(q, Ev("INCOMING", k))
<1>1. /\ Head(q) = q[1]
      /\ Tail(q) \in Seq(EventSet) /\ Len(Tail(q)) = Len(q) - 1
      /\ Len(q) \in Nat /\ Len(q) > 0 /\ 1 \in 1..Len(q)
      /\ \A i \in 1..Len(Tail(q)) :
            i + 1 \in 1..Len(q) /\ Tail(q)[i] = q[i + 1]
  OBVIOUS
<1>2. InOrder(Tail(q))
  <2> SUFFICES ASSUME NEW i \in 1..Len(Tail(q)), NEW j \in 1..Len(Tail(q)),
                      NEW k \in CopyNames, Tail(q)[i] = Ev("INCOMING", k),
                      Tail(q)[j] = Ev("RECEIVED", k)
               PROVE  i < j
    BY DEF InOrder
  <2>1. i + 1 < j + 1
    BY <1>1 DEF InOrder
  <2> QED
    BY <2>1
<1>3. ASSUME NEW k \in CopyNames, Head(q) = Ev("RECEIVED", k),
             Contains(q, Ev("INCOMING", k))
      PROVE  FALSE
  <2>1. PICK i \in 1..Len(q) : q[i] = Ev("INCOMING", k)
    BY <1>3 DEF Contains
  <2>2. i < 1
    BY <1>1, <1>3, <2>1 DEF InOrder
  <2> QED
    BY <1>1, <2>2
<1> QED
  BY <1>2, <1>3

LEMMA OrderAdded ==
    ASSUME NEW q \in Seq(EventSet), InOrder(q),
           NEW type \in EventTypes, NEW k \in CopyNames,
           type = "INCOMING" => ~Contains(q, Ev("RECEIVED", k))
    PROVE  InOrder(Append(q, Ev(type, k)))
<1> DEFINE e == Ev(type, k)
<1>0. e \in EventSet
  BY EvType
<1> HIDE DEF e
<1>1. /\ Append(q, e) \in Seq(EventSet) /\ Len(Append(q, e)) = Len(q) + 1
      /\ Len(q) \in Nat
      /\ \A i \in 1..Len(q) : Append(q, e)[i] = q[i]
      /\ Append(q, e)[Len(q) + 1] = e
  BY <1>0
<1> SUFFICES ASSUME NEW i \in 1..Len(Append(q, e)),
                    NEW j \in 1..Len(Append(q, e)), NEW l \in CopyNames,
                    Append(q, e)[i] = Ev("INCOMING", l),
                    Append(q, e)[j] = Ev("RECEIVED", l)
             PROVE  i < j
  BY DEF InOrder, e
<1>2. CASE i \in 1..Len(q) /\ j \in 1..Len(q)
  BY <1>1, <1>2 DEF InOrder
<1>3. CASE i \in 1..Len(q) /\ j = Len(q) + 1
  BY <1>1, <1>3
<1>4. CASE i = Len(q) + 1
  <2>1. e = Ev("INCOMING", l)
    BY <1>1, <1>4
  <2>2. type = "INCOMING" /\ l = k
    BY <2>1, EvSame DEF e
  <2>3. j # Len(q) + 1
    <3>1. Ev("RECEIVED", l) # Ev("INCOMING", l)
      BY EvSame
    <3> QED
      BY <1>1, <2>1, <3>1
  <2>4. j \in 1..Len(q) /\ q[j] = Ev("RECEIVED", k)
    BY <1>1, <2>2, <2>3
  <2> QED
    BY <2>2, <2>4 DEF Contains
<1> QED
  BY <1>1, <1>2, <1>3, <1>4

(* The properties' view of a copy that passed the duplicate test.           *)
LEMMA AcceptedIsPassed ==
    ASSUME Types, NEW k
    PROVE  Accepted(k) => Passed(k)
<1>1. /\ DOMAIN events = 1..Len(events)
      /\ k \in Range(signing) <=> Contains(signing, k)
      /\ k \in Range(hashing) <=> Contains(hashing, k)
      /\ k \in Range(inserting) <=> Contains(inserting, k)
  BY RangeContains DEF Types, NodeTypes
<1>2. ASSUME NEW i \in DOMAIN events, events[i].copy = k,
             events[i].type \notin {"INCOMING", "RECEIVED"}
      PROVE  Passed(k)
  <2>1. events[i] \in EventSet
    BY <1>1, <1>2 DEF Types, NodeTypes
  <2>2. events[i] = Ev(events[i].type, k) /\ events[i].type \in EventTypes
    BY <1>2, <2>1, EvOf
  <2>3. Contains(events, Ev(events[i].type, k))
    BY <1>1, <2>2 DEF Contains
  <2> QED
    BY <1>2, <2>2, <2>3 DEF Passed, EventTypes
<1> QED
  BY <1>1, <1>2 DEF Accepted, Passed

-----------------------------------------------------------------------------
(***************************************************************************)
(* Steps that keep the invariant of the copies                              *)
(***************************************************************************)
LEMMA InitCopies ==
    ASSUME Init
    PROVE  CopyInv
<1>1. \A k : ~Announced(k) /\ ~Arrived(k) /\ ~Passed(k)
  BY DEF Init, Announced, Arrived, Passed, Contains
<1>2. \A c \in Connections : rcv[c].pc = "closed" /\ rcv[c].nr = 0
  BY DEF Init, ClosedReceiver
<1>3. \A k : ~Arriving(k)
  BY <1>2 DEF Arriving
<1>4. InOrder(events)
  BY DEF InOrder, Init
<1>5. Numbered /\ Fresh /\ PassedInv
  BY <1>1, <1>2 DEF Numbered, Fresh, PassedInv, Init
<1>6. OneWinner /\ WinnerKnown
  BY <1>1, <1>3 DEF OneWinner, WinnerKnown, Winner
<1> QED
  BY <1>4, <1>5, <1>6 DEF CopyInv, Init

(* The winners stay the winners, and what is known stays known.             *)
LEMMA NoNewWinner ==
    ASSUME CopyInv, \A k \in CopyNames : Winner(k)' => Winner(k),
           localBF \subseteq localBF'
    PROVE  OneWinner' /\ WinnerKnown'
BY DEF CopyInv, OneWinner, WinnerKnown

LEMMA QuietCopies ==
    ASSUME Types, Types', CopyInv, Quiet
    PROVE  CopyInv'
<1>1. \A k : /\ Announced(k)' <=> Announced(k)
             /\ Arrived(k)' <=> Arrived(k)
             /\ Passed(k)' <=> Passed(k)
  BY DEF Quiet, nodeVars, kernelVars, Announced, Arrived, Passed
<1>2. \A k : Arriving(k)' => Arriving(k)
  BY DEF Quiet, Arriving, CopyAt
<1>3. \A k \in CopyNames : Winner(k)' => Winner(k)
  BY <1>1, <1>2 DEF Winner, Quiet, nodeVars, kernelVars
<1>4. OneWinner' /\ WinnerKnown'
  BY <1>3, NoNewWinner DEF Quiet, nodeVars, kernelVars
<1>5. Numbered'
  <2>1. copies \in Nat /\ copies' = copies
        /\ \A c \in Connections : rcv[c].nr \in Nat /\ rcv[c].nr <= copies
    BY DEF CopyInv, Numbered, Quiet, Types, NetTypes, ReceiverEnds,
       ReceiverRecords
  <2>2. \A c \in Connections : rcv'[c].nr <= copies'
    BY <2>1 DEF Quiet
  <2> QED
    BY <1>1, <2>1, <2>2 DEF CopyInv, Numbered
<1>6. Fresh'
  BY <1>1 DEF CopyInv, Fresh, Quiet, CopyAt
<1>7. PassedInv'
  BY <1>1 DEF CopyInv, PassedInv
<1> QED
  BY <1>4, <1>5, <1>6, <1>7 DEF CopyInv, Quiet, nodeVars, kernelVars

LEMMA AddToFilterCopies ==
    ASSUME Types, CopyInv, NEW c \in Connections, AddToFilter(c)
    PROVE  CopyInv'
<1>1. \A k : /\ Announced(k)' <=> Announced(k)
             /\ Arrived(k)' <=> Arrived(k)
             /\ Passed(k)' <=> Passed(k)
  BY DEF AddToFilter, kernelVars, Announced, Arrived, Passed
<1>2. /\ Types'
      /\ rcv'[c].pc = "accept" /\ rcv'[c].nr = copies + 1
      /\ \A e \in Connections \ {c} : rcv'[e] = rcv[e]
  BY AddToFilterStep
<1>3. copies \in Nat /\ copies' = copies + 1
  BY DEF Types, NetTypes, AddToFilter
<1>4. \A k : Arriving(k)' => Arriving(k)
  BY <1>2 DEF Arriving, CopyAt
<1>5. \A k \in CopyNames : Winner(k)' => Winner(k)
  BY <1>1, <1>4 DEF Winner, AddToFilter, kernelVars
<1>6. OneWinner' /\ WinnerKnown'
  BY <1>5, NoNewWinner DEF AddToFilter, kernelVars
<1>7. Numbered'
  <2>1. \A e \in Connections : rcv'[e].nr <= copies'
    <3>1. \A e \in Connections : rcv[e].nr \in Nat /\ rcv[e].nr <= copies
      BY DEF CopyInv, Numbered, Types, NetTypes, ReceiverEnds, ReceiverRecords
    <3> QED
      BY <1>2, <1>3, <3>1
  <2>2. \A k \in CopyNames : Arrived(k)' \/ Passed(k)' => k.nr <= copies'
    <3>1. \A k \in CopyNames : k.nr \in Nat
      BY DEF CopyNames
    <3> QED
      BY <1>1, <1>3, <3>1 DEF CopyInv, Numbered
  <2> QED
    BY <2>1, <2>2 DEF Numbered
<1>8. Fresh'
  <2> SUFFICES ASSUME NEW e \in Connections, rcv'[e].pc = "accept"
               PROVE  ~Arrived(CopyAt(e))' /\ ~Passed(CopyAt(e))'
    BY DEF Fresh
  <2>1. CASE e # c
    <3>1. CopyAt(e)' = CopyAt(e) /\ rcv[e].pc = "accept"
      BY <1>2, <2>1 DEF CopyAt
    <3>2. ~Arrived(CopyAt(e)) /\ ~Passed(CopyAt(e))
      BY <3>1 DEF CopyInv, Fresh
    <3> QED
      BY <3>1, <3>2 DEF AddToFilter, kernelVars, Arrived, Passed
  <2>2. CASE e = c
    <3> DEFINE k == [obj |-> rcv'[c].obj, conn |-> c, nr |-> rcv'[c].nr]
    <3>1. CopyAt(e)' = k
      BY <2>2 DEF CopyAt
    <3>2. k \in CopyNames
      BY <1>2, <1>3, <2>2 DEF CopyNames, Types, NetTypes, ReceiverEnds,
         ReceiverRecords, CopyStages
    <3>3. ~(k.nr <= copies)
      BY <1>2, <1>3
    <3>4. ~Arrived(k) /\ ~Passed(k)
      BY <3>2, <3>3 DEF CopyInv, Numbered
    <3> QED
      BY <3>1, <3>4 DEF AddToFilter, kernelVars, Arrived, Passed
  <2> QED
    BY <2>1, <2>2
<1>9. PassedInv'
  BY <1>1 DEF CopyInv, PassedInv
<1> QED
  BY <1>6, <1>7, <1>8, <1>9 DEF CopyInv, AddToFilter, kernelVars

(* The INCOMING event of a copy is posted: the copy is fresh, so the event  *)
(* is ahead of everything else that is about the copy.                      *)
LEMMA SendAcceptCopies ==
    ASSUME Types, CopyInv, NEW c \in Connections, SendAccept(c)
    PROVE  Types' /\ CopyInv'
<1> DEFINE k0 == CopyAt(c)
<1>1. /\ Types' /\ rcv'[c].pc # "accept"
      /\ rcv'[c].pc \in {"body", "ack"} => CopyAt(c)' = k0
      /\ rcv'[c].nr = rcv[c].nr \/ rcv'[c].nr = 0
      /\ \A e \in Connections \ {c} : rcv'[e] = rcv[e]
  BY SendAcceptStep
<1>2. /\ rcv[c].pc = "accept" /\ events \in Seq(EventSet)
      /\ events' = Append(events, Ev("INCOMING", k0))
      /\ UNCHANGED <<copies, bf, localBF, duplicate, signing, hashing,
                     inserting, stored>>
  BY DEF SendAccept, addEvent, Ev, Types, NodeTypes, tally, kernelVars
<1>3. k0 \in CopyNames /\ ~Arrived(k0) /\ ~Passed(k0)
  BY <1>2, CopyAtType DEF CopyInv, Fresh
<1> HIDE DEF k0
<1>4. Ev("INCOMING", k0) \in EventSet
  BY <1>3, EvType DEF EventTypes
<1>5. \A x : Contains(events', x)
                <=> Contains(events, x) \/ x = Ev("INCOMING", k0)
  BY <1>2, <1>4, Added
<1>6. \A k : /\ Announced(k)' <=> Announced(k) \/ k = k0
             /\ Arrived(k)' <=> Arrived(k)
             /\ Passed(k)' <=> Passed(k)
  BY <1>2, <1>5, EvSame DEF Announced, Arrived, Passed
<1>7. \A k : Arriving(k)' => Arriving(k) \/ k = k0
  BY <1>1 DEF Arriving, CopyAt
<1>8. \A k \in CopyNames : Winner(k)' => Winner(k)
  BY <1>2, <1>6, <1>7 DEF Winner
<1>9. OneWinner' /\ WinnerKnown'
  BY <1>2, <1>8, NoNewWinner
<1>10. Numbered'
  <2>1. /\ copies \in Nat
        /\ \A e \in Connections : rcv[e].nr \in Nat /\ rcv[e].nr <= copies
    BY DEF CopyInv, Numbered, Types, NetTypes, ReceiverEnds, ReceiverRecords
  <2>2. \A e \in Connections : rcv'[e].nr <= copies'
    BY <1>1, <1>2, <2>1
  <2> QED
    BY <1>2, <1>6, <2>2 DEF CopyInv, Numbered
<1>11. Fresh'
  <2> SUFFICES ASSUME NEW e \in Connections, rcv'[e].pc = "accept"
               PROVE  ~Arrived(CopyAt(e))' /\ ~Passed(CopyAt(e))'
    BY DEF Fresh
  <2>1. CopyAt(e)' = CopyAt(e) /\ rcv[e].pc = "accept"
    BY <1>1 DEF CopyAt
  <2>2. ~Arrived(CopyAt(e)) /\ ~Passed(CopyAt(e))
    BY <2>1 DEF CopyInv, Fresh
  <2> DEFINE k == CopyAt(e)
  <2>3. ~Contains(events', Ev("RECEIVED", k))
    BY <1>6, <2>2 DEF Arrived
  <2>4. ~Passed(k)'
    BY <1>6, <2>1, <2>2
  <2> QED
    BY <2>1, <2>3, <2>4 DEF Arrived, Passed
<1>12. PassedInv'
  BY <1>3, <1>6 DEF CopyInv, PassedInv
<1>13. InOrder(events')
  <2>1. ~Contains(events, Ev("RECEIVED", k0))
    BY <1>3 DEF Arrived
  <2> QED
    BY <1>2, <1>3, <2>1, OrderAdded DEF CopyInv, EventTypes
<1> QED
  BY <1>1, <1>2, <1>9, <1>10, <1>11, <1>12, <1>13 DEF CopyInv

(* The RECEIVED event of a copy is posted, behind its INCOMING event.       *)
LEMMA SendAckCopies ==
    ASSUME Types, CopyInv, NEW c \in Connections, SendAck(c)
    PROVE  Types' /\ CopyInv'
<1> DEFINE k0 == CopyAt(c)
<1>1. /\ Types' /\ rcv'[c].pc = "idle" /\ rcv'[c].nr = 0
      /\ \A e \in Connections \ {c} : rcv'[e] = rcv[e]
      /\ k0 \in CopyNames
  BY SendAckStep
<1>2. /\ rcv[c].pc = "ack" /\ events \in Seq(EventSet)
      /\ events' = Append(events, Ev("RECEIVED", k0))
      /\ UNCHANGED <<copies, bf, localBF, duplicate, signing, hashing,
                     inserting, stored>>
  BY DEF SendAck, addEvent, Ev, Types, NodeTypes, tally, kernelVars
<1>3. /\ Arriving(k0) /\ k0.conn = c /\ k0.nr = rcv[c].nr
  BY <1>2 DEF Arriving, CopyAt
<1> HIDE DEF k0
<1>4. Ev("RECEIVED", k0) \in EventSet
  BY <1>1, EvType DEF EventTypes
<1>5. \A x : Contains(events', x)
                <=> Contains(events, x) \/ x = Ev("RECEIVED", k0)
  BY <1>2, <1>4, Added
<1>6. \A k : /\ Announced(k)' <=> Announced(k)
             /\ Arrived(k)' <=> Arrived(k) \/ k = k0
             /\ Passed(k)' <=> Passed(k)
  BY <1>2, <1>5, EvSame DEF Announced, Arrived, Passed
<1>7. \A k : Arriving(k)' => Arriving(k)
  BY <1>1 DEF Arriving, CopyAt
<1>8. \A k \in CopyNames : Winner(k)' => Winner(k)
  BY <1>2, <1>3, <1>6, <1>7 DEF Winner
<1>9. OneWinner' /\ WinnerKnown'
  BY <1>2, <1>8, NoNewWinner
<1>10. Numbered'
  <2>1. /\ copies \in Nat
        /\ \A e \in Connections : rcv[e].nr \in Nat /\ rcv[e].nr <= copies
    BY DEF CopyInv, Numbered, Types, NetTypes, ReceiverEnds, ReceiverRecords
  <2>2. \A e \in Connections : rcv'[e].nr <= copies'
    BY <1>1, <1>2, <2>1
  <2> QED
    BY <1>2, <1>3, <1>6, <2>1, <2>2 DEF CopyInv, Numbered
<1>11. Fresh'
  <2> SUFFICES ASSUME NEW e \in Connections, rcv'[e].pc = "accept"
               PROVE  ~Arrived(CopyAt(e))' /\ ~Passed(CopyAt(e))'
    BY DEF Fresh
  <2>1. CopyAt(e)' = CopyAt(e) /\ rcv[e].pc = "accept" /\ e # c
    BY <1>1 DEF CopyAt
  <2>2. ~Arrived(CopyAt(e)) /\ ~Passed(CopyAt(e)) /\ CopyAt(e).conn = e
    BY <2>1 DEF CopyInv, Fresh, CopyAt
  <2> DEFINE k == CopyAt(e)
  <2>3. ~Contains(events', Ev("RECEIVED", k))
    BY <1>3, <1>6, <2>1, <2>2 DEF Arrived
  <2>4. ~Passed(k)'
    BY <1>6, <2>1, <2>2
  <2> QED
    BY <2>1, <2>3, <2>4 DEF Arrived, Passed
<1>12. PassedInv'
  BY <1>6 DEF CopyInv, PassedInv
<1>13. InOrder(events')
  BY <1>1, <1>2, OrderAdded DEF CopyInv, EventTypes
<1> QED
  BY <1>1, <1>2, <1>9, <1>10, <1>11, <1>12, <1>13 DEF CopyInv

-----------------------------------------------------------------------------
(* A handler or worker that takes a copy on, or drops it.  The copies that  *)
(* are new behind the duplicate test were in front of it, handled and not   *)
(* marked.                                                                  *)
Pipeline ==
    /\ UNCHANGED <<rcv, copies, bf, localBF>>
    /\ duplicate \subseteq duplicate'
    /\ InOrder(events')
    /\ \A k : Announced(k)' <=> Announced(k)
    /\ \A k : Arrived(k)' => Arrived(k)
    /\ \A k : Passed(k)' =>
           Passed(k) \/ (Arrived(k) /\ ~Announced(k) /\ k \notin duplicate)

LEMMA PipelineCopies ==
    ASSUME CopyInv, Pipeline
    PROVE  CopyInv'
<1>1. \A k : Arriving(k)' <=> Arriving(k)
  BY DEF Arriving, CopyAt, Pipeline
<1>2. \A k \in CopyNames : Winner(k)' => Winner(k)
  BY <1>1 DEF Winner, Pipeline
<1>3. OneWinner' /\ WinnerKnown'
  BY <1>2, NoNewWinner DEF Pipeline
<1>4. Numbered' /\ PassedInv'
  BY DEF CopyInv, Numbered, PassedInv, Pipeline
<1>5. Fresh'
  <2> SUFFICES ASSUME NEW e \in Connections, rcv'[e].pc = "accept"
               PROVE  ~Arrived(CopyAt(e))' /\ ~Passed(CopyAt(e))'
    BY DEF Fresh
  <2> DEFINE k == CopyAt(e)
  <2>1. CopyAt(e)' = k /\ ~Arrived(k) /\ ~Passed(k)
    BY DEF CopyAt, CopyInv, Fresh, Pipeline
  <2>2. ~Arrived(k)' /\ ~Passed(k)'
    BY <2>1 DEF Pipeline
  <2> QED
    BY <2>1, <2>2 DEF Arrived, Passed
<1> QED
  BY <1>3, <1>4, <1>5 DEF CopyInv, Pipeline

(* The data manager's handler of INCOMING decides who wins: the first copy  *)
(* whose data object its filter does not have.                              *)
LEMMA IncomingCopies ==
    ASSUME Types, CopyInv, NEW k0 \in CopyNames, onIncomingDataObject(k0)
    PROVE  CopyInv'
<1>1. /\ events # <<>> /\ events \in Seq(EventSet)
      /\ Head(events) = Ev("INCOMING", k0) /\ events' = Tail(events)
      /\ UNCHANGED <<rcv, copies, signing, hashing, inserting, stored>>
  BY DEF onIncomingDataObject, Event, NothingPosted, Ev, Types, NodeTypes,
     netVars, tally
<1>2. \A x : Contains(events, x)
                <=> Contains(events', x) \/ x = Ev("INCOMING", k0)
  BY <1>1, Taken
<1>3. \A k : /\ Announced(k) <=> Announced(k)' \/ k = k0
             /\ Arrived(k)' <=> Arrived(k)
             /\ Passed(k)' <=> Passed(k)
  BY <1>1, <1>2, EvSame DEF Announced, Arrived, Passed
<1>4. \A k : Arriving(k)' <=> Arriving(k)
  BY <1>1 DEF Arriving, CopyAt
<1>5. ~Passed(k0) /\ ~Winner(k0)
  BY <1>3 DEF CopyInv, PassedInv, Winner
<1>6. /\ OneWinner' /\ WinnerKnown' /\ localBF' \subseteq bf'
  <2>1. CASE k0.obj \in localBF
    <3>1. duplicate' = duplicate \cup {k0} /\ UNCHANGED <<localBF, bf>>
      BY <2>1 DEF onIncomingDataObject
    <3>2. \A k \in CopyNames : Winner(k)' => Winner(k)
      BY <1>3, <1>4, <1>5, <3>1 DEF Winner
    <3> QED
      BY <3>1, <3>2, NoNewWinner DEF CopyInv
  <2>2. CASE k0.obj \notin localBF
    <3>1. /\ localBF' = localBF \cup {k0.obj} /\ bf' = localBF'
          /\ duplicate' = duplicate
      BY <2>2 DEF onIncomingDataObject
    <3>2. \A k \in CopyNames : Winner(k)' => Winner(k) \/ k = k0
      BY <1>3, <1>4, <3>1 DEF Winner
    <3>3. \A k \in CopyNames : Winner(k) => k.obj # k0.obj
      BY <2>2 DEF CopyInv, WinnerKnown
    <3>4. OneWinner'
      BY <3>2, <3>3 DEF CopyInv, OneWinner
    <3>5. WinnerKnown'
      BY <3>1, <3>2 DEF CopyInv, WinnerKnown
    <3> QED
      BY <3>1, <3>4, <3>5
  <2> QED
    BY <2>1, <2>2
<1>7. Numbered' /\ PassedInv'
  BY <1>1, <1>3 DEF CopyInv, Numbered, PassedInv
<1>8. Fresh'
  <2> SUFFICES ASSUME NEW e \in Connections, rcv'[e].pc = "accept"
               PROVE  ~Arrived(CopyAt(e))' /\ ~Passed(CopyAt(e))'
    BY DEF Fresh
  <2> DEFINE k == CopyAt(e)
  <2>1. CopyAt(e)' = k /\ ~Arrived(k) /\ ~Passed(k)
    BY <1>1 DEF CopyAt, CopyInv, Fresh
  <2>2. ~Arrived(k)' /\ ~Passed(k)'
    BY <1>3, <2>1
  <2> QED
    BY <2>1, <2>2 DEF Arrived, Passed
<1>9. InOrder(events')
  BY <1>1, OrderTaken DEF CopyInv
<1> QED
  BY <1>6, <1>7, <1>8, <1>9 DEF CopyInv

(* The kernel takes an event off its queue.                                 *)
LEMMA EventTaken ==
    ASSUME Types, CopyInv, NEW type, NEW k0, Event(type, k0)
    PROVE  /\ k0 \in CopyNames /\ type \in EventTypes
           /\ Tail(events) \in Seq(EventSet) /\ InOrder(Tail(events))
           /\ \A x : Contains(events, x)
                     <=> Contains(Tail(events), x) \/ x = Ev(type, k0)
           /\ type = "RECEIVED" => ~Announced(k0)
<1>1. /\ events # <<>> /\ events \in Seq(EventSet) /\ InOrder(events)
      /\ Head(events) = Ev(type, k0)
  BY DEF Event, Ev, Types, NodeTypes, CopyInv
<1>2. Ev(type, k0) \in EventSet
  BY <1>1, HeadTail
<1>3. Ev(type, k0).type = type /\ Ev(type, k0).copy = k0
  BY DEF Ev
<1>4. k0 \in CopyNames /\ type \in EventTypes
  BY <1>2, <1>3, EvOf
<1>5. /\ Tail(events) \in Seq(EventSet)
      /\ \A x : Contains(events, x)
                <=> Contains(Tail(events), x) \/ x = Ev(type, k0)
  BY <1>1, Taken
<1>6. /\ InOrder(Tail(events))
      /\ type = "RECEIVED" => ~Announced(k0)
  BY <1>1, <1>4, OrderTaken DEF Announced
<1> QED
  BY <1>4, <1>5, <1>6

(* An event that is no INCOMING is put at the end of a queue.               *)
LEMMA EventPosted ==
    ASSUME NEW q \in Seq(EventSet), InOrder(q), NEW k0 \in CopyNames,
           NEW type \in EventTypes \ {"INCOMING"}
    PROVE  /\ Append(q, Ev(type, k0)) \in Seq(EventSet)
           /\ InOrder(Append(q, Ev(type, k0)))
           /\ \A x : Contains(Append(q, Ev(type, k0)), x)
                     <=> Contains(q, x) \/ x = Ev(type, k0)
<1>1. Ev(type, k0) \in EventSet
  BY EvType
<1>2. InOrder(Append(q, Ev(type, k0)))
  BY OrderAdded
<1> QED
  BY <1>1, <1>2, Added

(* The security manager's handler of RECEIVED: the duplicate test.          *)
LEMMA ReceivedStep ==
    ASSUME Types, CopyInv, NEW k0, onReceivedDataObject(k0)
    PROVE  Types' /\ Pipeline
<1>1. /\ k0 \in CopyNames /\ Event("RECEIVED", k0)
      /\ Tail(events) \in Seq(EventSet) /\ InOrder(Tail(events))
      /\ \A x : Contains(events, x)
                <=> Contains(Tail(events), x) \/ x = Ev("RECEIVED", k0)
      /\ ~Announced(k0)
  BY EventTaken DEF onReceivedDataObject
<1>2. /\ UNCHANGED <<snd, rcv, netVars, outcome, bf, localBF, duplicate,
                     hashing, inserting, stored, received>>
      /\ signing \in Seq(CopyNames)
  BY DEF onReceivedDataObject, Types, NodeTypes
<1>3. ASSUME events' = Tail(events), signing' = signing
      PROVE  Types' /\ Pipeline
  <2>1. \A k : /\ Announced(k)' <=> Announced(k)
               /\ Arrived(k)' => Arrived(k)
               /\ Passed(k)' => Passed(k)
    BY <1>1, <1>2, <1>3, EvSame DEF Announced, Arrived, Passed
  <2>2. Pipeline
    BY <1>1, <1>2, <1>3, <2>1 DEF Pipeline, netVars, tally
  <2> QED
    BY <1>1, <1>2, <1>3, <2>2 DEF Types, NetTypes, NodeTypes, netVars, tally
<1>4. ASSUME events' = Tail(events), signing' = Append(signing, k0),
             k0 \notin duplicate
      PROVE  Types' /\ Pipeline
  <2>1. /\ signing' \in Seq(CopyNames)
        /\ \A x : Contains(signing', x) <=> Contains(signing, x) \/ x = k0
    BY <1>1, <1>2, <1>4, Added
  <2>2. \A k : /\ Announced(k)' <=> Announced(k)
               /\ Arrived(k)' => Arrived(k)
               /\ Passed(k)' => Passed(k) \/ k = k0
    BY <1>1, <1>2, <1>4, <2>1, EvSame DEF Announced, Arrived, Passed
  <2>3. Arrived(k0)
    BY <1>1 DEF Arrived
  <2>4. Pipeline
    BY <1>1, <1>2, <1>4, <2>2, <2>3 DEF Pipeline, netVars, tally
  <2> QED
    BY <1>1, <1>2, <1>4, <2>1, <2>4 DEF Types, NetTypes, NodeTypes, netVars,
       tally
<1>5. ASSUME events' = Append(Tail(events), Ev("VERIFIED", k0)),
             signing' = signing, k0 \notin duplicate
      PROVE  Types' /\ Pipeline
  <2>1. /\ events' \in Seq(EventSet) /\ InOrder(events')
        /\ \A x : Contains(events', x)
                  <=> Contains(Tail(events), x) \/ x = Ev("VERIFIED", k0)
    BY <1>1, <1>5, EventPosted DEF EventTypes
  <2>2. \A k : /\ Announced(k)' <=> Announced(k)
               /\ Arrived(k)' => Arrived(k)
               /\ Passed(k)' => Passed(k) \/ k = k0
    BY <1>1, <1>2, <1>5, <2>1, EvSame DEF Announced, Arrived, Passed
  <2>3. Arrived(k0)
    BY <1>1 DEF Arrived
  <2>4. Pipeline
    BY <1>1, <1>2, <1>5, <2>1, <2>2, <2>3 DEF Pipeline, netVars, tally
  <2> QED
    BY <1>2, <1>5, <2>1, <2>4 DEF Types, NetTypes, NodeTypes, netVars, tally
<1> QED
  BY <1>3, <1>4, <1>5 DEF onReceivedDataObject, NothingPosted, Posted, Ev

(* A step behind the duplicate test.                                        *)
LEMMA Behind ==
    ASSUME Types, UNCHANGED <<snd, rcv, netVars, outcome, bf, localBF, received>>,
           duplicate \subseteq duplicate', duplicate' \subseteq CopyNames,
           stored' \subseteq CopyNames, events' \in Seq(EventSet),
           signing' \in Seq(CopyNames), hashing' \in Seq(CopyNames),
           inserting' \in Seq(CopyNames), InOrder(events'),
           \A k : /\ Announced(k)' <=> Announced(k)
                  /\ Arrived(k)' => Arrived(k)
                  /\ Passed(k)' => Passed(k)
    PROVE  Types' /\ Pipeline
<1>1. Types'
  BY DEF Types, NetTypes, NodeTypes, netVars, tally
<1>2. Pipeline
  BY DEF Pipeline, netVars, tally
<1> QED
  BY <1>1, <1>2

(* The handlers of the events behind the duplicate test.                    *)
LEMMA HandlerSteps ==
    ASSUME Types, CopyInv, NEW k0,
           \/ onSecurityTaskComplete(k0) \/ onVerifiedDataObject(k0)
           \/ onDataTaskComplete(k0)
    PROVE  Types' /\ Pipeline
<1>t. /\ duplicate \subseteq CopyNames /\ stored \subseteq CopyNames
      /\ events \in Seq(EventSet) /\ signing \in Seq(CopyNames)
      /\ hashing \in Seq(CopyNames) /\ inserting \in Seq(CopyNames)
  BY DEF Types, NodeTypes
<1>1. CASE onSecurityTaskComplete(k0)
  <2>1. /\ k0 \in CopyNames
        /\ Tail(events) \in Seq(EventSet) /\ InOrder(Tail(events))
        /\ \A x : Contains(events, x) <=> Contains(Tail(events), x)
                                          \/ x = Ev("SECURITY_TASK_COMPLETE", k0)
    BY <1>1, EventTaken DEF onSecurityTaskComplete
  <2>2. UNCHANGED <<snd, rcv, netVars, outcome, bf, received, kernelVars>>
    BY <1>1 DEF onSecurityTaskComplete
  <2>3. \/ events' = Tail(events)
        \/ events' = Append(Tail(events), Ev("VERIFIED", k0))
    BY <1>1 DEF onSecurityTaskComplete, NothingPosted, Posted, Ev
  <2>4. /\ events' \in Seq(EventSet) /\ InOrder(events')
        /\ \A x : Contains(events', x)
                  => Contains(Tail(events), x) \/ x = Ev("VERIFIED", k0)
        /\ \A x : Contains(Tail(events), x) => Contains(events', x)
    <3> DEFINE q == Append(Tail(events), Ev("VERIFIED", k0))
    <3>1. /\ q \in Seq(EventSet) /\ InOrder(q)
          /\ \A x : Contains(q, x)
                    <=> Contains(Tail(events), x) \/ x = Ev("VERIFIED", k0)
      BY <2>1, EventPosted DEF EventTypes
    <3> HIDE DEF q
    <3>2. CASE events' = q
      BY <3>1, <3>2
    <3>3. CASE events' = Tail(events)
      BY <2>1, <3>3
    <3> QED
      BY <2>3, <3>2, <3>3 DEF q
  <2>5. \A k : /\ Announced(k)' <=> Announced(k)
               /\ Arrived(k)' => Arrived(k)
               /\ Passed(k)' => Passed(k)
    BY <2>1, <2>2, <2>4, EvSame DEF Announced, Arrived, Passed, kernelVars
  <2> QED
    BY <1>t, <2>2, <2>4, <2>5, Behind DEF kernelVars
<1>2. CASE onVerifiedDataObject(k0)
  <2>1. /\ k0 \in CopyNames
        /\ Tail(events) \in Seq(EventSet) /\ InOrder(Tail(events))
        /\ \A x : Contains(events, x)
                  <=> Contains(Tail(events), x) \/ x = Ev("VERIFIED", k0)
    BY <1>2, EventTaken DEF onVerifiedDataObject
  <2>2. /\ UNCHANGED <<snd, rcv, netVars, outcome, bf, localBF, duplicate,
                       signing, stored, received>>
        /\ events' = Tail(events)
    BY <1>2 DEF onVerifiedDataObject, NothingPosted
  <2>3. \/ inserting' = Append(inserting, k0) /\ hashing' = hashing
        \/ inserting' = inserting /\ hashing' = Append(hashing, k0)
    BY <1>2 DEF onVerifiedDataObject
  <2>4. /\ inserting' \in Seq(CopyNames) /\ hashing' \in Seq(CopyNames)
        /\ \A x : Contains(inserting', x) \/ Contains(hashing', x)
                  => Contains(inserting, x) \/ Contains(hashing, x) \/ x = k0
    <3> DEFINE i == Append(inserting, k0)
               h == Append(hashing, k0)
    <3>1. /\ i \in Seq(CopyNames) /\ h \in Seq(CopyNames)
          /\ \A x : Contains(i, x) <=> Contains(inserting, x) \/ x = k0
          /\ \A x : Contains(h, x) <=> Contains(hashing, x) \/ x = k0
      BY <1>t, <2>1, Added
    <3> HIDE DEF i, h
    <3>2. CASE inserting' = i /\ hashing' = hashing
      BY <1>t, <3>1, <3>2
    <3>3. CASE inserting' = inserting /\ hashing' = h
      BY <1>t, <3>1, <3>3
    <3> QED
      BY <2>3, <3>2, <3>3 DEF i, h
  <2>5. \A k : /\ Announced(k)' <=> Announced(k)
               /\ Arrived(k)' => Arrived(k)
               /\ Passed(k)' => Passed(k)
    BY <2>1, <2>2, <2>4, EvSame DEF Announced, Arrived, Passed
  <2> QED
    BY <1>t, <2>1, <2>2, <2>4, <2>5, Behind
<1>3. CASE onDataTaskComplete(k0)
  <2>1. /\ k0 \in CopyNames
        /\ Tail(events) \in Seq(EventSet) /\ InOrder(Tail(events))
        /\ \A x : Contains(events, x) <=> Contains(Tail(events), x)
                                          \/ x = Ev("DATA_TASK_COMPLETE", k0)
    BY <1>3, EventTaken DEF onDataTaskComplete
  <2>2. /\ UNCHANGED <<snd, rcv, netVars, outcome, bf, localBF, duplicate,
                       signing, hashing, stored, received>>
        /\ events' = Tail(events) /\ inserting' = Append(inserting, k0)
    BY <1>3 DEF onDataTaskComplete, NothingPosted
  <2>3. /\ inserting' \in Seq(CopyNames)
        /\ \A x : Contains(inserting', x) <=> Contains(inserting, x) \/ x = k0
    BY <1>t, <2>1, <2>2, Added
  <2>4. \A k : /\ Announced(k)' <=> Announced(k)
               /\ Arrived(k)' => Arrived(k)
               /\ Passed(k)' => Passed(k)
    BY <2>1, <2>2, <2>3, EvSame DEF Announced, Arrived, Passed
  <2> QED
    BY <1>t, <2>1, <2>2, <2>3, <2>4, Behind
<1> QED
  BY <1>1, <1>2, <1>3

(* The helper threads and the data store thread.                            *)
LEMMA WorkerSteps ==
    ASSUME Types, CopyInv, SecurityHelper \/ DataHelper \/ InsertDataObject
    PROVE  Types' /\ Pipeline
<1>t. /\ duplicate \subseteq CopyNames /\ stored \subseteq CopyNames
      /\ events \in Seq(EventSet) /\ signing \in Seq(CopyNames)
      /\ hashing \in Seq(CopyNames) /\ inserting \in Seq(CopyNames)
      /\ InOrder(events)
  BY DEF Types, NodeTypes, CopyInv
<1>1. CASE SecurityHelper
  <2> DEFINE k0 == Head(signing)
  <2>1. /\ k0 \in CopyNames /\ signing' \in Seq(CopyNames)
        /\ \A x : Contains(signing, x) <=> Contains(signing', x) \/ x = k0
    BY <1>1, <1>t, Taken DEF SecurityHelper
  <2>2. /\ UNCHANGED <<snd, rcv, netVars, outcome, bf, localBF, duplicate,
                       hashing, inserting, stored, received>>
        /\ events' = Append(events, Ev("SECURITY_TASK_COMPLETE", k0))
    BY <1>1 DEF SecurityHelper, addEvent, Ev
  <2> HIDE DEF k0
  <2>3. /\ events' \in Seq(EventSet) /\ InOrder(events')
        /\ \A x : Contains(events', x) <=>
                  Contains(events, x) \/ x = Ev("SECURITY_TASK_COMPLETE", k0)
    BY <1>t, <2>1, <2>2, EventPosted DEF EventTypes
  <2>4. \A k : /\ Announced(k)' <=> Announced(k)
               /\ Arrived(k)' => Arrived(k)
               /\ Passed(k)' => Passed(k)
    BY <2>1, <2>2, <2>3, EvSame DEF Announced, Arrived, Passed
  <2> QED
    BY <1>t, <2>1, <2>2, <2>3, <2>4, Behind
<1>2. CASE DataHelper
  <2> DEFINE k0 == Head(hashing)
  <2>1. /\ k0 \in CopyNames /\ hashing' \in Seq(CopyNames)
        /\ \A x : Contains(hashing, x) <=> Contains(hashing', x) \/ x = k0
    BY <1>2, <1>t, Taken DEF DataHelper
  <2>2. /\ UNCHANGED <<snd, rcv, netVars, outcome, bf, localBF, duplicate,
                       signing, inserting, stored, received>>
        /\ \/ events' = Append(events, Ev("DATA_TASK_COMPLETE", k0))
           \/ events' = events
    BY <1>2 DEF DataHelper, addEvent, Ev
  <2> HIDE DEF k0
  <2>3. /\ events' \in Seq(EventSet) /\ InOrder(events')
        /\ \A x : Contains(events', x) =>
                  Contains(events, x) \/ x = Ev("DATA_TASK_COMPLETE", k0)
        /\ \A x : Contains(events, x) => Contains(events', x)
    <3> DEFINE q == Append(events, Ev("DATA_TASK_COMPLETE", k0))
    <3>1. /\ q \in Seq(EventSet) /\ InOrder(q)
          /\ \A x : Contains(q, x) <=>
                    Contains(events, x) \/ x = Ev("DATA_TASK_COMPLETE", k0)
      BY <1>t, <2>1, EventPosted DEF EventTypes
    <3> HIDE DEF q
    <3>2. CASE events' = q
      BY <3>1, <3>2
    <3>3. CASE events' = events
      BY <1>t, <3>3
    <3> QED
      BY <2>2, <3>2, <3>3 DEF q
  <2>4. \A k : /\ Announced(k)' <=> Announced(k)
               /\ Arrived(k)' => Arrived(k)
               /\ Passed(k)' => Passed(k)
    BY <2>1, <2>2, <2>3, EvSame DEF Announced, Arrived, Passed
  <2> QED
    BY <1>t, <2>1, <2>2, <2>3, <2>4, Behind
<1>3. CASE InsertDataObject
  <2> DEFINE k0 == Head(inserting)
  <2>1. /\ k0 \in CopyNames /\ inserting' \in Seq(CopyNames)
        /\ \A x : Contains(inserting, x) <=> Contains(inserting', x) \/ x = k0
    BY <1>3, <1>t, Taken DEF InsertDataObject
  <2>2. /\ UNCHANGED <<snd, rcv, netVars, outcome, bf, localBF, events,
                       signing, hashing, received>>
        /\ duplicate \subseteq duplicate' /\ stored' \subseteq stored \cup {k0}
        /\ duplicate' \subseteq duplicate \cup {k0}
    BY <1>3 DEF InsertDataObject
  <2> HIDE DEF k0
  <2>3. \A k : /\ Announced(k)' <=> Announced(k)
               /\ Arrived(k)' => Arrived(k)
               /\ Passed(k)' => Passed(k)
    BY <2>1, <2>2 DEF Announced, Arrived, Passed
  <2>4. duplicate' \subseteq CopyNames /\ stored' \subseteq CopyNames
    BY <1>t, <2>1, <2>2
  <2> QED
    BY <1>t, <2>1, <2>2, <2>3, <2>4, Behind
<1> QED
  BY <1>1, <1>2, <1>3

-----------------------------------------------------------------------------
(***************************************************************************)
(* Every step keeps types and the invariant of the copies                   *)
(***************************************************************************)
LEMMA IncomingTypes ==
    ASSUME Types, CopyInv, NEW k0, onIncomingDataObject(k0)
    PROVE  Types' /\ k0 \in CopyNames
<1>1. k0 \in CopyNames /\ Tail(events) \in Seq(EventSet)
  BY EventTaken DEF onIncomingDataObject
<1>2. k0.obj \in DataObjects
  BY <1>1 DEF CopyNames
<1>3. /\ UNCHANGED <<snd, rcv, netVars, outcome, signing, hashing, inserting,
                     stored, received>>
      /\ events' = Tail(events)
  BY DEF onIncomingDataObject, NothingPosted
<1>4. /\ bf' \subseteq DataObjects /\ localBF' \subseteq DataObjects
      /\ duplicate' \subseteq CopyNames
  BY <1>1, <1>2 DEF onIncomingDataObject, Types, NodeTypes
<1>5. NetTypes'
  BY <1>3 DEF Types, NetTypes, netVars, tally
<1>6. NodeTypes'
  BY <1>1, <1>3, <1>4 DEF Types, NodeTypes
<1> QED
  BY <1>1, <1>5, <1>6 DEF Types

LEMMA SenderQuiet ==
    ASSUME Types, NEW c \in Connections, Connect(c) \/ Sender(c)
    PROVE  Quiet
<1>1. UNCHANGED nodeVars /\ UNCHANGED copies
  BY SenderTypes
<1>2. CASE Connect(c)
  <2> DEFINE fresh == [ClosedReceiver EXCEPT !.pc = "idle"]
  <2>1. rcv' = [rcv EXCEPT ![c] = fresh]
    BY <1>2 DEF Connect
  <2>2. rcv \in [Connections -> ReceiverEnds]
    BY DEF Types, NetTypes
  <2>3. fresh.pc = "idle" /\ fresh.nr = 0
    BY DEF ClosedReceiver
  <2>4. /\ rcv'[c] = fresh
        /\ \A e \in Connections \ {c} : rcv'[e] = rcv[e]
    BY <2>1, <2>2
  <2>5. rcv'[c].pc = "idle" /\ rcv'[c].nr = 0
    BY <2>3, <2>4
  <2> QED
    BY <1>1, <2>4, <2>5 DEF Quiet
<1>3. CASE Sender(c)
  <2>1. rcv' = rcv
    BY <1>3 DEF Sender, TakeObject, SendHeader, ReceiveAnswer, SendBody,
       ReceiveAck, SendBroken, SendError, SenderLeaves
  <2> QED
    BY <1>1, <2>1 DEF Quiet
<1> QED
  BY <1>2, <1>3

LEMMA CopiesNext ==
    ASSUME Types, CopyInv, [Next]_vars
    PROVE  Types' /\ CopyInv'
<1>1. CASE \E c \in Connections : Connect(c) \/ Sender(c) \/ ReceiverStep(c)
  <2>1. PICK c \in Connections : Connect(c) \/ Sender(c) \/ ReceiverStep(c)
    BY <1>1
  <2>2. CASE Connect(c) \/ Sender(c)
    BY <2>2, SenderTypes, SenderQuiet, QuietCopies
  <2>3. CASE AddToFilter(c)
    BY <2>3, AddToFilterStep, AddToFilterCopies
  <2>4. CASE SendAccept(c)
    BY <2>4, SendAcceptCopies
  <2>5. CASE SendAck(c)
    BY <2>5, SendAckCopies
  <2>6. CASE \/ ReceiveHeader(c) \/ ReceiveJunk(c) \/ CheckFilter(c)
             \/ SendReject(c) \/ ReceiveBody(c) \/ ReceiveBroken(c)
             \/ ReceiveError(c)
    BY <2>6, QuietSteps, QuietCopies
  <2> QED
    BY <2>1, <2>2, <2>3, <2>4, <2>5, <2>6 DEF ReceiverStep
<1>2. CASE Kernel
  <2>1. PICK k : \/ onIncomingDataObject(k) \/ onReceivedDataObject(k)
                 \/ onSecurityTaskComplete(k) \/ onVerifiedDataObject(k)
                 \/ onDataTaskComplete(k)
    BY <1>2 DEF Kernel
  <2>2. CASE onIncomingDataObject(k)
    BY <2>2, IncomingTypes, IncomingCopies
  <2>3. CASE onReceivedDataObject(k)
    BY <2>3, ReceivedStep, PipelineCopies
  <2>4. CASE \/ onSecurityTaskComplete(k) \/ onVerifiedDataObject(k)
             \/ onDataTaskComplete(k)
    BY <2>4, HandlerSteps, PipelineCopies
  <2> QED
    BY <2>1, <2>2, <2>3, <2>4
<1>3. CASE SecurityHelper \/ DataHelper \/ InsertDataObject
  BY <1>3, WorkerSteps, PipelineCopies
<1>4. CASE UNCHANGED vars
  <2>1. UNCHANGED <<snd, rcv, fwd, back, outcome, sends, copies, bf, localBF,
                    duplicate, events, signing, hashing, inserting, stored,
                    received>>
    BY <1>4 DEF vars, netVars, tally, nodeVars, kernelVars
  <2>2. Types'
    BY <2>1 DEF Types, NetTypes, NodeTypes
  <2>3. Quiet
    BY <2>1 DEF Quiet, nodeVars, kernelVars
  <2> QED
    BY <2>2, <2>3, QuietCopies
<1> QED
  BY <1>1, <1>2, <1>3, <1>4 DEF Next

LEMMA CopiesInvariant == Spec => [](Types /\ CopyInv)
<1>1. Init => Types /\ CopyInv
  BY InitTypes, InitCopies
<1>2. Types /\ CopyInv /\ [Next]_vars => (Types /\ CopyInv)'
  BY CopiesNext
<1> QED
  BY <1>1, <1>2, PTL DEF Spec

(* A copy that passed the duplicate test is a winner.                       *)
LEMMA PassedWins ==
    ASSUME CopyInv, NEW k \in CopyNames, Passed(k)
    PROVE  Winner(k)
BY DEF CopyInv, PassedInv, Winner

(***************************************************************************)
(* However many neighbours send a data object over however many             *)
(* connections, with whatever errors and timeouts in between, one copy of   *)
(* it at most passes SecurityManager::onReceivedDataObject(): the events of *)
(* a copy are handled in the order in which receiveDataObject() posts them, *)
(* so DataManager::onIncomingDataObject() has marked all the others.        *)
(***************************************************************************)
THEOREM OneCopy == Spec => []OneCopyAccepted
<1>1. ASSUME Types, CopyInv
      PROVE  OneCopyAccepted
  <2> SUFFICES ASSUME NEW k \in Copies, NEW l \in Copies, k.obj = l.obj,
                      Accepted(k), Accepted(l)
               PROVE  k = l
    BY DEF OneCopyAccepted
  <2>1. k \in CopyNames /\ l \in CopyNames
    BY DEF Copies, CopyNames
  <2>2. Passed(k) /\ Passed(l)
    BY <1>1, AcceptedIsPassed
  <2>3. Winner(k) /\ Winner(l)
    BY <1>1, <2>1, <2>2, PassedWins
  <2> QED
    BY <1>1, <2>1, <2>3 DEF CopyInv, OneWinner
<1> QED
  BY <1>1, CopiesInvariant, PTL

(***************************************************************************)
(* What the data store holds is in the filter that offers are tested        *)
(* against, although the protocol threads add to that filter while the data *)
(* manager replaces it by a copy of its own.                                *)
(***************************************************************************)
THEOREM StoredKnown == Spec => []StoredIsKnown
<1>1. ASSUME Types, CopyInv
      PROVE  StoredIsKnown
  <2>1. ASSUME NEW k \in stored
        PROVE  k.obj \in localBF
    <3>1. k \in CopyNames /\ Passed(k)
      BY <1>1 DEF Types, NodeTypes, Passed
    <3> QED
      BY <1>1, <3>1, PassedWins DEF CopyInv, WinnerKnown
  <2> QED
    BY <1>1, <2>1 DEF StoredIsKnown, CopyInv
<1> QED
  BY <1>1, CopiesInvariant, PTL

-----------------------------------------------------------------------------
(***************************************************************************)
(* The two ends of a connection keep in step                                *)
(*                                                                          *)
(* Until a send is given up half way on it, a connection is in one of these *)
(* phases.  An error in the middle of a send disturbs it for the rest of    *)
(* its life; the next connection is made afresh.                            *)
(***************************************************************************)
Data(d) == [kind |-> "data", obj |-> d]
Header(d) == [kind |-> "header", obj |-> d]

(* The queue holds just this.                                               *)
Just(q, x) == q # <<>> /\ Tail(q) = <<>> /\ Head(q) = x
JustType(q, type) == q # <<>> /\ Tail(q) = <<>> /\ Head(q).type = type
AllData(q, d) == \A x : Contains(q, x) => x = Data(d)

Gone(c) == rcv[c].pc \in {"idle", "closed"}
Quit(c) == rcv[c].pc \in {"idle", "junk", "closed"}
Got(c, d) == \E k \in received : k.conn = c /\ k.obj = d

(* The receiver has the data object's first pieces, the rest is on its way  *)
(* or still to be written.                                                  *)
InSync(c, left) ==
    /\ rcv[c].obj = snd[c].obj /\ rcv[c].intact = TRUE
    /\ rcv[c].left = left + Len(fwd[c])
    /\ rcv[c].pc = IF rcv[c].left = 0 THEN "ack" ELSE "body"

(* No send is under way; the neighbour has left; the header is on its way;  *)
(* the receiver decides; it gave up or could not answer; REJECT is on its   *)
(* way; ACCEPT is on its way; the whole empty body is acknowledged already; *)
(* the body is written, while the receiver reads it or has given up; the    *)
(* ACK is on its way.                                                       *)
Resting(c) ==
    /\ snd[c].pc \in {"idle", "header"}
    /\ back[c] = <<>> /\ fwd[c] = <<>> /\ Gone(c)
Away(c) == snd[c].pc = "closed" /\ back[c] = <<>>
Offered(c) ==
    /\ snd[c].pc = "answer" /\ back[c] = <<>>
    /\ Just(fwd[c], Header(snd[c].obj)) /\ rcv[c].pc = "idle"
Deciding(c) ==
    /\ snd[c].pc = "answer" /\ back[c] = <<>> /\ fwd[c] = <<>>
    /\ rcv[c].pc \in {"check", "reject", "add", "accept"}
    /\ rcv[c].obj = snd[c].obj
Unanswered(c) ==
    /\ snd[c].pc = "answer" /\ back[c] = <<>> /\ fwd[c] = <<>> /\ Gone(c)
Refused(c) ==
    /\ snd[c].pc = "answer" /\ JustType(back[c], "REJECT")
    /\ fwd[c] = <<>> /\ Gone(c)
Granted(c) ==
    /\ snd[c].pc = "answer" /\ JustType(back[c], "ACCEPT")
    /\ fwd[c] = <<>>
    /\ Gone(c) \/ InSync(c, BodyLen(snd[c].obj))
AllAtOnce(c) ==
    /\ snd[c].pc = "answer" /\ back[c] # <<>>
    /\ Head(back[c]).type = "ACCEPT" /\ JustType(Tail(back[c]), "ACK")
    /\ fwd[c] = <<>> /\ Gone(c)
    /\ BodyLen(snd[c].obj) = 0 /\ Got(c, snd[c].obj)
Streaming(c) ==
    /\ snd[c].pc = IF snd[c].left = 0 THEN "ack" ELSE "body"
    /\ back[c] = <<>> /\ AllData(fwd[c], snd[c].obj)
    /\ Quit(c) \/ InSync(c, snd[c].left)
Confirmed(c) ==
    /\ snd[c].pc = "ack" /\ JustType(back[c], "ACK")
    /\ fwd[c] = <<>> /\ Gone(c) /\ Got(c, snd[c].obj)

Phase(c) ==
    \/ Resting(c) \/ Away(c) \/ Offered(c) \/ Deciding(c) \/ Unanswered(c)
    \/ Refused(c) \/ Granted(c) \/ AllAtOnce(c) \/ Streaming(c)
    \/ Confirmed(c)

(* A closed receiver has no input left, and no copy is spoilt yet when its  *)
(* body has not begun.                                                      *)
Clean(c) ==
    /\ rcv[c].pc \notin {"body", "ack"} => rcv[c].intact = TRUE
    /\ rcv[c].pc = "closed" => fwd[c] = <<>>

LinkInv ==
    \A c \in Connections : c \in disturbed \/ (Phase(c) /\ Clean(c))

-----------------------------------------------------------------------------
(* Queues of one or two elements.                                           *)
LEMMA FirstAdded ==
    ASSUME NEW x
    PROVE  /\ Append(<<>>, x) # <<>> /\ Tail(Append(<<>>, x)) = <<>>
           /\ Head(Append(<<>>, x)) = x
OBVIOUS

LEMMA TailFacts ==
    ASSUME NEW S, NEW q \in Seq(S), q # <<>>
    PROVE  /\ Len(q) \in Nat /\ Len(q) > 0 /\ Len(Tail(q)) = Len(q) - 1
           /\ Tail(q) \in Seq(S) /\ Head(q) = q[1]
           /\ \A i \in 1..(Len(q) - 1) : Tail(q)[i] = q[i + 1]
OBVIOUS

LEMMA EmptyLen ==
    ASSUME NEW S, NEW q \in Seq(S)
    PROVE  Len(q) = 0 <=> q = <<>>
OBVIOUS

LEMMA SecondAdded ==
    ASSUME NEW S, NEW q \in Seq(S), NEW x \in S, q # <<>>, Tail(q) = <<>>
    PROVE  /\ Append(q, x) # <<>> /\ Head(Append(q, x)) = Head(q)
           /\ Tail(Append(q, x)) # <<>> /\ Tail(Tail(Append(q, x))) = <<>>
           /\ Head(Tail(Append(q, x))) = x
<1>1. Len(q) = 1 /\ Head(q) = q[1]
  <2>1. Len(Tail(q)) = 0
    BY EmptyLen, TailFacts
  <2> QED
    BY <2>1, TailFacts
<1> DEFINE a == Append(q, x)
<1>2. a \in Seq(S) /\ Len(a) = 2 /\ a[1] = q[1] /\ a[2] = x
  <2>1. /\ a \in Seq(S) /\ Len(a) = Len(q) + 1 /\ a[Len(q) + 1] = x
        /\ \A i \in 1..Len(q) : a[i] = q[i]
    OBVIOUS
  <2> QED
    BY <1>1, <2>1
<1> HIDE DEF a
<1>3. Len(a) # 0
  BY <1>2
<1>4. a # <<>>
  BY <1>2, <1>3, EmptyLen
<1>5. /\ Head(a) = a[1] /\ Tail(a) \in Seq(S)
      /\ Len(Tail(a)) = 1 /\ Tail(a)[1] = a[2]
  <2>1. /\ Len(Tail(a)) = Len(a) - 1 /\ Tail(a) \in Seq(S) /\ Head(a) = a[1]
        /\ \A i \in 1..(Len(a) - 1) : Tail(a)[i] = a[i + 1]
    BY <1>2, <1>4, TailFacts
  <2>2. 1 \in 1..(Len(a) - 1) /\ Len(a) - 1 = 1 /\ 1 + 1 = 2
    BY <1>2
  <2>3. Tail(a)[1] = a[1 + 1]
    BY <2>1, <2>2
  <2> QED
    BY <2>1, <2>2, <2>3
<1>6. /\ Tail(a) # <<>> /\ Head(Tail(a)) = Tail(a)[1]
      /\ Tail(Tail(a)) \in Seq(S) /\ Len(Tail(Tail(a))) = 0
  <2>1. Len(Tail(a)) # 0
    BY <1>5
  <2>2. Tail(a) # <<>>
    BY <1>5, <2>1, EmptyLen
  <2>3. /\ Len(Tail(Tail(a))) = Len(Tail(a)) - 1
        /\ Tail(Tail(a)) \in Seq(S) /\ Head(Tail(a)) = Tail(a)[1]
    BY <1>5, <2>2, TailFacts
  <2> QED
    BY <1>5, <2>2, <2>3
<1>7. Tail(Tail(a)) = <<>>
  BY <1>6, EmptyLen
<1> QED
  BY <1>1, <1>2, <1>4, <1>5, <1>6, <1>7 DEF a

LEMMA EmptyContains ==
    ASSUME NEW x
    PROVE  ~Contains(<<>>, x)
BY DEF Contains

(* What is received stays received.                                         *)
LEMMA GotStays ==
    ASSUME received \subseteq received', NEW c, NEW d, Got(c, d)
    PROVE  Got(c, d)'
BY DEF Got

(* A connection that a step does not touch.                                 *)
LEMMA Untouched ==
    ASSUME NEW e \in Connections, Phase(e), Clean(e),
           snd'[e] = snd[e], rcv'[e] = rcv[e], fwd'[e] = fwd[e],
           back'[e] = back[e], received \subseteq received'
    PROVE  Phase(e)' /\ Clean(e)'
<1>1. Clean(e)'
  BY DEF Clean
<1>2. Got(e, snd[e].obj) => Got(e, snd[e].obj)'
  BY DEF Got
<1>3. Phase(e)'
  <2>1. /\ Resting(e) => Resting(e)'
        /\ Away(e) => Away(e)'
        /\ Offered(e) => Offered(e)'
        /\ Deciding(e) => Deciding(e)'
        /\ Unanswered(e) => Unanswered(e)'
        /\ Refused(e) => Refused(e)'
    BY DEF Resting, Away, Offered, Deciding, Unanswered, Refused, Gone
  <2>2. /\ Granted(e) => Granted(e)'
        /\ Streaming(e) => Streaming(e)'
    BY DEF Granted, Streaming, Gone, Quit, InSync
  <2>3. /\ AllAtOnce(e) => AllAtOnce(e)'
        /\ Confirmed(e) => Confirmed(e)'
    BY <1>2 DEF AllAtOnce, Confirmed, Gone
  <2> QED
    BY <2>1, <2>2, <2>3 DEF Phase
<1> QED
  BY <1>1, <1>3

-----------------------------------------------------------------------------
(***************************************************************************)
(* Steps of the sender                                                      *)
(***************************************************************************)

(* The end of a send.                                                       *)
LEMMA ResultAt ==
    ASSUME Types, NEW c \in Connections, NEW result, NEW pc,
           SendResult(c, result, pc)
    PROVE  /\ snd'[c].pc = pc
           /\ \A e \in Connections \ {c} : snd'[e] = snd[e]
<1>1. snd' = [snd EXCEPT ![c] = [ClosedEnd EXCEPT !.pc = pc]]
  BY DEF SendResult
<1>2. [ClosedEnd EXCEPT !.pc = pc].pc = pc
  BY DEF ClosedEnd
<1> QED
  BY <1>1, <1>2 DEF Types, NetTypes

LEMMA ConnectLink ==
    ASSUME Types, NEW c \in Connections, Connect(c)
    PROVE  Phase(c)' /\ Clean(c)'
<1>1. /\ [ClosedEnd EXCEPT !.pc = "idle"].pc = "idle"
      /\ [ClosedReceiver EXCEPT !.pc = "idle"].pc = "idle"
      /\ [ClosedReceiver EXCEPT !.pc = "idle"].intact = TRUE
  BY DEF ClosedEnd, ClosedReceiver
<1>2. /\ snd'[c].pc = "idle" /\ rcv'[c].pc = "idle"
      /\ rcv'[c].intact = TRUE
      /\ fwd'[c] = <<>> /\ back'[c] = <<>>
  BY <1>1 DEF Connect, Types, NetTypes
<1>3. Resting(c)'
  BY <1>2 DEF Resting, Gone
<1>4. Clean(c)'
  BY <1>2 DEF Clean
<1> QED
  BY <1>3, <1>4 DEF Phase

(* The steps that end a send, or come before it.                            *)
LEMMA EndLink ==
    ASSUME Types, NEW c \in Connections, Phase(c), Clean(c),
           \/ TakeObject(c) \/ SendBroken(c) \/ SenderLeaves(c)
           \/ SendError(c) /\ c \notin disturbed'
    PROVE  Phase(c)' /\ Clean(c)'
<1>1. UNCHANGED <<rcv, fwd>>
  BY DEF TakeObject, SendBroken, SendError, SenderLeaves
<1>2. Clean(c)'
  BY <1>1 DEF Clean
<1>3. CASE SendBroken(c) \/ SenderLeaves(c)
  <2>1. snd'[c].pc = "closed"
    <3>1. CASE SendBroken(c)
      BY <3>1, ResultAt DEF SendBroken
    <3>2. CASE SenderLeaves(c)
      <4>1. snd[c] \in SenderRecords
        BY DEF Types, NetTypes, SenderEnds
      <4>2. [snd[c] EXCEPT !.pc = "closed"].pc = "closed"
        BY <4>1 DEF SenderRecords
      <4> QED
        BY <3>2, <4>2 DEF SenderLeaves, Types, NetTypes
    <3> QED
      BY <1>3, <3>1, <3>2
  <2>2. back'[c] = <<>>
    BY <1>3 DEF SendBroken, SenderLeaves, Types, NetTypes
  <2> QED
    BY <1>2, <2>1, <2>2 DEF Phase, Away
<1>4. CASE TakeObject(c) \/ (SendError(c) /\ c \notin disturbed')
  <2>1. snd[c].pc \in {"idle", "header"} /\ back' = back
    BY <1>4 DEF TakeObject, SendError
  <2>2. Resting(c)
    BY <2>1 DEF Phase, Resting, Away, Offered, Deciding, Unanswered, Refused,
       Granted, AllAtOnce, Streaming, Confirmed
  <2>3. snd'[c].pc \in {"idle", "header"}
    <3>1. CASE TakeObject(c)
      <4>1. PICK d \in DataObjects : snd' =
              [snd EXCEPT ![c] = [pc |-> "header", obj |-> d, left |-> 0]]
        BY <3>1 DEF TakeObject
      <4> QED
        BY <4>1 DEF Types, NetTypes
    <3>2. CASE SendError(c)
      BY <3>2, ResultAt DEF SendError
    <3> QED
      BY <1>4, <3>1, <3>2
  <2>4. Resting(c)'
    BY <1>1, <2>1, <2>2, <2>3 DEF Resting, Gone
  <2> QED
    BY <1>2, <2>4 DEF Phase
<1> QED
  BY <1>3, <1>4

LEMMA SendHeaderLink ==
    ASSUME Types, NEW c \in Connections, Phase(c), Clean(c), SendHeader(c)
    PROVE  Phase(c)' /\ Clean(c)'
<1>1. /\ snd[c].pc = "header" /\ UNCHANGED <<rcv, back>>
      /\ snd' = [snd EXCEPT ![c].pc = "answer"]
      /\ fwd' = IF rcv[c].pc = "closed" THEN fwd
                ELSE [fwd EXCEPT ![c] = Append(@, Header(snd[c].obj))]
  BY DEF SendHeader, Write, Header
<1>2. Resting(c)
  BY <1>1 DEF Phase, Resting, Away, Offered, Deciding, Unanswered, Refused,
     Granted, AllAtOnce, Streaming, Confirmed
<1>3. snd[c] \in SenderRecords
  BY DEF Types, NetTypes, SenderEnds
<1>4. /\ [snd[c] EXCEPT !.pc = "answer"].pc = "answer"
      /\ [snd[c] EXCEPT !.pc = "answer"].obj = snd[c].obj
  BY <1>3 DEF SenderRecords
<1>5. snd'[c].pc = "answer" /\ snd'[c].obj = snd[c].obj
  BY <1>1, <1>4 DEF Types, NetTypes
<1>6. CASE rcv[c].pc = "closed"
  <2>1. Unanswered(c)'
    BY <1>1, <1>2, <1>5, <1>6 DEF Resting, Unanswered, Gone
  <2> QED
    BY <1>1, <1>6, <2>1 DEF Phase, Clean
<1>7. CASE rcv[c].pc = "idle"
  <2>1. fwd'[c] = Append(<<>>, Header(snd[c].obj))
    BY <1>1, <1>2, <1>7 DEF Resting, Types, NetTypes
  <2>2. Offered(c)'
    BY <1>1, <1>2, <1>5, <1>7, <2>1, FirstAdded DEF Resting, Offered, Just
  <2> QED
    BY <1>1, <1>7, <2>2 DEF Phase, Clean
<1> QED
  BY <1>2, <1>6, <1>7 DEF Resting, Gone

(* The answer: what it is about is what was offered.                        *)
LEMMA AnswerLink ==
    ASSUME Types, NEW c \in Connections, Phase(c), Clean(c), ReceiveAnswer(c)
    PROVE  Phase(c)' /\ Clean(c)'
<1> USE TransferConstants
<1>1. /\ snd[c].pc = "answer" /\ back[c] # <<>> /\ UNCHANGED <<rcv, fwd>>
      /\ received' = received
      /\ back'[c] = Tail(back[c])
  BY DEF ReceiveAnswer, Types, NetTypes, nodeVars
<1>2. Clean(c)'
  BY <1>1 DEF Clean
<1>3. Refused(c) \/ Granted(c) \/ AllAtOnce(c)
  BY <1>1 DEF Phase, Resting, Away, Offered, Deciding, Unanswered, Refused,
     Granted, AllAtOnce, Streaming, Confirmed
<1>4. CASE Refused(c)
  <2>1. SendResult(c, "rejected", "idle")
    BY <1>4 DEF ReceiveAnswer, Refused, JustType
  <2>2. snd'[c].pc = "idle"
    BY <2>1, ResultAt
  <2>3. Resting(c)'
    BY <1>1, <1>4, <2>2 DEF Refused, JustType, Resting, Gone
  <2> QED
    BY <1>2, <2>3 DEF Phase
<1>5. CASE Granted(c) \/ AllAtOnce(c)
  <2> DEFINE s == snd[c]
             len == BodyLen(s.obj)
             pc == IF len = 0 THEN "ack" ELSE "body"
             t == [s EXCEPT !.pc = pc, !.left = len]
  <2>1. snd' = [snd EXCEPT ![c].pc = pc, ![c].left = len]
    BY <1>5 DEF ReceiveAnswer, Granted, AllAtOnce, JustType, AfterAccept
  <2>2. len \in Nat
    BY DEF BodyLen
  <2>3. s \in SenderRecords
    BY DEF Types, NetTypes, SenderEnds
  <2>4. snd'[c] = t
    BY <2>1 DEF Types, NetTypes
  <2>5. /\ t.pc = pc /\ t.left = len /\ t.obj = s.obj
    <3> HIDE DEF pc, len
    <3> QED
      BY <2>3 DEF SenderRecords
  <2> HIDE DEF t, len
  <2>6. CASE Granted(c)
    <3>1. AllData(fwd'[c], snd'[c].obj)
      BY <1>1, <2>6, EmptyContains DEF AllData, Granted
    <3>2. back'[c] = <<>>
      BY <1>1, <2>6 DEF Granted, JustType
    <3>3. Gone(c)' \/ InSync(c, snd[c].left)'
      <4>1. CASE Gone(c)
        BY <1>1, <4>1 DEF Gone
      <4>2. CASE InSync(c, len)
        BY <1>1, <2>4, <2>5, <4>2 DEF InSync
      <4> QED
        BY <2>6, <4>1, <4>2 DEF Granted, len
    <3>4. Streaming(c)'
      BY <2>4, <2>5, <3>1, <3>2, <3>3 DEF Streaming, Gone, Quit
    <3> QED
      BY <1>2, <3>4 DEF Phase
  <2>7. CASE AllAtOnce(c)
    <3>1. len = 0
      BY <2>7 DEF AllAtOnce, len
    <3>2. Got(c, snd[c].obj)'
      BY <1>1, <2>4, <2>5, <2>7 DEF AllAtOnce, Got
    <3>3. Confirmed(c)'
      BY <1>1, <2>4, <2>5, <2>7, <3>1, <3>2 DEF AllAtOnce, Confirmed, Gone
    <3> QED
      BY <1>2, <3>3 DEF Phase
  <2> QED
    BY <1>5, <2>6, <2>7
<1> QED
  BY <1>3, <1>4, <1>5

LEMMA SendBodyLink ==
    ASSUME Types, NEW c \in Connections, Phase(c), Clean(c), SendBody(c)
    PROVE  Phase(c)' /\ Clean(c)'
<1> USE TransferConstants
<1> DEFINE s == snd[c]
           pc == IF s.left = 1 THEN "ack" ELSE "body"
           left == s.left - 1
           t == [s EXCEPT !.left = left, !.pc = pc]
           f == fwd[c]
<1>1. /\ s.pc = "body" /\ UNCHANGED <<rcv, back>>
      /\ snd' = [snd EXCEPT ![c].left = left, ![c].pc = pc]
      /\ fwd' = IF rcv[c].pc = "closed" THEN fwd
                ELSE [fwd EXCEPT ![c] = Append(@, Data(s.obj))]
  BY DEF SendBody, Write, Data
<1>2. s \in SenderRecords /\ s.left \in 1..Chunks /\ s.obj \in DataObjects
      /\ f \in Seq(Items) /\ rcv[c].left \in Nat
  BY <1>1 DEF Types, NetTypes, SenderEnds, SenderRecords, ReceiverEnds,
     ReceiverRecords, Lefts, SendStages
<1>3. Streaming(c)
  BY <1>1 DEF Phase, Resting, Away, Offered, Deciding, Unanswered, Refused,
     Granted, AllAtOnce, Streaming, Confirmed
<1>4. snd'[c] = t
  BY <1>1 DEF Types, NetTypes
<1>5. t.pc = pc /\ t.left = left /\ t.obj = s.obj
  <2> HIDE DEF pc, left
  <2> QED
    BY <1>2 DEF SenderRecords
<1>6. pc = (IF left = 0 THEN "ack" ELSE "body") /\ left + 1 = s.left
      /\ left \in Nat
  BY <1>2
<1> HIDE DEF t, pc, left
<1>7. CASE rcv[c].pc = "closed"
  <2>1. fwd'[c] = f
    BY <1>1, <1>7
  <2>2. Streaming(c)'
    BY <1>1, <1>3, <1>4, <1>5, <1>6, <1>7, <2>1 DEF Streaming, Quit
  <2> QED
    BY <1>1, <1>7, <2>1, <2>2 DEF Phase, Clean
<1>8. CASE rcv[c].pc # "closed"
  <2>1. fwd'[c] = Append(f, Data(s.obj)) /\ Data(s.obj) \in Items
    BY <1>1, <1>2, <1>8 DEF Types, NetTypes, Data, Items
  <2>2. Len(fwd'[c]) = Len(f) + 1 /\ Len(f) \in Nat
    BY <1>2, <2>1
  <2>3. AllData(fwd'[c], snd'[c].obj)
    BY <1>2, <1>3, <1>4, <1>5, <2>1, Added DEF AllData, Streaming
  <2>4. Quit(c)' \/ InSync(c, snd[c].left)'
    <3>1. CASE Quit(c)
      BY <1>1, <3>1 DEF Quit
    <3>2. CASE InSync(c, s.left)
      <4>1. rcv[c].left = left + (Len(f) + 1)
        BY <1>2, <1>6, <2>2, <3>2 DEF InSync
      <4> QED
        BY <1>1, <1>4, <1>5, <2>2, <3>2, <4>1 DEF InSync
    <3> QED
      BY <1>3, <3>1, <3>2 DEF Streaming
  <2>5. Streaming(c)'
    BY <1>1, <1>3, <1>4, <1>5, <1>6, <2>3, <2>4 DEF Streaming
  <2> QED
    BY <1>1, <1>8, <2>5 DEF Phase, Clean
<1> QED
  BY <1>7, <1>8

(* The ACK comes after the whole body was read.                             *)
LEMMA AckLink ==
    ASSUME Types, NEW c \in Connections, Phase(c), Clean(c), ReceiveAck(c)
    PROVE  Phase(c)' /\ Clean(c)' /\ Got(c, snd[c].obj)
<1>1. /\ snd[c].pc = "ack" /\ back[c] # <<>> /\ UNCHANGED <<rcv, fwd>>
      /\ back'[c] = Tail(back[c])
  BY DEF ReceiveAck, Types, NetTypes
<1>2. Confirmed(c)
  BY <1>1 DEF Phase, Resting, Away, Offered, Deciding, Unanswered, Refused,
     Granted, AllAtOnce, Streaming, Confirmed
<1>3. snd'[c].pc = "idle"
  BY ResultAt DEF ReceiveAck
<1>4. Resting(c)'
  BY <1>1, <1>2, <1>3 DEF Confirmed, JustType, Resting, Gone
<1> QED
  BY <1>1, <1>2, <1>4 DEF Phase, Clean, Confirmed

-----------------------------------------------------------------------------
(***************************************************************************)
(* Steps of the receiver                                                    *)
(***************************************************************************)

Over(r) == r.pc \in {"idle", "closed"} /\ r.intact = TRUE
LastInput(c, input) ==
    \/ input = fwd[c] /\ rcv[c].pc # "idle"
    \/ input = <<>>
    \/ input = Tail(fwd[c]) /\ fwd[c] # <<>> /\ rcv[c].pc = "junk"

LEMMA OverAfterwards ==
    ASSUME NEW r \in ReceiverEnds
    PROVE  Over(Idle(r, 0)) /\ Over(AfterError(r)) /\ Over(ReceiverClosed(r))
<1>1. /\ Idle(r, 0).pc = "idle" /\ AfterError(r).pc \in {"idle", "closed"}
      /\ ReceiverClosed(r).pc = "closed"
      /\ Idle(r, 0).intact = TRUE /\ AfterError(r).intact = TRUE
      /\ ReceiverClosed(r).intact = TRUE
  BY Afresh
<1> QED
  BY <1>1 DEF Over

(* The receiver leaves receiveDataObject() before the body is complete, or  *)
(* after a REJECT, without an answer.                                       *)
LEMMA QuitLink ==
    ASSUME Types, NEW c \in Connections, Phase(c), Clean(c),
           NEW r, Over(r), NEW input, LastInput(c, input),
           Receiver(c, r, input), UNCHANGED <<snd, back, received>>
    PROVE  Phase(c)' /\ Clean(c)'
<1>1. rcv'[c] = r /\ fwd'[c] = (IF r.pc = "closed" THEN <<>> ELSE input)
  BY ReceiverAt
<1>2. fwd[c] \in Seq(Items)
  BY DEF Types, NetTypes
<1>3. Clean(c)'
  BY <1>1 DEF Clean, Over
<1>4. Gone(c)' /\ Quit(c)'
  BY <1>1 DEF Gone, Quit, Over
<1>5. Away(c) => Away(c)'
  BY DEF Away
<1>6. fwd[c] = <<>> => fwd'[c] = <<>>
  BY <1>1 DEF LastInput
<1>7. /\ Resting(c) => Resting(c)'
      /\ Deciding(c) \/ Unanswered(c) => Unanswered(c)'
      /\ Refused(c) => Refused(c)'
      /\ Granted(c) => Granted(c)'
  BY <1>4, <1>6 DEF Resting, Deciding, Unanswered, Refused, Granted
<1>8. Got(c, snd[c].obj) => Got(c, snd[c].obj)'
  BY DEF Got
<1>9. /\ AllAtOnce(c) => AllAtOnce(c)'
      /\ Confirmed(c) => Confirmed(c)'
  BY <1>4, <1>6, <1>8 DEF AllAtOnce, Confirmed
<1>10. Offered(c) => Unanswered(c)'
  <2> SUFFICES ASSUME Offered(c)
               PROVE  Unanswered(c)'
    OBVIOUS
  <2>1. fwd'[c] = <<>>
    BY <1>1 DEF Offered, Just, LastInput
  <2> QED
    BY <1>4, <2>1 DEF Offered, Unanswered
<1>11. Streaming(c) => Streaming(c)'
  <2> SUFFICES ASSUME Streaming(c)
               PROVE  Streaming(c)'
    OBVIOUS
  <2>1. \A x : Contains(fwd'[c], x) => Contains(fwd[c], x)
    <3>1. fwd[c] # <<>> =>
             \A x : Contains(Tail(fwd[c]), x) => Contains(fwd[c], x)
      BY <1>2, Taken
    <3> QED
      BY <1>1, <3>1, EmptyContains DEF LastInput
  <2> QED
    BY <1>4, <2>1 DEF Streaming, AllData
<1> QED
  BY <1>3, <1>5, <1>7, <1>9, <1>10, <1>11 DEF Phase

LEMMA ReceiveHeaderLink ==
    ASSUME Types, NEW c \in Connections, Phase(c), Clean(c), ReceiveHeader(c)
    PROVE  Phase(c)' /\ Clean(c)'
<1> DEFINE r == rcv[c]
           s == [r EXCEPT !.pc = "check", !.obj = Head(fwd[c]).obj]
<1>1. /\ r.pc = "idle" /\ fwd[c] # <<>> /\ Head(fwd[c]).kind = "header"
      /\ Receiver(c, s, Tail(fwd[c])) /\ UNCHANGED <<snd, back>>
  BY DEF ReceiveHeader
<1>2. r \in ReceiverRecords /\ fwd[c] \in Seq(Items)
  BY DEF Types, NetTypes, ReceiverEnds
<1>3. /\ s.pc = "check" /\ s.obj = Head(fwd[c]).obj /\ s.intact = r.intact
  BY <1>2 DEF ReceiverRecords
<1> HIDE DEF s
<1>4. rcv'[c] = s /\ fwd'[c] = Tail(fwd[c])
  BY <1>1, <1>3, ReceiverAt
<1>5. Clean(c)'
  BY <1>1, <1>3, <1>4 DEF Clean
<1>6. ~Streaming(c)
  <2>1. Contains(fwd[c], Head(fwd[c]))
    BY <1>1, <1>2, Taken
  <2> QED
    BY <1>1, <2>1 DEF Streaming, AllData, Data
<1>7. Away(c) \/ Offered(c)
  BY <1>1, <1>6 DEF Phase, Resting, Deciding, Unanswered, Refused, Granted,
     AllAtOnce, Confirmed
<1>8. CASE Away(c)
  BY <1>1, <1>5, <1>8 DEF Away, Phase
<1>9. CASE Offered(c)
  <2>1. Head(fwd[c]).obj = snd[c].obj
    BY <1>9 DEF Offered, Just, Header
  <2>2. Deciding(c)'
    BY <1>1, <1>3, <1>4, <1>9, <2>1 DEF Offered, Just, Deciding
  <2> QED
    BY <1>5, <2>2 DEF Phase
<1> QED
  BY <1>7, <1>8, <1>9

LEMMA ReceiveJunkLink ==
    ASSUME Types, NEW c \in Connections, Phase(c), Clean(c), ReceiveJunk(c)
    PROVE  Phase(c)' /\ Clean(c)'
<1> DEFINE r == rcv[c]
           s == [r EXCEPT !.pc = "junk"]
<1>1. /\ r.pc \in {"idle", "junk"} /\ fwd[c] # <<>>
      /\ UNCHANGED <<snd, back, received>>
  BY DEF ReceiveJunk, nodeVars
<1>2. r \in ReceiverRecords /\ r \in ReceiverEnds /\ fwd[c] \in Seq(Items)
      /\ Tail(fwd[c]) \in Seq(Items)
  BY <1>1, HeadTail DEF Types, NetTypes, ReceiverEnds
<1>3. CASE r.pc = "junk" /\ Receiver(c, AfterError(r), Tail(fwd[c]))
  <2> DEFINE t == AfterError(r)
  <2>1. Over(t) /\ Receiver(c, t, Tail(fwd[c]))
    BY <1>2, <1>3, OverAfterwards
  <2>2. LastInput(c, Tail(fwd[c]))
    BY <1>1, <1>3 DEF LastInput
  <2> QED
    BY <1>1, <2>1, <2>2, QuitLink
<1>4. CASE Head(fwd[c]).kind = "data" /\ Receiver(c, s, Tail(fwd[c]))
  <2>1. s.pc = "junk" /\ s.intact = r.intact
    BY <1>2 DEF ReceiverRecords
  <2> HIDE DEF s
  <2>2. rcv'[c] = s /\ fwd'[c] = Tail(fwd[c])
    BY <1>4, <2>1, ReceiverAt
  <2>3. Clean(c)'
    BY <1>1, <2>1, <2>2 DEF Clean
  <2>4. ~Offered(c)
    <3>1. Header(snd[c].obj).kind = "header"
      BY DEF Header
    <3> QED
      BY <1>4, <3>1 DEF Offered, Just
  <2>5. Away(c) \/ Streaming(c)
    BY <1>1, <2>4 DEF Phase, Resting, Deciding, Unanswered, Refused,
       Granted, AllAtOnce, Confirmed
  <2>6. CASE Away(c)
    BY <1>1, <2>3, <2>6 DEF Away, Phase
  <2>7. CASE Streaming(c)
    <3>1. AllData(fwd'[c], snd[c].obj)
      BY <1>1, <1>2, <2>2, <2>7, Taken DEF Streaming, AllData
    <3>2. Quit(c)'
      BY <2>1, <2>2 DEF Quit
    <3>3. Streaming(c)'
      BY <1>1, <2>7, <3>1, <3>2 DEF Streaming
    <3> QED
      BY <2>3, <3>3 DEF Phase
  <2> QED
    BY <2>5, <2>6, <2>7
<1> QED
  BY <1>3, <1>4 DEF ReceiveJunk

(* The receiver goes on deciding.                                           *)
LEMMA DecidingLink ==
    ASSUME Types, NEW c \in Connections, Phase(c), Clean(c),
           rcv[c].pc \in {"check", "reject", "add", "accept"},
           rcv'[c].pc \in {"check", "reject", "add", "accept"},
           rcv'[c].obj = rcv[c].obj, rcv'[c].intact = rcv[c].intact,
           UNCHANGED <<snd, fwd, back>>
    PROVE  Phase(c)' /\ Clean(c)'
<1>1. Clean(c)'
  BY DEF Clean
<1>2. Away(c) \/ Deciding(c)
  BY DEF Phase, Resting, Offered, Unanswered, Refused,
     Granted, AllAtOnce, Confirmed, Streaming, Gone, Quit, InSync
<1>3. CASE Away(c)
  BY <1>1, <1>3 DEF Away, Phase
<1>4. CASE Deciding(c)
  BY <1>1, <1>4 DEF Deciding, Phase
<1> QED
  BY <1>2, <1>3, <1>4

LEMMA CheckFilterLink ==
    ASSUME Types, NEW c \in Connections, Phase(c), Clean(c), CheckFilter(c)
    PROVE  Phase(c)' /\ Clean(c)'
<1> DEFINE r == rcv[c]
           pc == IF r.obj \in bf THEN "reject" ELSE "add"
           s == [r EXCEPT !.pc = pc]
<1>1. /\ r.pc = "check" /\ rcv' = [rcv EXCEPT ![c] = s]
      /\ UNCHANGED <<snd, fwd, back>>
  BY DEF CheckFilter, netVars
<1>2. r \in ReceiverRecords
  BY DEF Types, NetTypes, ReceiverEnds
<1>3. pc \in {"reject", "add"}
  OBVIOUS
<1> HIDE DEF pc
<1>4. s.pc = pc /\ s.obj = r.obj /\ s.intact = r.intact
  BY <1>2 DEF ReceiverRecords
<1> HIDE DEF s
<1>5. rcv'[c] = s
  BY <1>1 DEF Types, NetTypes
<1> QED
  BY <1>1, <1>3, <1>4, <1>5, DecidingLink

LEMMA AddToFilterLink ==
    ASSUME Types, NEW c \in Connections, Phase(c), Clean(c), AddToFilter(c)
    PROVE  Phase(c)' /\ Clean(c)'
<1>1. /\ rcv'[c].pc = "accept" /\ rcv'[c].obj = rcv[c].obj
      /\ rcv'[c].intact = rcv[c].intact
  BY AddToFilterStep
<1>2. rcv[c].pc = "add" /\ UNCHANGED <<snd, fwd, back>>
  BY DEF AddToFilter
<1> QED
  BY <1>1, <1>2, DecidingLink

(* A message to a neighbour that waits for the first answer.                *)
LEMMA FirstAnswer ==
    ASSUME Types, NEW c \in Connections, Deciding(c), NEW type, Answer(c, type)
    PROVE  JustType(back'[c], type)
<1> DEFINE m == [type |-> type, obj |-> rcv[c].obj]
<1>1. back'[c] = Append(<<>>, m)
  BY DEF Deciding, Answer, Types, NetTypes
<1>2. m.type = type
  OBVIOUS
<1> HIDE DEF m
<1> QED
  BY <1>1, <1>2, FirstAdded DEF JustType

LEMMA AnswerAway ==
    ASSUME NEW c \in Connections, snd[c].pc = "closed", NEW type,
           Answer(c, type)
    PROVE  back' = back
BY DEF Answer

LEMMA SendRejectLink ==
    ASSUME Types, NEW c \in Connections, Phase(c), Clean(c), SendReject(c)
    PROVE  Phase(c)' /\ Clean(c)'
<1> DEFINE r == rcv[c]
<1>1. /\ r.pc = "reject" /\ UNCHANGED <<snd, received>>
      /\ r \in ReceiverEnds /\ fwd[c] \in Seq(Items)
  BY DEF SendReject, Types, NetTypes, nodeVars
<1>2. Away(c) \/ Deciding(c)
  BY <1>1 DEF Phase, Resting, Offered, Unanswered, Refused, Granted,
     AllAtOnce, Confirmed, Streaming, Gone, Quit, InSync
<1>3. CASE \/ UNCHANGED back /\ Receiver(c, AfterError(r), fwd[c])
           \/ UNCHANGED back /\ Receiver(c, ReceiverClosed(r), fwd[c])
  <2>1. Over(AfterError(r)) /\ Over(ReceiverClosed(r))
    BY <1>1, OverAfterwards
  <2>2. LastInput(c, fwd[c])
    BY <1>1 DEF LastInput
  <2> QED
    BY <1>1, <1>3, <2>1, <2>2, QuitLink
<1>4. CASE Answer(c, "REJECT") /\ Receiver(c, Idle(r, 0), fwd[c])
  <2> DEFINE t == Idle(r, 0)
  <2>1. t.pc = "idle" /\ t.intact = TRUE
    BY <1>1, Afresh
  <2> HIDE DEF t
  <2>2. Receiver(c, t, fwd[c])
    BY <1>4 DEF t
  <2>3. CASE Away(c)
    <3>1. back' = back
      BY <1>4, <2>3, AnswerAway DEF Away
    <3>2. Over(t) /\ LastInput(c, fwd[c])
      BY <1>1, <2>1 DEF Over, LastInput
    <3> QED
      BY <1>1, <2>2, <3>1, <3>2, QuitLink
  <2>4. CASE Deciding(c)
    <3>1. JustType(back'[c], "REJECT")
      BY <1>4, <2>4, FirstAnswer
    <3>2. rcv'[c] = t /\ fwd'[c] = fwd[c]
      BY <2>1, <2>2, ReceiverAt
    <3>3. Refused(c)'
      BY <1>1, <2>1, <2>4, <3>1, <3>2 DEF Deciding, Refused, Gone
    <3>4. Clean(c)'
      BY <2>1, <3>2 DEF Clean
    <3> QED
      BY <3>3, <3>4 DEF Phase
  <2> QED
    BY <1>2, <2>3, <2>4
<1> QED
  BY <1>3, <1>4 DEF SendReject

LEMMA SendAcceptLink ==
    ASSUME Types, NEW c \in Connections, Phase(c), Clean(c), SendAccept(c)
    PROVE  Phase(c)' /\ Clean(c)'
<1> USE TransferConstants
<1> DEFINE r == rcv[c]
           len == BodyLen(r.obj)
           pc == IF len = 0 THEN "ack" ELSE "body"
           s == [r EXCEPT !.pc = pc, !.left = len]
<1>1. /\ r.pc = "accept" /\ UNCHANGED <<snd, received>>
      /\ r \in ReceiverEnds /\ r \in ReceiverRecords /\ fwd[c] \in Seq(Items)
  BY DEF SendAccept, Types, NetTypes, ReceiverEnds
<1>2. Away(c) \/ Deciding(c)
  BY <1>1 DEF Phase, Resting, Offered, Unanswered, Refused, Granted,
     AllAtOnce, Confirmed, Streaming, Gone, Quit, InSync
<1>3. \/ UNCHANGED back /\ Receiver(c, AfterError(r), fwd[c])
      \/ UNCHANGED back /\ Receiver(c, ReceiverClosed(r), fwd[c])
      \/ Answer(c, "ACCEPT") /\ Receiver(c, s, fwd[c])
  BY DEF SendAccept
<1>4. CASE \/ UNCHANGED back /\ Receiver(c, AfterError(r), fwd[c])
           \/ UNCHANGED back /\ Receiver(c, ReceiverClosed(r), fwd[c])
  <2>1. Over(AfterError(r)) /\ Over(ReceiverClosed(r))
    BY <1>1, OverAfterwards
  <2>2. LastInput(c, fwd[c])
    BY <1>1 DEF LastInput
  <2> HIDE DEF s, pc, len
  <2> QED
    BY <1>1, <1>4, <2>1, <2>2, QuitLink
<1>5. CASE Answer(c, "ACCEPT") /\ Receiver(c, s, fwd[c])
  <2>1. len \in Nat /\ pc \in {"ack", "body"}
    BY DEF BodyLen
  <2>2. s.pc = pc /\ s.left = len /\ s.obj = r.obj /\ s.intact = r.intact
    <3> HIDE DEF pc, len
    <3> QED
      BY <1>1 DEF ReceiverRecords
  <2>3. pc = IF len = 0 THEN "ack" ELSE "body"
    OBVIOUS
  <2>4. r.intact = TRUE
    BY <1>1 DEF Clean
  <2> HIDE DEF s, pc, len
  <2>5. rcv'[c] = s /\ fwd'[c] = fwd[c]
    BY <1>5, <2>1, <2>2, ReceiverAt
  <2>6. Clean(c)'
    BY <2>1, <2>2, <2>5 DEF Clean
  <2>7. CASE Away(c)
    <3>1. back' = back
      BY <1>5, <2>7, AnswerAway DEF Away
    <3> QED
      BY <1>1, <2>6, <2>7, <3>1 DEF Away, Phase
  <2>8. CASE Deciding(c)
    <3>1. JustType(back'[c], "ACCEPT")
      BY <1>5, <2>8, FirstAnswer
    <3>2. fwd'[c] = <<>> /\ Len(fwd'[c]) = 0 /\ len = len + 0
      BY <2>1, <2>5, <2>8 DEF Deciding
    <3>3. BodyLen(snd[c].obj)' = len /\ rcv'[c].obj = snd'[c].obj
      BY <1>1, <2>2, <2>5, <2>8 DEF Deciding, len, BodyLen
    <3>4. InSync(c, BodyLen(snd[c].obj))'
      BY <2>2, <2>3, <2>4, <2>5, <3>2, <3>3 DEF InSync
    <3>5. Granted(c)'
      BY <1>1, <2>8, <3>1, <3>2, <3>4 DEF Deciding, Granted
    <3> QED
      BY <2>6, <3>5 DEF Phase
  <2> QED
    BY <1>2, <2>7, <2>8
<1> QED
  BY <1>3, <1>4, <1>5

(* A piece of the body: in step, it is the next piece of the data object    *)
(* that was accepted.                                                       *)
LEMMA ReceiveBodyLink ==
    ASSUME Types, NEW c \in Connections, Phase(c), Clean(c), ReceiveBody(c)
    PROVE  Phase(c)' /\ Clean(c)'
<1> USE TransferConstants
<1> DEFINE r == rcv[c]
           f == fwd[c]
           pc == IF r.left = 1 THEN "ack" ELSE "body"
           same == Head(f) = [kind |-> "data", obj |-> r.obj]
           intact == r.intact /\ same
           left == r.left - 1
           s == [r EXCEPT !.left = left, !.pc = pc, !.intact = intact]
<1>1. /\ r.pc = "body" /\ f # <<>> /\ Receiver(c, s, Tail(f))
      /\ UNCHANGED <<snd, back, received>>
  BY DEF ReceiveBody, nodeVars
<1>2. /\ r \in ReceiverRecords /\ f \in Seq(Items) /\ r.left \in Nat
      /\ r.left > 0 /\ snd[c].left \in Nat /\ BodyLen(snd[c].obj) \in Nat
  BY <1>1 DEF Types, NetTypes, ReceiverEnds, ReceiverRecords, SenderEnds,
     SenderRecords, Lefts, BodyLen
<1>3. /\ pc \in {"ack", "body"} /\ left \in Nat /\ r.left = left + 1
      /\ pc = IF left = 0 THEN "ack" ELSE "body"
  BY <1>2
<1>4. intact <=> (r.intact = TRUE /\ Head(f) = Data(r.obj))
  <2>1. r.intact \in BOOLEAN
    BY <1>2 DEF ReceiverRecords, Flags
  <2> QED
    BY <2>1 DEF Data
<1>i. intact \in BOOLEAN
  OBVIOUS
<1> HIDE DEF pc, intact, left
<1>5. s.pc = pc /\ s.left = left /\ s.obj = r.obj /\ s.intact = intact
  BY <1>2 DEF ReceiverRecords
<1> HIDE DEF s
<1>6. rcv'[c] = s /\ fwd'[c] = Tail(f)
  BY <1>1, <1>3, <1>5, ReceiverAt
<1>7. Clean(c)'
  BY <1>3, <1>5, <1>6 DEF Clean
<1>8. Away(c) \/ (Streaming(c) /\ InSync(c, snd[c].left))
  BY <1>1 DEF Phase, Resting, Offered, Deciding, Unanswered, Refused, Granted,
     AllAtOnce, Confirmed, Streaming, Gone, Quit
<1>9. CASE Away(c)
  BY <1>1, <1>7, <1>9 DEF Away, Phase
<1>10. CASE Streaming(c) /\ InSync(c, snd[c].left)
  <2>1. Contains(f, Head(f)) /\ \A x : Contains(Tail(f), x) => Contains(f, x)
    BY <1>1, <1>2, Taken
  <2>2. AllData(fwd'[c], snd[c].obj)
    BY <1>6, <1>10, <2>1 DEF Streaming, AllData
  <2>3. Head(f) = Data(r.obj) /\ r.intact = TRUE
    BY <1>10, <2>1 DEF Streaming, AllData, InSync
  <2>4. intact = TRUE
    BY <1>4, <1>i, <2>3
  <2>5. Len(Tail(f)) = Len(f) - 1 /\ Len(f) \in Nat /\ Len(f) > 0
    BY <1>1, <1>2, TailFacts
  <2>6. left = snd[c].left + Len(Tail(f))
    BY <1>2, <1>3, <1>10, <2>5 DEF InSync
  <2>7. InSync(c, snd[c].left)'
    BY <1>1, <1>3, <1>5, <1>6, <1>10, <2>4, <2>6 DEF InSync
  <2>8. Streaming(c)'
    BY <1>1, <1>10, <2>2, <2>7 DEF Streaming
  <2> QED
    BY <1>7, <2>8 DEF Phase
<1> QED
  BY <1>8, <1>9, <1>10

LEMMA BreakLink ==
    ASSUME Types, NEW c \in Connections, Phase(c), Clean(c),
           ReceiveBroken(c) \/ ReceiveError(c)
    PROVE  Phase(c)' /\ Clean(c)'
<1> DEFINE r == rcv[c]
<1>1. /\ UNCHANGED <<snd, back, received>> /\ r \in ReceiverEnds
  BY DEF ReceiveBroken, ReceiveError, Types, NetTypes, nodeVars
<1>2. Over(AfterError(r)) /\ Over(ReceiverClosed(r))
  BY <1>1, OverAfterwards
<1>3. CASE ReceiveBroken(c)
  <2>1. Receiver(c, ReceiverClosed(r), <<>>) /\ LastInput(c, <<>>)
    BY <1>3 DEF ReceiveBroken, LastInput
  <2> QED
    BY <1>1, <1>2, <2>1, QuitLink
<1>4. CASE ReceiveError(c)
  <2>1. Receiver(c, AfterError(r), fwd[c]) /\ LastInput(c, fwd[c])
    BY <1>4 DEF ReceiveError, LastInput
  <2> QED
    BY <1>1, <1>2, <2>1, QuitLink
<1> QED
  BY <1>3, <1>4

(* The ACK is sent when all bytes are there; in step, they are the data     *)
(* object's.                                                                *)
LEMMA SendAckLink ==
    ASSUME Types, NEW c \in Connections, Phase(c), Clean(c), SendAck(c)
    PROVE  Phase(c)' /\ Clean(c)' /\ received \subseteq received'
<1> USE TransferConstants
<1> DEFINE r == rcv[c]
           t == Idle(r, 0)
           m == [type |-> "ACK", obj |-> r.obj]
<1>1. /\ r.pc = "ack" /\ UNCHANGED snd
      /\ r \in ReceiverEnds /\ fwd[c] \in Seq(Items)
      /\ back[c] \in Seq(Messages) /\ back \in [Connections -> Seq(Messages)]
      /\ received \subseteq received' /\ Receiver(c, t, fwd[c])
  BY DEF SendAck, Types, NetTypes
<1>2. t.pc = "idle" /\ t.intact = TRUE
  BY <1>1, Afresh
<1>3. m \in Messages /\ m.type = "ACK"
  BY <1>1, CopyAtType DEF Messages
<1>4. UNCHANGED back \/ Answer(c, "ACK")
  BY DEF SendAck
<1>5. Answer(c, "ACK") /\ snd[c].pc # "closed" =>
         back'[c] = Append(back[c], m)
  BY <1>1 DEF Answer
<1> HIDE DEF t, m
<1>6. rcv'[c] = t /\ fwd'[c] = fwd[c]
  BY <1>1, <1>2, ReceiverAt
<1>7. Clean(c)' /\ Gone(c)' /\ Quit(c)'
  BY <1>2, <1>6 DEF Clean, Gone, Quit
<1>8. \/ Away(c)
      \/ Granted(c) /\ InSync(c, BodyLen(snd[c].obj))
      \/ Streaming(c) /\ InSync(c, snd[c].left)
  BY <1>1 DEF Phase, Resting, Offered, Deciding, Unanswered, Refused, Granted,
     AllAtOnce, Confirmed, Streaming, Gone, Quit
<1>9. CASE Away(c)
  <2>1. back' = back
    BY <1>4, <1>9, AnswerAway DEF Away
  <2> QED
    BY <1>1, <1>7, <1>9, <2>1 DEF Away, Phase
<1>10. ASSUME InSync(c, BodyLen(snd[c].obj)) \/ InSync(c, snd[c].left)
       PROVE  Got(c, snd[c].obj)'
  <2>1. r.intact = TRUE /\ r.obj = snd[c].obj
    BY <1>10 DEF InSync
  <2>2. CopyAt(c) \in received'
    BY <2>1 DEF SendAck
  <2>3. CopyAt(c).conn = c /\ CopyAt(c).obj = snd[c].obj
    BY <2>1 DEF CopyAt
  <2> QED
    BY <1>1, <2>2, <2>3 DEF Got
<1>11. r.left = 0 =>
         /\ InSync(c, BodyLen(snd[c].obj)) => BodyLen(snd[c].obj) = 0
         /\ InSync(c, snd[c].left) => snd[c].left = 0 /\ fwd[c] = <<>>
  <2>1. /\ Len(fwd[c]) \in Nat /\ snd[c].left \in Nat
        /\ BodyLen(snd[c].obj) \in Nat
    BY <1>1 DEF Types, NetTypes, SenderEnds, SenderRecords, Lefts, BodyLen
  <2>2. ASSUME r.left = 0, InSync(c, snd[c].left)
        PROVE  snd[c].left = 0 /\ Len(fwd[c]) = 0
    <3>1. snd[c].left + Len(fwd[c]) = 0
      BY <2>2 DEF InSync
    <3> QED
      BY <2>1, <3>1
  <2>3. ASSUME r.left = 0, InSync(c, BodyLen(snd[c].obj))
        PROVE  BodyLen(snd[c].obj) = 0
    BY <2>1, <2>3 DEF InSync
  <2> QED
    BY <1>1, <2>2, <2>3, EmptyLen
<1>12. CASE Granted(c) /\ InSync(c, BodyLen(snd[c].obj))
  <2>1. r.left = 0
    BY <1>1, <1>12 DEF InSync
  <2>2. BodyLen(snd[c].obj)' = 0 /\ Got(c, snd[c].obj)'
    BY <1>1, <1>10, <1>11, <1>12, <2>1 DEF BodyLen
  <2>3. CASE UNCHANGED back
    BY <1>1, <1>6, <1>7, <1>12, <2>3 DEF Granted, Phase
  <2>4. CASE Answer(c, "ACK")
    <3>1. back'[c] = Append(back[c], m)
      BY <1>5, <1>12, <2>4 DEF Granted
    <3>2. /\ back'[c] # <<>> /\ Head(back'[c]) = Head(back[c])
          /\ Tail(back'[c]) # <<>> /\ Tail(Tail(back'[c])) = <<>>
          /\ Head(Tail(back'[c])) = m
      BY <1>1, <1>3, <1>12, <3>1, SecondAdded DEF Granted, JustType
    <3>3. AllAtOnce(c)'
      BY <1>1, <1>3, <1>6, <1>7, <1>12, <2>2, <3>2
         DEF Granted, JustType, AllAtOnce
    <3> QED
      BY <1>1, <1>7, <3>3 DEF Phase
  <2> QED
    BY <1>4, <2>3, <2>4
<1>13. CASE Streaming(c) /\ InSync(c, snd[c].left)
  <2>1. r.left = 0
    BY <1>1, <1>13 DEF InSync
  <2>2. /\ snd[c].left = 0 /\ fwd[c] = <<>> /\ snd[c].pc = "ack"
        /\ Got(c, snd[c].obj)'
    BY <1>10, <1>11, <1>13, <2>1 DEF Streaming
  <2>3. CASE UNCHANGED back
    <3>1. Streaming(c)'
      BY <1>1, <1>6, <1>7, <1>13, <2>3 DEF Streaming
    <3> QED
      BY <1>1, <1>7, <3>1 DEF Phase
  <2>4. CASE Answer(c, "ACK")
    <3>1. back'[c] = Append(<<>>, m)
      BY <1>5, <1>13, <2>2, <2>4 DEF Streaming
    <3>2. Confirmed(c)'
      BY <1>1, <1>3, <1>6, <1>7, <2>2, <3>1, FirstAdded
         DEF Confirmed, JustType
    <3> QED
      BY <1>1, <1>7, <3>2 DEF Phase
  <2> QED
    BY <1>4, <2>3, <2>4
<1> QED
  BY <1>8, <1>9, <1>12, <1>13

-----------------------------------------------------------------------------
(***************************************************************************)
(* Every step keeps the connections in step                                 *)
(***************************************************************************)

(* A step of one connection leaves the others alone.                        *)
LEMMA OthersOfSender ==
    ASSUME Types, NEW c \in Connections, Connect(c) \/ Sender(c),
           NEW e \in Connections \ {c}
    PROVE  /\ snd'[e] = snd[e] /\ rcv'[e] = rcv[e]
           /\ fwd'[e] = fwd[e] /\ back'[e] = back[e]
<1>t. /\ snd \in [Connections -> SenderEnds]
      /\ rcv \in [Connections -> ReceiverEnds]
      /\ fwd \in [Connections -> Seq(Items)]
      /\ back \in [Connections -> Seq(Messages)]
  BY DEF Types, NetTypes
<1>1. CASE Connect(c)
  BY <1>1, <1>t DEF Connect
<1>2. CASE TakeObject(c) \/ SendHeader(c) \/ SendBody(c) \/ SenderLeaves(c)
  BY <1>2, <1>t DEF TakeObject, SendHeader, SendBody, SenderLeaves, Write
<1>3. CASE ReceiveAnswer(c)
  <2>1. \/ \E pc, left : snd' = [snd EXCEPT ![c].pc = pc, ![c].left = left]
        \/ snd' = [snd EXCEPT ![c].pc = "ack"]
        \/ SendResult(c, "rejected", "idle")
    BY <1>3 DEF ReceiveAnswer
  <2>2. snd'[e] = snd[e]
    BY <1>t, <2>1, ResultAt
  <2> QED
    BY <1>3, <1>t, <2>2 DEF ReceiveAnswer
<1>4. CASE ReceiveAck(c) \/ SendBroken(c) \/ SendError(c)
  <2>1. snd'[e] = snd[e]
    BY <1>4, ResultAt DEF ReceiveAck, SendBroken, SendError
  <2> QED
    BY <1>4, <1>t, <2>1 DEF ReceiveAck, SendBroken, SendError, netVars
<1> QED
  BY <1>1, <1>2, <1>3, <1>4 DEF Sender

LEMMA OthersOfReceiver ==
    ASSUME Types, NEW c \in Connections, ReceiverStep(c),
           NEW e \in Connections \ {c}
    PROVE  /\ snd'[e] = snd[e] /\ rcv'[e] = rcv[e]
           /\ fwd'[e] = fwd[e] /\ back'[e] = back[e]
<1>t. /\ rcv \in [Connections -> ReceiverEnds]
      /\ back \in [Connections -> Seq(Messages)]
  BY DEF Types, NetTypes
<1>1. snd' = snd
  BY DEF ReceiverStep, ReceiveHeader, ReceiveJunk, CheckFilter, SendReject,
     AddToFilter, SendAccept, ReceiveBody, SendAck, ReceiveBroken,
     ReceiveError
<1>a. \A type : Answer(c, type) => back'[e] = back[e]
  BY <1>t DEF Answer
<1>2. back'[e] = back[e]
  BY <1>a DEF ReceiverStep, ReceiveHeader, ReceiveJunk, CheckFilter,
     SendReject, AddToFilter, SendAccept, ReceiveBody, SendAck,
     ReceiveBroken, ReceiveError, netVars
<1>r. (\E r, input : Receiver(c, r, input)) =>
          rcv'[e] = rcv[e] /\ fwd'[e] = fwd[e]
  BY ReceiverAt
<1>3. CASE CheckFilter(c) \/ AddToFilter(c)
  <2>1. fwd' = fwd
    BY <1>3 DEF CheckFilter, AddToFilter, netVars
  <2>2. rcv'[e] = rcv[e]
    BY <1>3, <1>t DEF CheckFilter, AddToFilter
  <2> QED
    BY <1>1, <1>2, <2>1, <2>2
<1>4. CASE \/ ReceiveHeader(c) \/ ReceiveJunk(c) \/ SendReject(c)
           \/ SendAccept(c) \/ ReceiveBody(c) \/ SendAck(c)
           \/ ReceiveBroken(c) \/ ReceiveError(c)
  <2>1. \E r, input : Receiver(c, r, input)
    BY <1>4 DEF ReceiveHeader, ReceiveJunk, SendReject, SendAccept,
       ReceiveBody, SendAck, ReceiveBroken, ReceiveError
  <2> QED
    BY <1>1, <1>2, <1>r, <2>1
<1> QED
  BY <1>3, <1>4 DEF ReceiverStep

(* Every step of a connection keeps it in a phase.                          *)
LEMMA SenderLink ==
    ASSUME Types, LinkInv, NEW c \in Connections, Connect(c) \/ Sender(c)
    PROVE  LinkInv'
<1>1. received' = received
  BY SenderTypes DEF nodeVars
<1>2. /\ disturbed \ {c} \subseteq disturbed' /\ disturbed' \subseteq disturbed \cup {c}
      /\ ~Connect(c) => disturbed \subseteq disturbed'
  BY DEF Sender, Connect, TakeObject, SendHeader, ReceiveAnswer, SendBody, ReceiveAck,
     SendBroken, SendError, SenderLeaves, tally
<1>3. ASSUME c \notin disturbed'
      PROVE  Phase(c)' /\ Clean(c)'
  <2>1. CASE Connect(c)
    BY <2>1, ConnectLink
  <2>2. CASE ~Connect(c)
    <3>1. Phase(c) /\ Clean(c)
      BY <1>2, <1>3, <2>2 DEF LinkInv
    <3> QED
      BY <1>3, <2>2, <3>1, EndLink, SendHeaderLink, AnswerLink, SendBodyLink, AckLink
      DEF Sender
  <2> QED
    BY <2>1, <2>2
<1>4. ASSUME NEW e \in Connections \ {c}, e \notin disturbed'
      PROVE  Phase(e)' /\ Clean(e)'
  <2>1. /\ snd'[e] = snd[e] /\ rcv'[e] = rcv[e]
        /\ fwd'[e] = fwd[e] /\ back'[e] = back[e]
    BY OthersOfSender
  <2>2. Phase(e) /\ Clean(e)
    BY <1>2, <1>4 DEF LinkInv
  <2> QED
    BY <1>1, <2>1, <2>2, Untouched
<1> QED
  BY <1>3, <1>4 DEF LinkInv

LEMMA ReceiverLink ==
    ASSUME Types, LinkInv, NEW c \in Connections, ReceiverStep(c)
    PROVE  LinkInv'
<1>1. disturbed' = disturbed /\ received \subseteq received'
  BY DEF ReceiverStep, ReceiveHeader, ReceiveJunk, CheckFilter, SendReject,
     AddToFilter, SendAccept, ReceiveBody, SendAck, ReceiveBroken,
     ReceiveError, nodeVars, netVars, tally
<1>2. ASSUME c \notin disturbed
      PROVE  Phase(c)' /\ Clean(c)'
  <2>1. Phase(c) /\ Clean(c)
    BY <1>2 DEF LinkInv
  <2> QED
    BY <2>1, ReceiveHeaderLink, ReceiveJunkLink, CheckFilterLink,
       SendRejectLink, AddToFilterLink, SendAcceptLink, ReceiveBodyLink,
       SendAckLink, BreakLink DEF ReceiverStep
<1>3. ASSUME NEW e \in Connections \ {c}, e \notin disturbed
      PROVE  Phase(e)' /\ Clean(e)'
  <2>1. /\ snd'[e] = snd[e] /\ rcv'[e] = rcv[e]
        /\ fwd'[e] = fwd[e] /\ back'[e] = back[e]
    BY OthersOfReceiver
  <2>2. Phase(e) /\ Clean(e)
    BY <1>3 DEF LinkInv
  <2> QED
    BY <1>1, <2>1, <2>2, Untouched
<1> QED
  BY <1>1, <1>2, <1>3 DEF LinkInv

(* The steps that leave the connections alone.                              *)
LEMMA NodeLink ==
    ASSUME \/ Kernel \/ SecurityHelper \/ DataHelper \/ InsertDataObject
           \/ UNCHANGED vars
    PROVE  UNCHANGED <<snd, rcv, fwd, back, outcome, disturbed, received>>
BY DEF Kernel, onIncomingDataObject, onReceivedDataObject,
   onSecurityTaskComplete, onVerifiedDataObject, onDataTaskComplete,
   SecurityHelper, DataHelper, InsertDataObject, vars, netVars, nodeVars, tally

LEMMA LinkNext ==
    ASSUME Types, LinkInv, [Next]_vars
    PROVE  LinkInv'
<1>1. CASE \E c \in Connections : Connect(c) \/ Sender(c) \/ ReceiverStep(c)
  BY <1>1, SenderLink, ReceiverLink
<1>2. CASE \/ Kernel \/ SecurityHelper \/ DataHelper \/ InsertDataObject
           \/ UNCHANGED vars
  BY <1>2, NodeLink, Untouched DEF LinkInv
<1> QED
  BY <1>1, <1>2 DEF Next

LEMMA LinkInvariant == Spec => [](Types /\ LinkInv)
<1>1. ASSUME Init
      PROVE  LinkInv
  <2>1. \A c \in Connections : Away(c) /\ Clean(c)
    BY <1>1 DEF Init, Away, Clean, ClosedEnd, ClosedReceiver
  <2> QED
    BY <2>1 DEF LinkInv, Phase
<1>2. Types /\ LinkInv /\ [Next]_vars => LinkInv'
  BY LinkNext
<1> QED
  BY <1>1, <1>2, CopiesInvariant, PTL DEF Spec

(* A send ends with the result "acked" only in ReceiveAck.                  *)
LEMMA OneResult ==
    ASSUME Types, NEW c \in Connections, snd[c].pc \in SendStages,
           NEW result, NEW pc, SendResult(c, result, pc),
           NEW e \in Connections, NEW d \in DataObjects,
           outcome[e][d] # "acked", outcome'[e][d] = "acked"
    PROVE  e = c /\ d = snd[c].obj /\ result = "acked"
<1>1. snd[c].obj \in DataObjects
  BY DEF Types, NetTypes, SenderEnds
<1> QED
  BY <1>1 DEF SendResult, Types, NetTypes

(***************************************************************************)
(* A data object that the neighbour comes to count as acknowledged was read *)
(* completely and unchanged by this node, from that connection, however     *)
(* often the two ends refuse, time out, close and connect again (the wait   *)
(* for the ACK in sendDataObjectNow), unless a send was given up half way   *)
(* on this connection and left it open.                                     *)
(***************************************************************************)
THEOREM AckReceived == Spec => AckedWhenReceived
<1> DEFINE A == \A c \in Connections, d \in DataObjects :
                  c \notin disturbed /\ outcome[c][d] # "acked"
                      /\ outcome'[c][d] = "acked" => ReadFrom(c, d)
<1>1. ASSUME Types, LinkInv, [Next]_vars
      PROVE  [A]_vars
  <2> SUFFICES ASSUME NEW e \in Connections, NEW d \in DataObjects,
                      e \notin disturbed, outcome[e][d] # "acked",
                      outcome'[e][d] = "acked"
               PROVE  ReadFrom(e, d)
    OBVIOUS
  <2>1. outcome' # outcome
    OBVIOUS
  <2>2. PICK c \in Connections : Connect(c) \/ Sender(c) \/ ReceiverStep(c)
    BY <1>1, <2>1, NodeLink DEF Next
  <2>3. ~ReceiverStep(c)
    BY <2>1 DEF ReceiverStep, ReceiveHeader, ReceiveJunk, CheckFilter, SendReject,
       AddToFilter, SendAccept, ReceiveBody, SendAck, ReceiveBroken, ReceiveError
  <2>4. \/ ReceiveAck(c) \/ SendBroken(c) \/ SendError(c)
        \/ ReceiveAnswer(c) /\ SendResult(c, "rejected", "idle")
    BY <2>1, <2>2, <2>3 DEF Sender, Connect, TakeObject, SendHeader, SendBody,
       SenderLeaves, ReceiveAnswer
  <2>5. snd[c].pc \in SendStages
    BY <2>4 DEF ReceiveAck, SendBroken, SendError, ReceiveAnswer, SendStages
  <2>6. ReceiveAck(c) /\ e = c /\ d = snd[c].obj
    <3>1. PICK result, pc : /\ SendResult(c, result, pc)
                            /\ ReceiveAck(c) \/ result # "acked"
      BY <2>4 DEF ReceiveAck, SendBroken, SendError
    <3> QED
      BY <1>1, <2>5, <3>1, OneResult
  <2>7. Phase(c) /\ Clean(c)
    BY <1>1, <2>6 DEF LinkInv
  <2> QED
    BY <1>1, <2>6, <2>7, AckLink DEF Got, ReadFrom
<1>2. Spec => [][A]_vars
  BY <1>1, LinkInvariant, PTL DEF Spec
<1> QED
  BY <1>2 DEF AckedWhenReceived

(* The two ends of a connection on which no send was given up half way      *)
(* never wait for each other over the body: what the receiver still misses  *)
(* is on its way or still to be written (the loops of sendDataObjectNow and *)
(* receiveDataObject).                                                      *)
THEOREM BodiesMeet == Spec => []NoMutualWait
<1>1. ASSUME Types, LinkInv
      PROVE  NoMutualWait
  <2> SUFFICES ASSUME NEW c \in Connections, c \notin disturbed,
                      snd[c].pc = "ack", rcv[c].pc = "body", back[c] = <<>>
               PROVE  fwd[c] # <<>>
    BY DEF NoMutualWait
  <2>1. Phase(c)
    BY <1>1 DEF LinkInv
  <2>2. Streaming(c)
    BY <2>1 DEF Phase, Resting, Away, Offered, Deciding, Unanswered, Refused,
       Granted, AllAtOnce, Confirmed, JustType
  <2>3. InSync(c, snd[c].left) /\ snd[c].left = 0
    BY <2>2 DEF Streaming, Quit
  <2>4. rcv[c].left # 0 /\ rcv[c].left = 0 + Len(fwd[c])
    BY <2>3 DEF InSync
  <2> QED
    BY <2>4
<1> QED
  BY <1>1, LinkInvariant, PTL
=============================================================================
