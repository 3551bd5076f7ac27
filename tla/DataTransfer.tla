---------------------------- MODULE DataTransfer ----------------------------
(***************************************************************************)
(* How a data object gets from a neighbour into this node's data store:     *)
(* sendDataObjectNow() in the neighbour, receiveDataObject() here           *)
(* (Protocol.cpp), and behind it the security manager, the data manager,    *)
(* their helper threads and the data store thread.                          *)
(*                                                                          *)
(* A connection is a byte stream each way.  The sender writes the header    *)
(* and, after an ACCEPT, the body; the receiver answers REJECT, or ACCEPT   *)
(* and at the end ACK.  The receiver decides by this node's Bloom filter    *)
(* "bf", which the protocol threads add to and which the data manager       *)
(* replaces by a copy of its own filter "localBF".  The filters are the     *)
(* sets they stand for: false positives are left out.  Each access to "bf"  *)
(* is atomic, for NodeRef::operator-> holds the node's lock through the     *)
(* expression.                                                              *)
(*                                                                          *)
(* A copy is one accepted transfer of a data object, the DataObject that    *)
(* create_for_putting() made for it.                                        *)
(***************************************************************************)
EXTENDS Naturals, Sequences, FiniteSets, SequencesExt

CONSTANTS
    DataObjects,        \* data objects that neighbours have
    Empty,              \* those of them without a body
    Chunks,             \* pieces in which a body is written and read
    Connections,        \* connections from neighbours
    None,               \* no data object
    MaxSends,           \* bound: sends of data objects, over all connections
    MaxErrors,          \* errors in a row a receiving protocol tolerates (3)
    SignatureChecked,   \* data objects whose signature is to be verified
    BadSignature        \* those whose verification fails

ASSUME TransferConstants ==
    /\ Empty \subseteq DataObjects /\ Chunks \in Nat \ {0}
    /\ None \notin DataObjects
    /\ MaxSends \in Nat /\ MaxErrors \in Nat
    /\ BadSignature \subseteq SignatureChecked
    /\ SignatureChecked \subseteq DataObjects

VARIABLES
    snd,        \* the neighbour's end of each connection
    rcv,        \* this node's end
    fwd, back,  \* what is on its way to this node and to the neighbour
    outcome,    \* the send result of each data object on each connection
    sends,      \* number of sends so far
    copies,     \* number of copies so far
    disturbed,  \* history: connections on which a send was given up half way
    bf,         \* the Bloom filter of this node
    localBF,    \* the data manager's counting filter
    duplicate,  \* copies marked as duplicates
    events,     \* the kernel's event queue
    signing,    \* task queue of the SecurityHelper
    hashing,    \* task queue of the DataHelper
    inserting,  \* insert tasks of the data store
    stored,     \* copies in the data store
    received    \* history: copies that arrived in one piece

tally == <<sends, copies, disturbed>>
netVars == <<fwd, back, tally>>
kernelVars == <<localBF, duplicate, signing, hashing, inserting, stored>>
nodeVars == <<bf, events, received, kernelVars>>
vars == <<snd, rcv, netVars, outcome, nodeVars>>

-----------------------------------------------------------------------------
(* State.                                                                   *)

Copies == [obj : DataObjects, conn : Connections, nr : 1..MaxSends]
EventTypes == {"INCOMING", "RECEIVED", "SECURITY_TASK_COMPLETE", "VERIFIED",
               "DATA_TASK_COMPLETE"}
BodyLen(d) == IF d \in Empty THEN 0 ELSE Chunks

(* Sending: nothing to send, about to write the header, waiting for the     *)
(* ACCEPT or REJECT, writing the body, waiting for the ACK.                 *)
SendStages == {"header", "answer", "body", "ack"}

(* Receiving: waiting for a data object, reading bytes that are no header,  *)
(* consulting the filter, about to send REJECT, to add to the filter, to    *)
(* send ACCEPT, reading the body, about to send ACK.                        *)
CopyStages == {"add", "accept", "body", "ack"}
ReceiveStages == {"junk", "check", "reject"} \cup CopyStages

ClosedEnd == [pc |-> "closed", obj |-> None, left |-> 0]
ClosedReceiver == [pc |-> "closed", obj |-> None, left |-> 0, nr |-> 0,
                   intact |-> TRUE, numerr |-> 0]

Init ==
    /\ snd = [c \in Connections |-> ClosedEnd]
    /\ rcv = [c \in Connections |-> ClosedReceiver]
    /\ fwd = [c \in Connections |-> <<>>]
    /\ back = [c \in Connections |-> <<>>]
    /\ outcome = [c \in Connections |-> [d \in DataObjects |-> "none"]]
    /\ sends = 0 /\ copies = 0 /\ disturbed = {}
    /\ bf = {} /\ localBF = {} /\ duplicate = {}
    /\ events = <<>> /\ signing = <<>> /\ hashing = <<>> /\ inserting = <<>>
    /\ stored = {} /\ received = {}

(* The copy that the receiver of connection c is working on.                *)
CopyAt(c) == [obj |-> rcv[c].obj, conn |-> c, nr |-> rcv[c].nr]

addEvent(type, k) == events' = Append(events, [type |-> type, copy |-> k])

(* send() on a socket: what is written to a closed end is lost.             *)
Write(c, item) ==
    fwd' = IF rcv[c].pc = "closed" THEN fwd
           ELSE [fwd EXCEPT ![c] = Append(@, item)]

-----------------------------------------------------------------------------
(* The neighbour: Protocol::run() and sendDataObjectNow().                  *)

(* A connection is made and accepted: new protocols at both ends.           *)
Connect(c) ==
    /\ snd[c].pc = "closed" /\ rcv[c].pc = "closed"
    /\ sends < MaxSends
    /\ snd' = [snd EXCEPT ![c] = [ClosedEnd EXCEPT !.pc = "idle"]]
    /\ rcv' = [rcv EXCEPT ![c] = [ClosedReceiver EXCEPT !.pc = "idle"]]
    /\ fwd' = [fwd EXCEPT ![c] = <<>>]
    /\ back' = [back EXCEPT ![c] = <<>>]
    /\ disturbed' = disturbed \ {c}
    /\ UNCHANGED <<sends, copies, outcome, nodeVars>>

(* A data object is taken from the send queue.  What was sent successfully  *)
(* is in the neighbour's filter of this node and is not queued again        *)
(* (DataManager::onSendResult).                                             *)
TakeObject(c) ==
    /\ snd[c].pc = "idle" /\ sends < MaxSends
    /\ \E d \in DataObjects :
          /\ outcome[c][d] \notin {"acked", "rejected"}
          /\ snd' = [snd EXCEPT ![c] =
                [pc |-> "header", obj |-> d, left |-> 0]]
    /\ sends' = sends + 1
    /\ UNCHANGED <<rcv, fwd, back, copies, disturbed, outcome, nodeVars>>

SendHeader(c) ==
    /\ snd[c].pc = "header"
    /\ Write(c, [kind |-> "header", obj |-> snd[c].obj])
    /\ snd' = [snd EXCEPT ![c].pc = "answer"]
    /\ UNCHANGED <<rcv, back, tally, outcome, nodeVars>>

(* Seeded fault: the loop over the body does not start over.                *)
AfterAcceptStops(c) == "ack"

(* The ACCEPT lets the loop start over, in case there is a body to send.    *)
AfterAccept(c) == IF BodyLen(snd[c].obj) = 0 THEN "ack" ELSE "body"

(* Leave sendDataObjectNow(): the send result goes to the managers and the  *)
(* protocol waits for the next data object, or ends and closes.             *)
SendResult(c, result, pc) ==
    /\ outcome' = [outcome EXCEPT ![c][snd[c].obj] = result]
    /\ snd' = [snd EXCEPT ![c] = [ClosedEnd EXCEPT !.pc = pc]]

(* Seeded fault: a REJECT ends the send like an ACK.                        *)
ReceiveAnswerRejectIsSuccess(c) ==
    /\ snd[c].pc = "answer" /\ back[c] # <<>>
    /\ LET m == Head(back[c]) IN
          CASE m.type = "ACCEPT" ->
                 /\ snd' = [snd EXCEPT ![c].pc = AfterAccept(c),
                                       ![c].left = BodyLen(snd[c].obj)]
                 /\ UNCHANGED outcome
            [] m.type = "REJECT" -> SendResult(c, "acked", "idle")
            [] OTHER -> /\ snd' = [snd EXCEPT ![c].pc = "ack"]
                        /\ UNCHANGED outcome
    /\ back' = [back EXCEPT ![c] = Tail(@)]
    /\ UNCHANGED <<tally, rcv, fwd, nodeVars>>

(* receiveControlMessage() after the header.  The data object that the      *)
(* message names is not looked at.  A message that is neither ACCEPT nor    *)
(* REJECT ends the loop with len = 0, and the ACK is waited for.            *)
ReceiveAnswer(c) ==
    /\ snd[c].pc = "answer" /\ back[c] # <<>>
    /\ LET m == Head(back[c]) IN
          CASE m.type = "ACCEPT" ->
                 /\ snd' = [snd EXCEPT ![c].pc = AfterAccept(c),
                                       ![c].left = BodyLen(snd[c].obj)]
                 /\ UNCHANGED outcome
            [] m.type = "REJECT" -> SendResult(c, "rejected", "idle")
            [] OTHER -> /\ snd' = [snd EXCEPT ![c].pc = "ack"]
                        /\ UNCHANGED outcome
    /\ back' = [back EXCEPT ![c] = Tail(@)]
    /\ UNCHANGED <<tally, rcv, fwd, nodeVars>>

SendBody(c) ==
    /\ snd[c].pc = "body"
    /\ Write(c, [kind |-> "data", obj |-> snd[c].obj])
    /\ snd' = [snd EXCEPT ![c].left = @ - 1,
                          ![c].pc = IF snd[c].left = 1 THEN "ack" ELSE "body"]
    /\ UNCHANGED <<rcv, back, tally, outcome, nodeVars>>

(* receiveControlMessage() after the body: anything but an ACK is an error, *)
(* after which the protocol goes on with the next data object.              *)
ReceiveAck(c) ==
    /\ snd[c].pc = "ack" /\ back[c] # <<>>
    /\ SendResult(c, IF Head(back[c]).type = "ACK" THEN "acked" ELSE "failed",
                  "idle")
    /\ back' = [back EXCEPT ![c] = Tail(@)]
    /\ UNCHANGED <<tally, rcv, fwd, nodeVars>>

(* A timeout (20 seconds at every wait), a closed or broken connection: the *)
(* data object has failed, the protocol ends.                               *)
SendBroken(c) ==
    /\ snd[c].pc \in SendStages
    /\ SendResult(c, "failed", "closed")
    /\ back' = [back EXCEPT ![c] = <<>>]
    /\ UNCHANGED <<tally, rcv, fwd, nodeVars>>

(* PROT_EVENT_ERROR: the data object cannot be read (on), a control message *)
(* has a bad size, or select() fails.  The data object has failed and the   *)
(* protocol goes on over the same connection, however much of it was sent.  *)
SendError(c) ==
    /\ snd[c].pc \in SendStages
    /\ SendResult(c, "failed", "idle")
    /\ disturbed' = IF snd[c].pc = "header" THEN disturbed
                    ELSE disturbed \cup {c}
    /\ UNCHANGED <<rcv, fwd, back, sends, copies, nodeVars>>

(* Nothing to send for PROT_WAIT_TIME_BEFORE_DONE, or peer gone.            *)
SenderLeaves(c) ==
    /\ snd[c].pc = "idle"
    /\ snd' = [snd EXCEPT ![c].pc = "closed"]
    /\ back' = [back EXCEPT ![c] = <<>>]
    /\ UNCHANGED <<rcv, fwd, tally, outcome, nodeVars>>

Sender(c) ==
    \/ TakeObject(c) \/ SendHeader(c) \/ ReceiveAnswer(c) \/ SendBody(c)
    \/ ReceiveAck(c) \/ SendBroken(c) \/ SendError(c) \/ SenderLeaves(c)

-----------------------------------------------------------------------------
(* This node: Protocol::run() and receiveDataObject().                      *)

Idle(r, errors) == [r EXCEPT !.pc = "idle", !.obj = None, !.left = 0,
                             !.nr = 0, !.intact = TRUE, !.numerr = errors]

(* run() after receiveDataObject() returned PROT_EVENT_ERROR: the error     *)
(* counts, and one too many closes the connection.                          *)
AfterError(r) ==
    IF r.numerr > MaxErrors THEN [Idle(r, 0) EXCEPT !.pc = "closed"]
                            ELSE Idle(r, r.numerr + 1)

ReceiverClosed(r) == [Idle(r, 0) EXCEPT !.pc = "closed"]

(* The receiver becomes r; its unread input is lost when it closes.         *)
Receiver(c, r, input) ==
    /\ rcv' = [rcv EXCEPT ![c] = r]
    /\ fwd' = [fwd EXCEPT ![c] = IF r.pc = "closed" THEN <<>> ELSE input]

(* The header is read: putData() finds its end and makes the metadata.      *)
ReceiveHeader(c) ==
    /\ rcv[c].pc = "idle" /\ fwd[c] # <<>> /\ Head(fwd[c]).kind = "header"
    /\ Receiver(c, [rcv[c] EXCEPT !.pc = "check", !.obj = Head(fwd[c]).obj],
                Tail(fwd[c]))
    /\ UNCHANGED <<snd, back, tally, outcome, nodeVars>>

(* Bytes of a body where a header is expected: putData() collects them      *)
(* until it meets the end of a header, which then cannot be parsed.         *)
ReceiveJunk(c) ==
    /\ rcv[c].pc \in {"idle", "junk"} /\ fwd[c] # <<>>
    /\ \/ /\ Head(fwd[c]).kind = "data"
          /\ Receiver(c, [rcv[c] EXCEPT !.pc = "junk"], Tail(fwd[c]))
       \/ /\ rcv[c].pc = "junk" /\ Head(fwd[c]).kind = "header"
          /\ Receiver(c, AfterError(rcv[c]), Tail(fwd[c]))
    /\ UNCHANGED <<snd, back, tally, outcome, nodeVars>>

(* Does the filter of this node have the data object?                       *)
CheckFilter(c) ==
    /\ rcv[c].pc = "check"
    /\ rcv' = [rcv EXCEPT ![c].pc =
                  IF rcv[c].obj \in bf THEN "reject" ELSE "add"]
    /\ UNCHANGED <<snd, netVars, outcome, nodeVars>>

(* sendControlMessage(): the message is sent, or not for a timeout or an    *)
(* error.                                                                   *)
Answer(c, type) ==
    back' = IF snd[c].pc = "closed" THEN back
            ELSE [back EXCEPT ![c] =
                     Append(@, [type |-> type, obj |-> rcv[c].obj])]

SendReject(c) ==
    /\ rcv[c].pc = "reject"
    /\ \/ Answer(c, "REJECT") /\ Receiver(c, Idle(rcv[c], 0), fwd[c])
       \/ UNCHANGED back /\ Receiver(c, AfterError(rcv[c]), fwd[c])
       \/ UNCHANGED back /\ Receiver(c, ReceiverClosed(rcv[c]), fwd[c])
    /\ UNCHANGED <<snd, tally, outcome, nodeVars>>

AddToFilter(c) ==
    /\ rcv[c].pc = "add"
    /\ bf' = bf \cup {rcv[c].obj}
    /\ rcv' = [rcv EXCEPT ![c].pc = "accept", ![c].nr = copies + 1]
    /\ copies' = copies + 1
    /\ UNCHANGED <<snd, fwd, back, sends, disturbed, outcome, events, received,
                   kernelVars>>

(* The INCOMING event is posted whether or not the ACCEPT could be sent; if *)
(* it could not, the loop ends.                                             *)
SendAccept(c) ==
    LET len == BodyLen(rcv[c].obj) IN
    /\ rcv[c].pc = "accept"
    /\ addEvent("INCOMING", CopyAt(c))
    /\ \/ /\ Answer(c, "ACCEPT")
          /\ Receiver(c, [rcv[c] EXCEPT
                             !.pc = IF len = 0 THEN "ack" ELSE "body",
                             !.left = len], fwd[c])
       \/ UNCHANGED back /\ Receiver(c, AfterError(rcv[c]), fwd[c])
       \/ UNCHANGED back /\ Receiver(c, ReceiverClosed(rcv[c]), fwd[c])
    /\ UNCHANGED <<snd, tally, outcome, bf, received, kernelVars>>

(* The next piece of the stream goes into the file, whatever it is.         *)
ReceiveBody(c) ==
    /\ rcv[c].pc = "body" /\ fwd[c] # <<>>
    /\ Receiver(c,
           [rcv[c] EXCEPT
               !.left = @ - 1,
               !.pc = IF rcv[c].left = 1 THEN "ack" ELSE "body",
               !.intact = @ /\ Head(fwd[c]) =
                                  [kind |-> "data", obj |-> rcv[c].obj]],
           Tail(fwd[c]))
    /\ UNCHANGED <<snd, back, tally, outcome, nodeVars>>

(* All bytes are there: ACK, whose failure is ignored, and RECEIVED.        *)
SendAck(c) ==
    /\ rcv[c].pc = "ack"
    /\ \/ Answer(c, "ACK")
       \/ UNCHANGED back
    /\ addEvent("RECEIVED", CopyAt(c))
    /\ received' = received \cup (IF rcv[c].intact THEN {CopyAt(c)} ELSE {})
    /\ Receiver(c, Idle(rcv[c], 0), fwd[c])
    /\ UNCHANGED <<snd, tally, outcome, bf, kernelVars>>

(* Timeout, connection closed or broken while waiting for data.             *)
ReceiveBroken(c) ==
    /\ rcv[c].pc \in {"idle", "junk", "body"}
    /\ Receiver(c, ReceiverClosed(rcv[c]), <<>>)
    /\ UNCHANGED <<snd, back, tally, outcome, nodeVars>>

(* An error that leaves the connection open: select() or the write of the   *)
(* file fails.  A copy that was being received is given up.                 *)
ReceiveError(c) ==
    /\ rcv[c].pc \in {"junk", "body"}
    /\ Receiver(c, AfterError(rcv[c]), fwd[c])
    /\ UNCHANGED <<snd, back, tally, outcome, nodeVars>>

ReceiverStep(c) ==
    \/ ReceiveHeader(c) \/ ReceiveJunk(c) \/ CheckFilter(c) \/ SendReject(c)
    \/ AddToFilter(c) \/ SendAccept(c) \/ ReceiveBody(c) \/ SendAck(c)
    \/ ReceiveBroken(c) \/ ReceiveError(c)

-----------------------------------------------------------------------------
(* The kernel thread's handlers, the helper threads, the data store thread. *)

(* The event at the front of the queue is of this type, for this copy.      *)
Event(type, k) ==
    /\ events # <<>>
    /\ Head(events) = [type |-> type, copy |-> k]

NothingPosted == events' = Tail(events)
Posted(type, k) == events' = Append(Tail(events), [type |-> type, copy |-> k])

(* Seeded fault: a second copy is not marked.                               *)
onIncomingDataObjectUnmarked(k) ==
    /\ Event("INCOMING", k) /\ NothingPosted
    /\ IF k.obj \in localBF
       THEN UNCHANGED <<localBF, bf, duplicate>>
       ELSE /\ localBF' = localBF \cup {k.obj}
            /\ bf' = localBF'
            /\ UNCHANGED duplicate
    /\ UNCHANGED <<snd, rcv, netVars, outcome, signing, hashing, inserting,
                   stored, received>>

(* Seeded fault: the filter is copied before the data object is added.      *)
onIncomingDataObjectStaleCopy(k) ==
    /\ Event("INCOMING", k) /\ NothingPosted
    /\ IF k.obj \in localBF
       THEN duplicate' = duplicate \cup {k} /\ UNCHANGED <<localBF, bf>>
       ELSE /\ localBF' = localBF \cup {k.obj}
            /\ bf' = localBF
            /\ UNCHANGED duplicate
    /\ UNCHANGED <<snd, rcv, netVars, outcome, signing, hashing, inserting,
                   stored, received>>

(* A data object that the data manager's filter has is marked duplicate;    *)
(* any other is added, and a copy of the filter becomes this node's.        *)
onIncomingDataObject(k) ==
    /\ Event("INCOMING", k) /\ NothingPosted
    /\ IF k.obj \in localBF
       THEN duplicate' = duplicate \cup {k} /\ UNCHANGED <<localBF, bf>>
       ELSE /\ localBF' = localBF \cup {k.obj}
            /\ bf' = localBF'
            /\ UNCHANGED duplicate
    /\ UNCHANGED <<snd, rcv, netVars, outcome, signing, hashing, inserting,
                   stored, received>>

(* Seeded fault: the filter is asked instead of the mark.                   *)
onReceivedDataObjectAsksFilter(k) ==
    /\ Event("RECEIVED", k)
    /\ CASE k.obj \in localBF -> NothingPosted /\ UNCHANGED signing
         [] k.obj \notin localBF /\ k.obj \in SignatureChecked ->
               NothingPosted /\ signing' = Append(signing, k)
         [] OTHER -> Posted("VERIFIED", k) /\ UNCHANGED signing
    /\ UNCHANGED <<snd, rcv, netVars, outcome, bf, localBF, duplicate, hashing,
                   inserting, stored, received>>

(* Duplicates are ignored; signatures are verified by the helper.           *)
onReceivedDataObject(k) ==
    /\ Event("RECEIVED", k)
    /\ CASE k \in duplicate -> NothingPosted /\ UNCHANGED signing
         [] k \notin duplicate /\ k.obj \in SignatureChecked ->
               NothingPosted /\ signing' = Append(signing, k)
         [] OTHER -> Posted("VERIFIED", k) /\ UNCHANGED signing
    /\ UNCHANGED <<snd, rcv, netVars, outcome, bf, localBF, duplicate, hashing,
                   inserting, stored, received>>

SecurityHelper ==
    /\ signing # <<>>
    /\ signing' = Tail(signing)
    /\ addEvent("SECURITY_TASK_COMPLETE", Head(signing))
    /\ UNCHANGED <<snd, rcv, netVars, outcome, bf, localBF, duplicate, hashing,
                   inserting, stored, received>>

(* Only a valid signature lets the data object pass.                        *)
onSecurityTaskComplete(k) ==
    /\ Event("SECURITY_TASK_COMPLETE", k)
    /\ IF k.obj \in BadSignature THEN NothingPosted ELSE Posted("VERIFIED", k)
    /\ UNCHANGED <<snd, rcv, netVars, outcome, bf, received, kernelVars>>

(* The hash of a body is verified by the helper before the data object goes *)
(* to the data store.  (The branches for a bad signature and for bad data   *)
(* have no way in: neither gets a VERIFIED event.)                          *)
onVerifiedDataObject(k) ==
    /\ Event("VERIFIED", k) /\ NothingPosted
    /\ IF k.obj \in Empty
       THEN inserting' = Append(inserting, k) /\ UNCHANGED hashing
       ELSE hashing' = Append(hashing, k) /\ UNCHANGED inserting
    /\ UNCHANGED <<snd, rcv, netVars, outcome, bf, localBF, duplicate, signing,
                   stored, received>>

(* A body with a wrong hash is discarded, without a result.                 *)
DataHelper ==
    /\ hashing # <<>>
    /\ hashing' = Tail(hashing)
    /\ IF Head(hashing) \in received
       THEN addEvent("DATA_TASK_COMPLETE", Head(hashing))
       ELSE UNCHANGED events
    /\ UNCHANGED <<snd, rcv, netVars, outcome, bf, localBF, duplicate, signing,
                   inserting, stored, received>>

onDataTaskComplete(k) ==
    /\ Event("DATA_TASK_COMPLETE", k) /\ NothingPosted
    /\ inserting' = Append(inserting, k)
    /\ UNCHANGED <<snd, rcv, netVars, outcome, bf, localBF, duplicate, signing,
                   hashing, stored, received>>

(* The data store refuses a second copy as a duplicate.                     *)
InsertDataObject ==
    /\ inserting # <<>>
    /\ inserting' = Tail(inserting)
    /\ LET k == Head(inserting) IN
          IF \E s \in stored : s.obj = k.obj
          THEN duplicate' = duplicate \cup {k} /\ UNCHANGED stored
          ELSE stored' = stored \cup {k} /\ UNCHANGED duplicate
    /\ UNCHANGED <<snd, rcv, netVars, outcome, bf, localBF, events, signing,
                   hashing, received>>

Kernel ==
    \E k \in {e.copy : e \in Range(events)} :
        \/ onIncomingDataObject(k) \/ onReceivedDataObject(k)
        \/ onSecurityTaskComplete(k) \/ onVerifiedDataObject(k)
        \/ onDataTaskComplete(k)

Next ==
    \/ \E c \in Connections : Connect(c) \/ Sender(c) \/ ReceiverStep(c)
    \/ Kernel \/ SecurityHelper \/ DataHelper \/ InsertDataObject

Spec == Init /\ [][Next]_vars

(* The kernel thread and the data store thread are scheduled and take what  *)
(* is in their queues.  Nothing is assumed of the two helpers: they sleep   *)
(* in the plain GenericQueue::retrieve(), which can miss a wakeup.          *)
Fairness == WF_vars(Kernel) /\ WF_vars(InsertDataObject)

FairSpec == Spec /\ Fairness

-----------------------------------------------------------------------------
(* Properties.                                                              *)

(* Every variable keeps its type; in particular no more copies are made     *)
(* than data objects were sent.                                             *)
TypeOK ==
    /\ snd \in [Connections ->
          [pc : {"closed", "idle"} \cup SendStages,
           obj : DataObjects \cup {None}, left : 0..Chunks]]
    /\ rcv \in [Connections ->
          [pc : {"closed", "idle"} \cup ReceiveStages,
           obj : DataObjects \cup {None}, left : 0..Chunks, nr : 0..MaxSends,
           intact : BOOLEAN, numerr : 0..(MaxErrors + 1)]]
    /\ \A c \in Connections :
          /\ fwd[c] \in Seq([kind : {"header", "data"}, obj : DataObjects])
          /\ back[c] \in Seq([type : {"ACCEPT", "REJECT", "ACK"},
                              obj : DataObjects])
    /\ outcome \in [Connections ->
          [DataObjects -> {"none", "acked", "rejected", "failed"}]]
    /\ sends \in 0..MaxSends /\ copies \in 0..sends
    /\ disturbed \subseteq Connections
    /\ bf \subseteq DataObjects /\ localBF \subseteq DataObjects
    /\ duplicate \subseteq Copies /\ stored \subseteq Copies
    /\ received \subseteq Copies
    /\ events \in Seq([type : EventTypes, copy : Copies])
    /\ signing \in Seq(Copies) /\ hashing \in Seq(Copies)
    /\ inserting \in Seq(Copies)

(* This node has read the data object completely and unchanged from c.      *)
ReadFrom(c, d) == \E k \in received : k.conn = c /\ k.obj = d

(* A data object that the sender counts as acknowledged was received        *)
(* ("Returns: PROT_EVENT_SUCCESS on successful transmission",               *)
(* Protocol.h:618).                                                         *)
AckMeansReceived ==
    \A c \in Connections, d \in DataObjects :
        outcome[c][d] = "acked" => ReadFrom(c, d)

(* The same for every acknowledgement on a connection on which no send was  *)
(* given up half way since it was made: refusals, broken transfers, lost    *)
(* answers and errors of the receiver never make one answer serve for       *)
(* another data object.                                                     *)
AckedWhenReceived ==
    [][\A c \in Connections, d \in DataObjects :
          c \notin disturbed /\ outcome[c][d] # "acked"
              /\ outcome'[c][d] = "acked" => ReadFrom(c, d)]_vars

(* On such a connection the sender does not wait for the ACK while the      *)
(* receiver waits for more of the body (Protocol.cpp:1043, 755): both would *)
(* sit there until a timeout.                                               *)
NoMutualWait ==
    \A c \in Connections :
        /\ c \notin disturbed
        /\ snd[c].pc = "ack" /\ rcv[c].pc = "body"
        => back[c] # <<>> \/ fwd[c] # <<>>

(* The copies of a data object that are past the duplicate test.            *)
Accepted(k) ==
    \/ \E i \in DOMAIN events :
          events[i].copy = k /\ events[i].type \notin {"INCOMING", "RECEIVED"}
    \/ k \in Range(signing) \cup Range(hashing) \cup Range(inserting)
             \cup stored

(* However many neighbours send it at the same time, one copy of a data     *)
(* object at most is verified and inserted: the INCOMING event is handled   *)
(* before the RECEIVED event of the same copy, and marks the others as      *)
(* duplicates in time.                                                      *)
OneCopyAccepted ==
    \A k, l \in Copies : k.obj = l.obj /\ Accepted(k) /\ Accepted(l) => k = l

(* What is in the data store is in the filter that neighbours' offers are   *)
(* tested against, although the protocol threads add to that filter and the *)
(* data manager replaces it: no stored data object is accepted again.       *)
StoredIsKnown ==
    /\ localBF \subseteq bf
    /\ \A k \in stored : k.obj \in localBF

(* A copy that was received unchanged, is no duplicate and passes the       *)
(* verification of its signature gets into the data store or stays in the   *)
(* task queue of a helper that sleeps: no event and no filter drops it.     *)
ReceivedIsStored ==
    []<>(\A k \in received :
            \/ k.obj \in BadSignature
            \/ k \in stored \cup duplicate
            \/ k \in Range(signing) \cup Range(hashing))

(* Some copy of the data object is on its way into the data store.          *)
InProgress(d) ==
    \/ \E c \in Connections : rcv[c].obj = d /\ rcv[c].pc \in CopyStages
    \/ \E i \in DOMAIN events : events[i].copy.obj = d
    \/ \E k \in Range(signing) \cup Range(hashing) \cup Range(inserting) :
          k.obj = d

(* A rejected data object is one that this node has or is about to have:    *)
(* "Check if we already have this data object" (Protocol.cpp:818) and the   *)
(* sender's "the peer already has the data object" (Protocol.cpp:1154).     *)
RejectMeansHeld ==
    \A c \in Connections, d \in DataObjects :
        outcome[c][d] = "rejected"
            => (\E k \in stored : k.obj = d) \/ InProgress(d)
=============================================================================
