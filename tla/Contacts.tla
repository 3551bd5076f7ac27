------------------------------ MODULE Contacts ------------------------------
(***************************************************************************)
(* Neighbours that come and go: the interface store (InterfaceStore.cpp,    *)
(* ConnectivityManager.cpp), the node store (NodeStore.cpp,                 *)
(* NodeManager.cpp), the node table of the data store (SQLDataStore.cpp)    *)
(* and what the forwarding manager makes of contacts                        *)
(* (ForwardingManager.cpp).                                                 *)
(*                                                                          *)
(* One peer has several interfaces.  Connectivity threads report them up    *)
(* and dead; the kernel thread handles events in their order; the data      *)
(* store thread executes tasks in theirs.  A node that is not yet described *)
(* is undefined and has the interface it was found by; a description has    *)
(* all interfaces of the peer.                                              *)
(*                                                                          *)
(* Interfaces are objects that nodes, tasks, events and the interface store *)
(* share, so they have numbers here: whether an interface is up is a fact   *)
(* about the object.  Nodes have numbers for the same reason.               *)
(***************************************************************************)
EXTENDS Naturals, Sequences, FiniteSets

CONSTANTS
    Ifaces,           \* the interfaces of the peer
    MaxInputs         \* bound: interfaces reported and descriptions received

ASSUME ContactsConstants == IsFiniteSet(Ifaces) /\ MaxInputs \in Nat

VARIABLES
    inStore,   \* the interface store: an object, or 0, per interface
    up,        \* the interface objects that are up
    objects,   \* the number of interface objects made so far
    node,      \* all node objects made so far
    store,     \* the node store: the nodes in it
    known,     \* whether the peer is in the data store's node table
    tasks,     \* the data store's tasks
    events,    \* the kernel's events
    reached,   \* the interfaces whose first UP event was handled
    pending,   \* the peer's entries in pendingQueryList
    delayed,   \* its delayed query events
    linked,    \* whether the forwarding module was last told newNeighbor
    inputs,
    ghost      \* history: the described node in the store was not available
               \* when forwarding handled the update that described it

ifaceVars == <<inStore, objects>>
nodeVars == <<node, store>>
forwardingVars == <<pending, delayed, linked>>
counters == <<reached, inputs, ghost>>
vars == <<ifaceVars, up, nodeVars, known, tasks, events, forwardingVars,
          counters>>

ThirdParty == "third party"

(* A node: whether it is defined, and the objects of its interfaces.        *)
Node(defined, at) == [defined |-> defined, at |-> at]

hasInterface(n, i) == i \in DOMAIN n.at

isAvailable(n, upObjects) == \E i \in DOMAIN n.at : n.at[i] \in upObjects

(* Every node that is modelled is of a type that makes it a neighbour when  *)
(* it is available.                                                         *)
Neighbors == {n \in store : isAvailable(node[n], up)}

DescribedInStore == \E n \in store : node[n].defined

(* Events and tasks: the node (0 if there is none), the interface, its      *)
(* object, and a flag.                                                      *)
Item(type, n, i, o, flag) ==
    [type |-> type, node |-> n, iface |-> i, obj |-> o, flag |-> flag]

AboutNode(type, n, flag) == Item(type, n, ThirdParty, 0, flag)

Dispatch(type) == events # <<>> /\ Head(events).type = type

Event == Head(events)

-----------------------------------------------------------------------------
(* The connectivity threads.                                                *)

(* A new interface; for one that is stored only its policy is renewed.      *)
report_interface(i) ==
    /\ inStore[i] = 0 /\ inputs < MaxInputs
    /\ inputs' = inputs + 1 /\ objects' = objects + 1
    /\ inStore' = [inStore EXCEPT ![i] = objects']
    /\ up' = up \cup {objects'}
    /\ events' = Append(events, Item("UP", 0, i, objects', FALSE))
    /\ UNCHANGED <<nodeVars, known, tasks, forwardingVars, reached, ghost>>

(* It has aged, a send over it failed, or the local interface it was found  *)
(* by is gone.                                                              *)
report_dead(i) ==
    /\ inStore[i] # 0
    /\ up' = up \ {inStore[i]}
    /\ events' = Append(events, Item("DOWN", 0, i, inStore[i], FALSE))
    /\ inStore' = [inStore EXCEPT ![i] = 0]
    /\ UNCHANGED <<objects, nodeVars, known, tasks, forwardingVars, counters>>

-----------------------------------------------------------------------------
(* The node store.  nodes is the heap of node objects.                      *)

(* Seeded fault: the search stops at the first match.                       *)
OverlappingOne(nodes, n) ==
    LET All == {r \in store : DOMAIN nodes[r].at \cap DOMAIN nodes[n].at # {}}
    IN  IF All = {} THEN {} ELSE {CHOOSE r \in All : TRUE}

(* The records that update() replaces by node n.                            *)
Overlapping(nodes, n) ==
    {r \in store : DOMAIN nodes[r].at \cap DOMAIN nodes[n].at # {}}

(* Their interfaces that are up are set up in n.                            *)
Transferred(nodes, n) ==
    {nodes[n].at[i] : i \in {j \in DOMAIN nodes[n].at :
        \E r \in Overlapping(nodes, n) :
            hasInterface(nodes[r], j) /\ nodes[r].at[j] \in up}}

(* update(), which does the rest when it finds records, or else add().      *)
PutInStore(nodes, n) == store' = (store \ Overlapping(nodes, n)) \cup {n}

-----------------------------------------------------------------------------
(* The node manager.                                                        *)

(* A neighbour has it already, or the data store is asked who has it.       *)
onNeighborInterfaceUp ==
    /\ Dispatch("UP")
    /\ LET i == Event.iface
           neigh == {n \in Neighbors : hasInterface(node[n], i)}
       IN  /\ IF neigh = {}
              THEN /\ tasks' = Append(tasks, Item("RETRIEVE_NODE", 0, i,
                                                  Event.obj, TRUE))
                   /\ UNCHANGED up
              ELSE /\ up' = up \cup {node[n].at[i] : n \in neigh}
                   /\ UNCHANGED tasks
           /\ reached' = reached \cup {i}
    /\ events' = Tail(events)
    /\ UNCHANGED <<ifaceVars, nodeVars, known, forwardingVars, inputs, ghost>>

(* The answer: a node of the node table, or the interface again, for which  *)
(* an undefined node is made.                                               *)
onRetrieveNode ==
    /\ Dispatch("retrieved")
    /\ LET nodes == IF Event.node # 0 THEN node
                    ELSE Append(node, Node(FALSE, [j \in {Event.iface} |-> Event.obj]))
           n == IF Event.node # 0 THEN Event.node ELSE Len(nodes)
       IN  /\ node' = nodes
           /\ PutInStore(nodes, n)
           /\ up' = up \cup Transferred(nodes, n)
           /\ events' = Append(Tail(events), AboutNode("NEW", n, FALSE))
    /\ ghost' = (ghost /\ DescribedInStore')
    /\ UNCHANGED <<ifaceVars, known, tasks, forwardingVars, reached, inputs>>

(* The node with the interface loses it, and its place when it has no other *)
(* interface that is up.                                                    *)
onNeighborInterfaceDown ==
    /\ Dispatch("DOWN")
    /\ LET i == Event.iface
           owner == {n \in store : hasInterface(node[n], i)}
           left == up \ {node[n].at[i] : n \in owner}
           lost == {n \in owner : ~isAvailable(node[n], left)}
       IN  /\ up' = left
           /\ store' = store \ lost
           /\ IF lost = {}
              THEN events' = Tail(events) /\ UNCHANGED tasks
              ELSE LET n == CHOOSE n \in lost : TRUE
                   IN  /\ tasks' = Append(tasks, AboutNode("INSERT_NODE", n, FALSE))
                       /\ events' = Append(Tail(events), AboutNode("END", n, FALSE))
    /\ UNCHANGED <<ifaceVars, node, known, forwardingVars, reached, inputs>>
    /\ ghost' = (ghost /\ DescribedInStore')

(* A description of the peer was received from it, over an interface that   *)
(* was reported before (onIncomingDataObject of the connectivity manager    *)
(* reports it otherwise), or from a third party.  It was verified, and is   *)
(* inserted into the data store, whose filters raise the next event.        *)
onVerifiedDescription(i) ==
    /\ inputs < MaxInputs /\ inputs' = inputs + 1
    /\ i \in reached \cup {ThirdParty}
    /\ tasks' = Append(tasks, Item("INSERT_DATAOBJECT", 0, i, 0, FALSE))
    /\ UNCHANGED <<ifaceVars, up, nodeVars, known, events, forwardingVars,
                   reached, ghost>>

(* The node of a description, with interfaces of its own.                   *)
Described == Node(TRUE, CHOOSE at \in [Ifaces -> (objects + 1)..(objects + Cardinality(Ifaces))] :
                            \A i, j \in Ifaces : i # j => at[i] # at[j])

(* nodeUpdate: the node takes the place of others in the store, or is added *)
(* when an interface is known to be up; all are told.                       *)
nodeUpdate(nodes, n, upObjects) ==
    LET replaced == Overlapping(nodes, n)
        synced == upObjects \cup {nodes[n].at[i] : i \in {j \in Ifaces : inStore[j] # 0}}
    IN  IF replaced # {}
        THEN /\ up' = upObjects \cup Transferred(nodes, n)
             /\ PutInStore(nodes, n)
             /\ events' = Append(Tail(events), AboutNode("UPDATED", n,
                                 \E r \in replaced : ~nodes[r].defined))
        ELSE /\ up' = synced
             /\ IF isAvailable(nodes[n], synced)
                THEN /\ PutInStore(nodes, n)
                     /\ events' = Tail(events) \o <<AboutNode("NEW", n, FALSE),
                                                    AboutNode("UPDATED", n, FALSE)>>
                ELSE /\ events' = Append(Tail(events), AboutNode("UPDATED", n, FALSE))
                     /\ UNCHANGED store

(* From the peer itself: the interface it came over is up.  (A description  *)
(* that is not newer than the neighbour's is ignored, which is no step.)    *)
onReceiveNodeDescription ==
    /\ Dispatch("DESCRIPTION") /\ Event.iface # ThirdParty
    /\ node' = Append(node, Described)
    /\ objects' = objects + Cardinality(Ifaces)
    /\ tasks' = Append(tasks, AboutNode("INSERT_NODE", Len(node'), FALSE))
    /\ nodeUpdate(node', Len(node'), up \cup {Described.at[Event.iface]})
    /\ UNCHANGED <<inStore, known, forwardingVars, counters>>

(* From a third party: ignored when the peer is a neighbour, and otherwise  *)
(* inserted first, to be merged with what the data store has.               *)
onReceiveThirdParty ==
    /\ Dispatch("DESCRIPTION") /\ Event.iface = ThirdParty
    /\ IF Neighbors # {}
       THEN UNCHANGED <<node, objects, tasks>>
       ELSE /\ node' = Append(node, Described)
            /\ objects' = objects + Cardinality(Ifaces)
            /\ tasks' = Append(tasks, AboutNode("INSERT_NODE", Len(node'), TRUE))
    /\ events' = Tail(events)
    /\ UNCHANGED <<inStore, up, store, known, forwardingVars, counters>>

onInsertedNode ==
    /\ Dispatch("inserted")
    /\ nodeUpdate(node, Event.node, up)
    /\ UNCHANGED <<ifaceVars, node, known, tasks, forwardingVars, counters>>

-----------------------------------------------------------------------------
(* The data store thread.                                                   *)

(* createNode: the peer's node is the one in the node store, if it is       *)
(* there, or a new one; its interfaces become those of the interface store, *)
(* or new ones, which are down.                                             *)
InTable == {n \in store : node[n].defined}

Retrieved == [i \in Ifaces |-> IF inStore[i] # 0 THEN inStore[i] ELSE Described.at[i]]

createNode(n) ==
    /\ node' = IF n \in InTable THEN [node EXCEPT ![n].at = Retrieved]
               ELSE Append(node, Node(TRUE, Retrieved))
    /\ objects' = objects + Cardinality(Ifaces)

(* Seeded fault: no answer when the interface is unknown.                   *)
UnknownInterfaceSilent(t) == events

(* forceCallback: the interface is the answer.                              *)
UnknownInterface(t) == Append(events, Item("retrieved", 0, t.iface, t.obj, FALSE))

_retrieveNode ==
    /\ tasks # <<>> /\ Head(tasks).type = "RETRIEVE_NODE"
    /\ tasks' = Tail(tasks)
    /\ IF known
       THEN LET n == IF InTable # {} THEN CHOOSE n \in InTable : TRUE
                     ELSE Len(node) + 1
            IN  /\ createNode(n)
                /\ up' = IF Head(tasks).obj \in up
                         THEN up \cup {Retrieved[Head(tasks).iface]} ELSE up
                /\ events' = Append(events, AboutNode("retrieved", n, FALSE))
       ELSE /\ events' = UnknownInterface(Head(tasks))
            /\ UNCHANGED <<node, objects, up>>
    /\ UNCHANGED <<inStore, store, known, forwardingVars, counters>>

(* Undefined nodes are not inserted.  With a callback the filters of the    *)
(* old and the new node are merged, for which the old one is created.       *)
_insertNode ==
    /\ tasks # <<>> /\ Head(tasks).type = "INSERT_NODE"
    /\ tasks' = Tail(tasks)
    /\ known' = (known \/ node[Head(tasks).node].defined)
    /\ IF Head(tasks).flag /\ known /\ InTable # {}
       THEN createNode(CHOOSE n \in InTable : TRUE)
       ELSE UNCHANGED <<node, objects>>
    /\ events' = IF Head(tasks).flag
                 THEN Append(events, AboutNode("inserted", Head(tasks).node, FALSE))
                 ELSE events
    /\ UNCHANGED <<inStore, up, store, forwardingVars, counters>>

(* The filter for node descriptions matches.                                *)
_insertDataObject ==
    /\ tasks # <<>> /\ Head(tasks).type = "INSERT_DATAOBJECT"
    /\ tasks' = Tail(tasks)
    /\ events' = Append(events, Item("DESCRIPTION", 0, Head(tasks).iface, 0, FALSE))
    /\ UNCHANGED <<ifaceVars, up, nodeVars, known, forwardingVars, counters>>

-----------------------------------------------------------------------------
(* The forwarding manager, for the peer.  Undefined nodes are none of its   *)
(* business.                                                                *)

(* One of the k entries for the peer, if there is one, is erased.           *)
Erase(k) == IF k > 0 THEN k - 1 ELSE 0

Handled ==
    /\ events' = Tail(events)
    /\ UNCHANGED <<ifaceVars, up, nodeVars, known, tasks, reached, inputs>>

(* Seeded fault: the entry is made, and the event not scheduled.            *)
onNewNeighborUnscheduled ==
    /\ Dispatch("NEW") /\ Handled /\ UNCHANGED ghost
    /\ IF node[Event.node].defined
       THEN /\ linked' = TRUE /\ pending' = pending + 1
            /\ UNCHANGED delayed
       ELSE UNCHANGED forwardingVars

(* The query is delayed, as a description may come.                         *)
onNewNeighbor ==
    /\ Dispatch("NEW") /\ Handled /\ UNCHANGED ghost
    /\ IF node[Event.node].defined
       THEN /\ linked' = TRUE
            /\ pending' = pending + 1 /\ delayed' = delayed + 1
       ELSE UNCHANGED forwardingVars

(* One entry is removed.                                                    *)
onEndNeighbor ==
    /\ Dispatch("END") /\ Handled /\ UNCHANGED ghost
    /\ IF node[Event.node].defined
       THEN linked' = FALSE /\ pending' = Erase(pending) /\ UNCHANGED delayed
       ELSE UNCHANGED forwardingVars

(* Seeded fault: the nodes that were replaced are not looked at.            *)
onNodeUpdatedOnly ==
    /\ Dispatch("UPDATED") /\ Handled
    /\ pending' = Erase(pending)
    /\ UNCHANGED <<linked, delayed, ghost>>

(* The node is a new neighbour if it replaced an undefined one; it is       *)
(* queried for now, and one entry is removed.                               *)
onNodeUpdated ==
    /\ Dispatch("UPDATED") /\ Handled
    /\ LET neighbor == isAvailable(node[Event.node], up)
       IN  /\ linked' = (linked \/ (Event.flag /\ neighbor))
           /\ ghost' = (ghost \/ (Event.flag /\ ~neighbor /\ DescribedInStore))
    /\ pending' = Erase(pending)
    /\ UNCHANGED delayed

(* An entry that is left is erased, and the query made.                     *)
onDelayedDataObjectQuery ==
    /\ delayed > 0 /\ delayed' = delayed - 1
    /\ pending' = Erase(pending)
    /\ UNCHANGED <<ifaceVars, up, nodeVars, known, tasks, events, linked,
                   counters>>

-----------------------------------------------------------------------------
Init ==
    /\ inStore = [i \in Ifaces |-> 0] /\ up = {} /\ objects = 0
    /\ node = <<>> /\ store = {}
    /\ known \in BOOLEAN
    /\ tasks = <<>> /\ events = <<>>
    /\ pending = 0 /\ delayed = 0 /\ linked = FALSE
    /\ reached = {} /\ inputs = 0 /\ ghost = FALSE

Connectivity == \E i \in Ifaces : report_interface(i) \/ report_dead(i)

Kernel ==
    \/ onNeighborInterfaceUp \/ onRetrieveNode \/ onNeighborInterfaceDown
    \/ onReceiveNodeDescription \/ onReceiveThirdParty \/ onInsertedNode
    \/ onNewNeighbor \/ onEndNeighbor \/ onNodeUpdated

Store == _retrieveNode \/ _insertNode \/ _insertDataObject

Next ==
    \/ Connectivity \/ Kernel \/ Store
    \/ onDelayedDataObjectQuery
    \/ \E i \in Ifaces \cup {ThirdParty} : onVerifiedDescription(i)

(* The kernel thread, the data store thread and the kernel's timers run.    *)
Spec ==
    /\ Init /\ [][Next]_vars
    /\ WF_vars(Kernel) /\ WF_vars(Store) /\ WF_vars(onDelayedDataObjectQuery)

-----------------------------------------------------------------------------
(* Properties.                                                              *)

Types == {"UP", "DOWN", "retrieved", "inserted", "DESCRIPTION", "NEW", "END",
          "UPDATED", "RETRIEVE_NODE", "INSERT_NODE", "INSERT_DATAOBJECT"}

Items == [type : Types, node : Nat, iface : Ifaces \cup {ThirdParty},
          obj : Nat, flag : BOOLEAN]

(* Every variable keeps its type, and every reference is to an object that  *)
(* exists.                                                                  *)
TypeOK ==
    /\ inStore \in [Ifaces -> 0..objects] /\ up \subseteq 1..objects
    /\ \A n \in 1..Len(node) : /\ node[n].defined \in BOOLEAN
                               /\ node[n].at \in [DOMAIN node[n].at -> 1..objects]
                               /\ DOMAIN node[n].at \subseteq Ifaces
    /\ store \subseteq 1..Len(node) /\ known \in BOOLEAN
    /\ tasks \in Seq(Items) /\ events \in Seq(Items)
    /\ \A k \in 1..Len(tasks) : tasks[k].node <= Len(node)
    /\ \A k \in 1..Len(events) : events[k].node <= Len(node)
    /\ pending \in Nat /\ delayed \in Nat /\ linked \in BOOLEAN
    /\ reached \subseteq Ifaces
    /\ inputs \in 0..MaxInputs /\ ghost \in BOOLEAN

(* No interface belongs to two records of the node store, whatever the      *)
(* order in which interfaces, answers of the data store and descriptions    *)
(* arrive (NodeStore::update, onRetrieveNode, nodeUpdate).                  *)
OneRecordPerInterface ==
    \A m, n \in store : m # n => DOMAIN node[m].at \cap DOMAIN node[n].at = {}

(* Every entry of pendingQueryList has an event to come that takes it out,  *)
(* so the list does not grow with the contacts (onNewNeighbor,              *)
(* onDelayedDataObjectQuery).                                               *)
PendingHasTimer == pending <= delayed

Queued(types) == \E k \in 1..Len(events) : events[k].type \in types

(* A described neighbour is known to the forwarding module, or an event is  *)
(* queued that will tell: also when it replaced an undefined node, came     *)
(* back while its end was queued, or was given other interfaces by the data *)
(* store thread (onNewNeighbor, onNodeUpdated, createNode).  The exception  *)
(* is ghost: the description replaced an undefined node, and its interfaces *)
(* were gone when onNodeUpdated looked.  The node stays in the store, and   *)
(* may become a neighbour through the interfaces that createNode gives it,  *)
(* without any event, until no described node is in the store any more.     *)
NeighborIsTold ==
    (\E n \in Neighbors : node[n].defined) =>
        ghost \/ linked \/ Queued({"NEW", "UPDATED", "retrieved"})

(* Every interface that is reported finds its node, if only an undefined    *)
(* one: a neighbour has it, or the data store is asked and answers in every *)
(* case (onNeighborInterfaceUp, onRetrieveNode).                            *)
InterfaceFindsNode ==
    \A i \in Ifaces :
        (\E k \in 1..Len(events) : events[k].type = "UP" /\ events[k].iface = i)
            ~> \E n \in store : hasInterface(node[n], i)

(* "we only generate a node up event when we know we have the best          *)
(* information for the node" (onNeighborInterfaceUp): a described neighbour *)
(* is not replaced by an undefined one.                                     *)
BestInformation ==
    [][\A n \in Neighbors, m \in store' \ store :
          node[n].defined /\ ~node'[m].defined
            => DOMAIN node[n].at \cap DOMAIN node'[m].at = {}]_vars

(* "Also remove from pending query list so that onDelayedDataObjectQuery    *)
(* won't generate a delayed query after the node went away"                 *)
(* (onEndNeighbor).                                                         *)
NoQueryAfterEnd == pending > 0 => linked
=============================================================================
