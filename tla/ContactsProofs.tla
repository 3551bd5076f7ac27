--------------------------- MODULE ContactsProofs ---------------------------
(***************************************************************************)
(* Proofs about Contacts, for any finite set of interfaces and any number   *)
(* of interfaces reported and descriptions received.                        *)
(***************************************************************************)
EXTENDS Contacts, TLAPS, FiniteSetTheorems

(***************************************************************************)
(* The inductive invariant: the types, with what the references of events   *)
(* and tasks are to.                                                        *)
(***************************************************************************)

(* Node objects when there are o interface objects: a description has all   *)
(* interfaces.                                                              *)
NodeObjects(o) ==
    {x \in [defined : BOOLEAN, at : UNION {[D -> 1..o] : D \in SUBSET Ifaces}] :
        x.defined => DOMAIN x.at = Ifaces}

Defined == {n \in 1..Len(node) : node[n].defined}

(* Events and tasks whose references are to one of k nodes, of which D are  *)
(* defined, and to one of o interface objects.                              *)
Refs(k, D, o) ==
    {x \in Items :
        /\ x.node \in 0..k
        /\ x.type \in {"UP", "DOWN", "RETRIEVE_NODE"}
              => x.iface \in Ifaces /\ x.obj \in 1..o
        /\ x.type \in {"NEW", "END", "UPDATED", "INSERT_NODE"} => x.node # 0
        /\ x.type = "inserted" \/ (x.type = "INSERT_NODE" /\ x.flag)
              => x.node \in D
        /\ x.type = "retrieved" /\ x.node = 0
              => x.iface \in Ifaces /\ x.obj \in 1..o
        /\ x.type = "retrieved" /\ x.node # 0 => x.node \in D}

Heap ==
    /\ objects \in Nat /\ node \in Seq(NodeObjects(objects))
    /\ inStore \in [Ifaces -> 0..objects]
    /\ up \subseteq 1..objects /\ store \subseteq 1..Len(node)

Lists ==
    /\ tasks \in Seq(Refs(Len(node), Defined, objects))
    /\ events \in Seq(Refs(Len(node), Defined, objects))

Rest ==
    /\ known \in BOOLEAN /\ linked \in BOOLEAN /\ ghost \in BOOLEAN
    /\ pending \in Nat /\ delayed \in Nat /\ pending <= delayed
    /\ reached \subseteq Ifaces /\ inputs \in 0..MaxInputs

IInv == Heap /\ Lists /\ Rest /\ OneRecordPerInterface

-----------------------------------------------------------------------------
(***************************************************************************)
(* The interfaces of a description                                          *)
(***************************************************************************)

(* There are enough new numbers for the interfaces.                         *)
LEMMA DescribedType ==
    ASSUME objects \in Nat
    PROVE  /\ Cardinality(Ifaces) \in Nat
           /\ Described.at \in
                 [Ifaces -> (objects + 1)..(objects + Cardinality(Ifaces))]
           /\ Described.defined = TRUE /\ Described = Node(TRUE, Described.at)
<1> DEFINE c == Cardinality(Ifaces)
           F == [Ifaces -> (objects + 1)..(objects + c)]
           P(at) == \A i, j \in Ifaces : i # j => at[i] # at[j]
<1>1. IsFiniteSet(Ifaces)
    BY ContactsConstants
<1>2. c \in Nat
    BY <1>1, FS_CardinalityType
<1>3. PICK f \in Bijection(1..c, Ifaces) : TRUE
    BY <1>1, FS_CardinalityType DEF ExistsBijection
<1>4. /\ f \in [1..c -> Ifaces]
      /\ \A i \in Ifaces : \E k \in 1..c : f[k] = i
    BY <1>3 DEF Bijection, Injection, Surjection
<1> DEFINE at == [i \in Ifaces |-> objects + (CHOOSE k \in 1..c : f[k] = i)]
<1>5. \A i \in Ifaces : /\ (CHOOSE k \in 1..c : f[k] = i) \in 1..c
                        /\ f[CHOOSE k \in 1..c : f[k] = i] = i
    BY <1>4
<1>6. at \in F
    BY <1>2, <1>5
<1>7. P(at)
  <2> SUFFICES ASSUME NEW i \in Ifaces, NEW j \in Ifaces, at[i] = at[j]
               PROVE  i = j
      OBVIOUS
  <2> DEFINE x == CHOOSE k \in 1..c : f[k] = i
             y == CHOOSE k \in 1..c : f[k] = j
  <2>1. x \in 1..c /\ y \in 1..c /\ f[x] = i /\ f[y] = j
      BY <1>5
  <2>2. objects + x = objects + y
      OBVIOUS
  <2> HIDE DEF x, y
  <2>3. x = y
      BY <1>2, <2>1, <2>2
  <2> QED
      BY <2>1, <2>3
<1> HIDE DEF at
<1>8. (CHOOSE a \in F : P(a)) \in F
    BY <1>6, <1>7
<1>9. Described = Node(TRUE, CHOOSE a \in F : P(a))
    BY DEF Described
<1> HIDE DEF F, P
<1>10. Described.at = (CHOOSE a \in F : P(a)) /\ Described.defined = TRUE
    BY <1>9 DEF Node
<1>11. Described.at \in F
    BY <1>8, <1>10
<1> QED
    BY <1>2, <1>9, <1>10, <1>11 DEF F

LEMMA RetrievedType ==
    ASSUME objects \in Nat, inStore \in [Ifaces -> 0..objects]
    PROVE  Retrieved \in [Ifaces -> 1..(objects + Cardinality(Ifaces))]
<1>1. ASSUME NEW i \in Ifaces
      PROVE  (IF inStore[i] # 0 THEN inStore[i] ELSE Described.at[i])
                \in 1..(objects + Cardinality(Ifaces))
  <2>1. /\ Cardinality(Ifaces) \in Nat
        /\ Described.at[i] \in (objects + 1)..(objects + Cardinality(Ifaces))
      BY DescribedType
  <2>2. inStore[i] \in 0..objects
      OBVIOUS
  <2> QED
      BY <2>1, <2>2
<1> QED
    BY <1>1 DEF Retrieved

-----------------------------------------------------------------------------
(***************************************************************************)
(* The heap grows                                                           *)
(***************************************************************************)

(* What every step keeps: objects stay, and so does what is known of them.  *)
Grows ==
    /\ objects' \in Nat /\ objects <= objects'
    /\ node' \in Seq(NodeObjects(objects')) /\ Len(node) <= Len(node')
    /\ \A r \in 1..Len(node) :
          /\ node'[r].defined <=> node[r].defined
          /\ DOMAIN node'[r].at = DOMAIN node[r].at

LEMMA NodeObjectsGrow ==
    ASSUME NEW o \in Nat, NEW p \in Nat, o <= p
    PROVE  NodeObjects(o) \subseteq NodeObjects(p)
<1>1. 1..o \subseteq 1..p
    OBVIOUS
<1>2. ASSUME NEW D \in SUBSET Ifaces, NEW f \in [D -> 1..o]
      PROVE  f \in [D -> 1..p]
    BY <1>1
<1>3. UNION {[D -> 1..o] : D \in SUBSET Ifaces}
        \subseteq UNION {[D -> 1..p] : D \in SUBSET Ifaces}
    BY <1>2
<1> QED
    BY <1>3 DEF NodeObjects

LEMMA ANode ==
    ASSUME NEW o \in Nat, NEW d \in BOOLEAN, NEW D \in SUBSET Ifaces,
           NEW at \in [D -> 1..o], d => D = Ifaces
    PROVE  Node(d, at) \in NodeObjects(o)
BY DEF Node, NodeObjects

LEMMA UnchangedGrows ==
    ASSUME Heap, UNCHANGED <<node, objects>>
    PROVE  Grows
BY DEF Heap, Grows

LEMMA SameNodesGrow ==
    ASSUME Heap, objects' \in Nat, objects <= objects', UNCHANGED node
    PROVE  Grows
<1>1. NodeObjects(objects) \subseteq NodeObjects(objects')
    BY NodeObjectsGrow DEF Heap
<1>2. node' \in Seq(NodeObjects(objects'))
    BY <1>1 DEF Heap
<1> QED
    BY <1>2 DEF Heap, Grows

LEMMA AppendGrows ==
    ASSUME Heap, objects' \in Nat, objects <= objects',
           NEW x \in NodeObjects(objects'), node' = Append(node, x)
    PROVE  Grows /\ Len(node') = Len(node) + 1 /\ node'[Len(node) + 1] = x
<1>1. NodeObjects(objects) \subseteq NodeObjects(objects')
    BY NodeObjectsGrow DEF Heap
<1>2. node \in Seq(NodeObjects(objects'))
    BY <1>1 DEF Heap
<1>3. /\ node' \in Seq(NodeObjects(objects')) /\ Len(node') = Len(node) + 1
      /\ Len(node) \in Nat
      /\ \A r \in 1..Len(node) : node'[r] = node[r]
      /\ node'[Len(node) + 1] = x
    BY <1>2
<1> QED
    BY <1>3 DEF Grows

LEMMA OverwriteGrows ==
    ASSUME Heap, objects' \in Nat, objects <= objects', NEW n \in Defined,
           NEW at \in [Ifaces -> 1..objects'],
           node' = [node EXCEPT ![n].at = at]
    PROVE  Grows /\ Len(node') = Len(node)
<1>1. NodeObjects(objects) \subseteq NodeObjects(objects')
    BY NodeObjectsGrow DEF Heap
<1>2. node \in Seq(NodeObjects(objects')) /\ Len(node) \in Nat
    BY <1>1 DEF Heap
<1>3. n \in 1..Len(node) /\ node[n].defined
    BY DEF Defined
<1>4. node[n] \in NodeObjects(objects')
    BY <1>2, <1>3
<1>5. node[n].defined = TRUE /\ DOMAIN node[n].at = Ifaces
    BY <1>3, <1>4 DEF NodeObjects
<1> DEFINE x == [node[n] EXCEPT !.at = at]
<1>6. /\ at \in UNION {[D -> 1..objects'] : D \in SUBSET Ifaces}
      /\ DOMAIN at = Ifaces
    OBVIOUS
<1>7. x \in NodeObjects(objects') /\ x.defined /\ DOMAIN x.at = Ifaces
  <2>1. x.at = at /\ x.defined = node[n].defined
      BY <1>4 DEF NodeObjects
  <2>2. x \in [defined : BOOLEAN,
               at : UNION {[D -> 1..objects'] : D \in SUBSET Ifaces}]
      BY <1>4, <1>6 DEF NodeObjects
  <2> HIDE DEF x
  <2> QED
      BY <1>3, <1>6, <2>1, <2>2 DEF NodeObjects
<1>8. node' = [node EXCEPT ![n] = x]
    OBVIOUS
<1> HIDE DEF x
<1>9. /\ node' \in Seq(NodeObjects(objects')) /\ Len(node') = Len(node)
      /\ node'[n] = x /\ \A r \in 1..Len(node) : r # n => node'[r] = node[r]
    BY <1>2, <1>3, <1>7, <1>8
<1> QED
    BY <1>2, <1>3, <1>5, <1>7, <1>9 DEF Grows

(* References stay good ones.                                               *)
LEMMA ListsGrow ==
    ASSUME Heap, Lists, Grows
    PROVE  /\ tasks \in Seq(Refs(Len(node'), Defined', objects'))
           /\ events \in Seq(Refs(Len(node'), Defined', objects'))
           /\ store \subseteq 1..Len(node') /\ up \subseteq 1..objects'
           /\ inStore \in [Ifaces -> 0..objects']
<1>1. Len(node) \in Nat /\ Len(node') \in Nat /\ objects \in Nat
    BY DEF Heap, Grows
<1>2. Defined \subseteq Defined'
    BY <1>1 DEF Defined, Grows
<1>3. 1..Len(node) \subseteq 1..Len(node') /\ 1..objects \subseteq 1..objects'
      /\ 0..Len(node) \subseteq 0..Len(node') /\ 0..objects \subseteq 0..objects'
    BY <1>1 DEF Grows
<1>4. Refs(Len(node), Defined, objects) \subseteq Refs(Len(node'), Defined', objects')
    BY <1>2, <1>3 DEF Refs
<1>5. /\ tasks \in Seq(Refs(Len(node'), Defined', objects'))
      /\ events \in Seq(Refs(Len(node'), Defined', objects'))
    BY <1>4 DEF Lists
<1> QED
    BY <1>3, <1>5 DEF Heap
(* An interface of a node is an object.                                     *)
LEMMA AtType ==
    ASSUME NEW o \in Nat, NEW nodes \in Seq(NodeObjects(o)),
           NEW n \in 1..Len(nodes), NEW i \in DOMAIN nodes[n].at
    PROVE  nodes[n].at[i] \in 1..o
<1>1. nodes[n] \in NodeObjects(o)
    OBVIOUS
<1>2. nodes[n].at \in UNION {[D -> 1..o] : D \in SUBSET Ifaces}
    BY <1>1 DEF NodeObjects
<1> QED
    BY <1>2

(***************************************************************************)
(* Events and tasks                                                         *)
(***************************************************************************)
NewRefs == Refs(Len(node'), Defined', objects')

LEMMA ItemRef ==
    ASSUME NEW k \in Nat, NEW D, NEW o \in Nat,
           NEW type \in Types, NEW n \in 0..k,
           NEW i \in Ifaces \cup {ThirdParty}, NEW ob \in Nat,
           NEW flag \in BOOLEAN,
           type \in {"UP", "DOWN", "RETRIEVE_NODE"} =>
               i \in Ifaces /\ ob \in 1..o,
           type \in {"NEW", "END", "UPDATED", "INSERT_NODE"} => n # 0,
           type = "inserted" \/ (type = "INSERT_NODE" /\ flag) => n \in D,
           type = "retrieved" /\ n = 0 => i \in Ifaces /\ ob \in 1..o,
           type = "retrieved" /\ n # 0 => n \in D
    PROVE  Item(type, n, i, ob, flag) \in Refs(k, D, o)
<1> DEFINE x == Item(type, n, i, ob, flag)
<1>1. x \in Items
    BY DEF Item, Items
<1>2. x.type = type /\ x.node = n /\ x.iface = i /\ x.obj = ob /\ x.flag = flag
    BY DEF Item
<1> HIDE DEF x
<1>3. x \in Refs(k, D, o)
    BY <1>1, <1>2 DEF Refs
<1> QED
    BY <1>3 DEF x

(* An item about an interface.                                              *)
LEMMA IfaceRef ==
    ASSUME NEW k \in Nat, NEW D, NEW o \in Nat,
           NEW type \in {"UP", "DOWN", "RETRIEVE_NODE"},
           NEW i \in Ifaces, NEW ob \in 1..o, NEW flag \in BOOLEAN
    PROVE  Item(type, 0, i, ob, flag) \in Refs(k, D, o)
<1>1. /\ type \in Types /\ 0 \in 0..k /\ ob \in Nat /\ type # "inserted"
      /\ type # "retrieved"
      /\ type \notin {"NEW", "END", "UPDATED", "INSERT_NODE"}
    BY DEF Types
<1> QED
    BY <1>1, ItemRef

(* An item about a node.                                                    *)
LEMMA NodeRef ==
    ASSUME NEW k \in Nat, NEW D, NEW o \in Nat,
           NEW type \in {"NEW", "END", "UPDATED", "INSERT_NODE", "inserted",
                         "retrieved"},
           NEW n \in 1..k, NEW flag \in BOOLEAN,
           type = "inserted" \/ (type = "INSERT_NODE" /\ flag) => n \in D,
           type = "retrieved" => n \in D
    PROVE  AboutNode(type, n, flag) \in Refs(k, D, o)
<1>1. type \in Types /\ n \in 0..k /\ n # 0 /\ type \notin {"UP", "DOWN", "RETRIEVE_NODE"}
    BY DEF Types
<1>2. Item(type, n, ThirdParty, 0, flag) \in Refs(k, D, o)
    BY <1>1, ItemRef
<1> QED
    BY <1>2 DEF AboutNode

(* The first element of a list, and its rest.                               *)
LEMMA FirstRef ==
    ASSUME NEW S, NEW l \in Seq(S), l # <<>>
    PROVE  Head(l) \in S /\ Tail(l) \in Seq(S)
OBVIOUS

LEMMA AppendRef ==
    ASSUME NEW S, NEW l \in Seq(S), NEW x \in S
    PROVE  Append(l, x) \in Seq(S)
OBVIOUS

LEMMA Sizes ==
    ASSUME Heap
    PROVE  Len(node) \in Nat /\ objects \in Nat /\ Defined \subseteq 1..Len(node)
BY DEF Heap, Defined

LEMMA NewSizes ==
    ASSUME Grows
    PROVE  /\ Len(node') \in Nat /\ objects' \in Nat
           /\ Defined' \subseteq 1..Len(node')
BY DEF Grows, Defined

-----------------------------------------------------------------------------
(***************************************************************************)
(* One record per interface                                                 *)
(***************************************************************************)
LEMMA FewerKeepOne ==
    ASSUME Heap, Grows, OneRecordPerInterface, store' \subseteq store
    PROVE  OneRecordPerInterface'
<1>1. \A r \in store : DOMAIN node'[r].at = DOMAIN node[r].at
    BY DEF Heap, Grows
<1> QED
    BY <1>1 DEF OneRecordPerInterface

(* The records that the new one overlaps with give way.                     *)
LEMMA PutKeepsOne ==
    ASSUME Heap, Grows, OneRecordPerInterface, NEW nodes, nodes = node',
           NEW n \in 1..Len(node'), PutInStore(nodes, n)
    PROVE  OneRecordPerInterface' /\ store' \subseteq 1..Len(node')
<1>1. \A r \in store : DOMAIN node'[r].at = DOMAIN node[r].at
    BY DEF Heap, Grows
<1>2. store' = (store \ {r \in store :
                   DOMAIN node'[r].at \cap DOMAIN node'[n].at # {}}) \cup {n}
    BY DEF PutInStore, Overlapping
<1>3. store' \subseteq 1..Len(node')
  <2>1. Len(node) <= Len(node') /\ store \subseteq 1..Len(node)
      BY DEF Heap, Grows
  <2>2. store \subseteq 1..Len(node')
      BY <2>1, Sizes, NewSizes
  <2> QED
      BY <1>2, <2>2
<1>4. ASSUME NEW x \in store', NEW y \in store', x # y
      PROVE  DOMAIN node'[x].at \cap DOMAIN node'[y].at = {}
  <2>1. CASE x = n \/ y = n
      BY <1>2, <1>4, <2>1
  <2>2. CASE x # n /\ y # n
      BY <1>1, <1>2, <1>4, <2>2 DEF OneRecordPerInterface
  <2> QED
      BY <2>1, <2>2
<1> QED
    BY <1>3, <1>4 DEF OneRecordPerInterface

(* What is set up in the new record are its objects.                        *)
LEMMA TransferredType ==
    ASSUME NEW o \in Nat, NEW nodes \in Seq(NodeObjects(o)),
           NEW n \in 1..Len(nodes)
    PROVE  Transferred(nodes, n) \subseteq 1..o
BY AtType DEF Transferred

LEMMA NodeUpdateStep ==
    ASSUME Heap, Lists, Grows, OneRecordPerInterface, events # <<>>,
           NEW nodes, nodes = node', NEW n \in Defined',
           NEW u \in SUBSET (1..objects'), nodeUpdate(nodes, n, u)
    PROVE  /\ up' \subseteq 1..objects' /\ store' \subseteq 1..Len(node')
           /\ events' \in Seq(NewRefs) /\ OneRecordPerInterface'
<1>0. /\ n \in 1..Len(node') /\ Len(node') \in Nat /\ objects' \in Nat
      /\ nodes \in Seq(NodeObjects(objects'))
    BY NewSizes DEF Grows
<1>1. DOMAIN nodes[n].at = Ifaces
  <2>1. nodes[n] \in NodeObjects(objects') /\ nodes[n].defined
      BY <1>0 DEF Defined
  <2> QED
      BY <2>1 DEF NodeObjects
<1>2. Tail(events) \in Seq(NewRefs)
    BY ListsGrow, FirstRef DEF NewRefs
<1>3. /\ AboutNode("NEW", n, FALSE) \in NewRefs
      /\ AboutNode("UPDATED", n, FALSE) \in NewRefs
    BY <1>0, NodeRef DEF NewRefs
<1> DEFINE replaced == Overlapping(nodes, n)
           flag == \E r \in replaced : ~nodes[r].defined
           synced == u \cup {nodes[n].at[i] : i \in {j \in Ifaces : inStore[j] # 0}}
<1>4. AboutNode("UPDATED", n, flag) \in NewRefs
  <2>1. flag \in BOOLEAN
      OBVIOUS
  <2> HIDE DEF flag
  <2> QED
      BY <1>0, <2>1, NodeRef DEF NewRefs
<1>5. synced \subseteq 1..objects'
  <2>1. \A i \in Ifaces : nodes[n].at[i] \in 1..objects'
      BY <1>0, <1>1, AtType
  <2> QED
      BY <2>1
<1>6. CASE replaced # {}
  <2>1. /\ up' = u \cup Transferred(nodes, n) /\ PutInStore(nodes, n)
        /\ events' = Append(Tail(events), AboutNode("UPDATED", n, flag))
      BY <1>6 DEF nodeUpdate
  <2>2. up' \subseteq 1..objects'
      BY <1>0, <2>1, TransferredType
  <2>3. events' \in Seq(NewRefs)
    <3> HIDE DEF flag
    <3> QED
        BY <1>2, <1>4, <2>1, AppendRef
  <2> QED
      BY <1>0, <2>1, <2>2, <2>3, PutKeepsOne
<1>7. CASE replaced = {} /\ isAvailable(nodes[n], synced)
  <2>1. /\ up' = synced /\ PutInStore(nodes, n)
        /\ events' = Tail(events) \o <<AboutNode("NEW", n, FALSE),
                                       AboutNode("UPDATED", n, FALSE)>>
      BY <1>7 DEF nodeUpdate
  <2>2. events' \in Seq(NewRefs)
    <3> DEFINE a == AboutNode("NEW", n, FALSE)
               b == AboutNode("UPDATED", n, FALSE)
    <3>1. a \in NewRefs /\ b \in NewRefs /\ events' = Tail(events) \o <<a, b>>
        BY <1>3, <2>1
    <3> HIDE DEF a, b
    <3>2. <<a, b>> \in Seq(NewRefs)
        BY <3>1
    <3> QED
        BY <1>2, <3>1, <3>2
  <2> QED
      BY <1>0, <1>5, <2>1, <2>2, PutKeepsOne
<1>8. CASE replaced = {} /\ ~isAvailable(nodes[n], synced)
  <2>1. /\ up' = synced /\ store' = store
        /\ events' = Append(Tail(events), AboutNode("UPDATED", n, FALSE))
      BY <1>8 DEF nodeUpdate
  <2>2. events' \in Seq(NewRefs)
      BY <1>2, <1>3, <2>1, AppendRef
  <2>3. OneRecordPerInterface' /\ store' \subseteq 1..Len(node')
      BY <2>1, FewerKeepOne, ListsGrow
  <2> QED
      BY <1>5, <2>1, <2>2, <2>3
<1> QED
    BY <1>6, <1>7, <1>8
-----------------------------------------------------------------------------
(***************************************************************************)
(* The steps                                                                *)
(***************************************************************************)

(* What is left to show of a step when the heap grows.                      *)
LEMMA StepParts ==
    ASSUME Grows, inStore' \in [Ifaces -> 0..objects'],
           up' \subseteq 1..objects', store' \subseteq 1..Len(node'),
           tasks' \in Seq(NewRefs), events' \in Seq(NewRefs)
    PROVE  Heap' /\ Lists'
BY DEF Grows, Heap, Lists, NewRefs

LEMMA ConnectivityStep ==
    ASSUME IInv, Connectivity
    PROVE  IInv'
<1> USE DEF ifaceVars, nodeVars, forwardingVars, counters
<1>0. Heap /\ Lists /\ Rest /\ OneRecordPerInterface
    BY DEF IInv
<1>1. ASSUME NEW i \in Ifaces, report_interface(i)
      PROVE  IInv'
  <2>1. objects' = objects + 1 /\ UNCHANGED node /\ UNCHANGED store
      BY <1>1 DEF report_interface
  <2>2. Grows
      BY <1>0, <2>1, SameNodesGrow, Sizes
  <2>3. /\ tasks \in Seq(NewRefs) /\ events \in Seq(NewRefs)
        /\ store \subseteq 1..Len(node') /\ up \subseteq 1..objects'
        /\ inStore \in [Ifaces -> 0..objects']
      BY <1>0, <2>2, ListsGrow DEF NewRefs
  <2>4. objects' \in 1..objects' /\ objects' \in Nat /\ Len(node') \in Nat
      BY <1>0, <2>1, Sizes
  <2>5. Item("UP", 0, i, objects', FALSE) \in NewRefs
      BY <2>4, IfaceRef DEF NewRefs
  <2>6. events' \in Seq(NewRefs)
      BY <1>1, <2>3, <2>5, AppendRef DEF report_interface
  <2>7. /\ inStore' \in [Ifaces -> 0..objects'] /\ up' \subseteq 1..objects'
        /\ tasks' \in Seq(NewRefs) /\ store' \subseteq 1..Len(node')
    <3>1. /\ inStore' = [inStore EXCEPT ![i] = objects']
          /\ up' = up \cup {objects'} /\ UNCHANGED <<tasks, store>>
        BY <1>1 DEF report_interface
    <3>2. objects' \in 0..objects'
        BY <2>4
    <3> HIDE DEF NewRefs
    <3> QED
        BY <2>3, <2>4, <3>1, <3>2
  <2>8. Rest'
      BY <1>0, <1>1, ContactsConstants DEF Rest, report_interface
  <2> QED
      BY <1>0, <2>1, <2>2, <2>6, <2>7, <2>8, StepParts, FewerKeepOne DEF IInv
<1>2. ASSUME NEW i \in Ifaces, report_dead(i)
      PROVE  IInv'
  <2>1. UNCHANGED <<node, objects, store, tasks>>
      BY <1>2 DEF report_dead
  <2>2. Grows
      BY <1>0, <2>1, UnchangedGrows
  <2>3. /\ tasks \in Seq(NewRefs) /\ events \in Seq(NewRefs)
        /\ store \subseteq 1..Len(node') /\ up \subseteq 1..objects'
        /\ inStore \in [Ifaces -> 0..objects']
      BY <1>0, <2>2, ListsGrow DEF NewRefs
  <2>4. inStore[i] \in 1..objects' /\ objects' \in Nat /\ Len(node') \in Nat
      BY <1>0, <1>2, <2>1, Sizes DEF Heap, report_dead
  <2>5. Item("DOWN", 0, i, inStore[i], FALSE) \in NewRefs
      BY <2>4, IfaceRef DEF NewRefs
  <2>6. events' \in Seq(NewRefs)
      BY <1>2, <2>3, <2>5, AppendRef DEF report_dead
  <2>7. /\ inStore' \in [Ifaces -> 0..objects'] /\ up' \subseteq 1..objects'
    <3>1. inStore' = [inStore EXCEPT ![i] = 0] /\ up' \subseteq up
        BY <1>2 DEF report_dead
    <3>2. 0 \in 0..objects'
        BY <2>4
    <3> QED
        BY <2>3, <3>1, <3>2
  <2>8. Rest'
      BY <1>0, <1>2 DEF Rest, report_dead
  <2> QED
      BY <1>0, <2>1, <2>2, <2>3, <2>6, <2>7, <2>8, StepParts, FewerKeepOne
         DEF IInv
<1> QED
    BY <1>1, <1>2 DEF Connectivity

LEMMA InterfaceUpStep ==
    ASSUME IInv, onNeighborInterfaceUp
    PROVE  IInv'
<1> USE DEF ifaceVars, nodeVars, forwardingVars, counters
<1>0. Heap /\ Lists /\ Rest /\ OneRecordPerInterface
    BY DEF IInv
<1>1. UNCHANGED <<node, objects, store, inStore>>
    BY DEF onNeighborInterfaceUp
<1>2. Grows
    BY <1>0, <1>1, UnchangedGrows
<1>3. /\ tasks \in Seq(NewRefs) /\ events \in Seq(NewRefs)
      /\ store \subseteq 1..Len(node') /\ up \subseteq 1..objects'
      /\ inStore \in [Ifaces -> 0..objects']
    BY <1>0, <1>2, ListsGrow DEF NewRefs
<1>4. Event \in NewRefs /\ Tail(events) \in Seq(NewRefs) /\ Event.type = "UP"
    BY <1>3, FirstRef DEF onNeighborInterfaceUp, Dispatch, Event
<1>5. Event.iface \in Ifaces /\ Event.obj \in 1..objects'
    BY <1>4 DEF NewRefs, Refs
<1>6. objects' \in Nat /\ Len(node') \in Nat /\ Event.obj \in Nat
    BY <1>2, <1>5, NewSizes
<1>7. Item("RETRIEVE_NODE", 0, Event.iface, Event.obj, TRUE) \in NewRefs
    BY <1>5, <1>6, IfaceRef DEF NewRefs
<1>8. tasks' \in Seq(NewRefs)
    BY <1>3, <1>7, AppendRef DEF onNeighborInterfaceUp
<1>9. events' \in Seq(NewRefs)
    BY <1>4 DEF onNeighborInterfaceUp
<1> DEFINE neigh == {n \in Neighbors : hasInterface(node[n], Event.iface)}
<1>10. \A n \in neigh : node[n].at[Event.iface] \in 1..objects
    BY <1>0, AtType DEF Heap, Neighbors, hasInterface
<1>11. up' = up \/ up' = up \cup {node[n].at[Event.iface] : n \in neigh}
    BY DEF onNeighborInterfaceUp
<1>12. up' \subseteq 1..objects'
  <2> HIDE DEF neigh
  <2> QED
      BY <1>1, <1>3, <1>10, <1>11
<1>13. Rest'
    BY <1>0, <1>5 DEF Rest, onNeighborInterfaceUp
<1> QED
    BY <1>0, <1>1, <1>2, <1>3, <1>8, <1>9, <1>12, <1>13, StepParts,
       FewerKeepOne DEF IInv

LEMMA RetrieveNodeStep ==
    ASSUME IInv, onRetrieveNode
    PROVE  IInv'
<1> USE DEF ifaceVars, nodeVars, forwardingVars, counters
<1>0. Heap /\ Lists /\ Rest /\ OneRecordPerInterface
    BY DEF IInv
<1>a. /\ Event \in Refs(Len(node), Defined, objects) /\ Event.type = "retrieved"
      /\ events # <<>>
    BY <1>0, FirstRef DEF Lists, onRetrieveNode, Dispatch, Event
<1>b. Event.node \in 0..Len(node) /\ Len(node) \in Nat /\ objects \in Nat
    BY <1>0, <1>a, Sizes DEF Refs
<1> DEFINE x == Node(FALSE, [j \in {Event.iface} |-> Event.obj])
           n == IF Event.node # 0 THEN Event.node ELSE Len(node')
<1>1. /\ node' = IF Event.node # 0 THEN node ELSE Append(node, x)
      /\ PutInStore(node', n) /\ UNCHANGED objects
      /\ up' = up \cup Transferred(node', n)
      /\ events' = Append(Tail(events), AboutNode("NEW", n, FALSE))
    BY DEF onRetrieveNode
<1>2. Grows /\ n \in 1..Len(node')
  <2>1. CASE Event.node # 0
      BY <1>0, <1>1, <1>b, <2>1, UnchangedGrows
  <2>2. CASE Event.node = 0
    <3>1. Event.iface \in Ifaces /\ Event.obj \in 1..objects
        BY <1>a, <2>2 DEF Refs
    <3>2. x \in NodeObjects(objects)
      <4>1. /\ {Event.iface} \in SUBSET Ifaces
            /\ [j \in {Event.iface} |-> Event.obj] \in [{Event.iface} -> 1..objects]
          BY <3>1
      <4> QED
          BY <1>b, <4>1, ANode
    <3> HIDE DEF x
    <3>3. Grows /\ Len(node') = Len(node) + 1
        BY <1>0, <1>1, <1>b, <2>2, <3>2, AppendGrows
    <3> QED
        BY <1>b, <2>2, <3>3
  <2> QED
      BY <2>1, <2>2
<1> HIDE DEF n, x
<1>3. /\ tasks \in Seq(NewRefs) /\ events \in Seq(NewRefs)
      /\ up \subseteq 1..objects' /\ inStore \in [Ifaces -> 0..objects']
    BY <1>0, <1>2, ListsGrow DEF NewRefs
<1>4. objects' \in Nat /\ Len(node') \in Nat
    BY <1>2, NewSizes
<1>5. up' \subseteq 1..objects'
    BY <1>1, <1>2, <1>3, <1>4, TransferredType DEF Grows
<1>6. AboutNode("NEW", n, FALSE) \in NewRefs
    BY <1>2, <1>4, NodeRef DEF NewRefs
<1>7. events' \in Seq(NewRefs)
    BY <1>1, <1>3, <1>6, <1>a, FirstRef, AppendRef
<1>8. Rest'
  <2>1. UNCHANGED <<known, linked, pending, delayed, reached, inputs>>
      BY DEF onRetrieveNode
  <2>2. ghost' \in BOOLEAN
      BY DEF onRetrieveNode
  <2> QED
      BY <1>0, <2>1, <2>2 DEF Rest
<1>9. UNCHANGED <<tasks, inStore>>
    BY DEF onRetrieveNode
<1>10. OneRecordPerInterface' /\ store' \subseteq 1..Len(node')
    BY <1>0, <1>1, <1>2, PutKeepsOne
<1> QED
    BY <1>2, <1>3, <1>5, <1>7, <1>8, <1>9, <1>10, StepParts DEF IInv

LEMMA InterfaceDownStep ==
    ASSUME IInv, onNeighborInterfaceDown
    PROVE  IInv'
<1> USE DEF ifaceVars, nodeVars, forwardingVars, counters
<1>0. Heap /\ Lists /\ Rest /\ OneRecordPerInterface
    BY DEF IInv
<1>1. UNCHANGED <<node, objects, inStore>>
    BY DEF onNeighborInterfaceDown
<1>2. Grows
    BY <1>0, <1>1, UnchangedGrows
<1>3. /\ tasks \in Seq(NewRefs) /\ events \in Seq(NewRefs)
      /\ store \subseteq 1..Len(node') /\ up \subseteq 1..objects'
      /\ inStore \in [Ifaces -> 0..objects']
    BY <1>0, <1>2, ListsGrow DEF NewRefs
<1>4. events # <<>> /\ Tail(events) \in Seq(NewRefs)
    BY <1>3, FirstRef DEF onNeighborInterfaceDown, Dispatch
<1> DEFINE owner == {n \in store : hasInterface(node[n], Event.iface)}
           left == up \ {node[n].at[Event.iface] : n \in owner}
           lost == {n \in owner : ~isAvailable(node[n], left)}
           m == CHOOSE n \in lost : TRUE
<1>5. /\ up' = left /\ store' = store \ lost
      /\ IF lost = {}
         THEN events' = Tail(events) /\ UNCHANGED tasks
         ELSE /\ tasks' = Append(tasks, AboutNode("INSERT_NODE", m, FALSE))
              /\ events' = Append(Tail(events), AboutNode("END", m, FALSE))
    BY DEF onNeighborInterfaceDown
<1>6. left \subseteq up /\ lost \subseteq store /\ (lost # {} => m \in lost)
    OBVIOUS
<1> HIDE DEF left, lost, m
<1>7. tasks' \in Seq(NewRefs) /\ events' \in Seq(NewRefs)
  <2>1. CASE lost = {}
      BY <1>3, <1>4, <1>5, <2>1
  <2>2. CASE lost # {}
    <3>1. m \in 1..Len(node') /\ Len(node') \in Nat /\ objects' \in Nat
        BY <1>2, <1>3, <1>6, <2>2, NewSizes
    <3>2. /\ AboutNode("INSERT_NODE", m, FALSE) \in NewRefs
          /\ AboutNode("END", m, FALSE) \in NewRefs
        BY <3>1, NodeRef DEF NewRefs
    <3> QED
        BY <1>3, <1>4, <1>5, <2>2, <3>2, AppendRef
  <2> QED
      BY <2>1, <2>2
<1>8. up' \subseteq 1..objects' /\ store' \subseteq store
    BY <1>3, <1>5, <1>6
<1>9. Rest'
    BY <1>0 DEF Rest, onNeighborInterfaceDown
<1> QED
    BY <1>0, <1>1, <1>2, <1>3, <1>7, <1>8, <1>9, StepParts, FewerKeepOne
       DEF IInv
(* Items without a node or an object.                                       *)
LEMMA DescriptionRef ==
    ASSUME NEW k \in Nat, NEW D, NEW o \in Nat,
           NEW type \in {"DESCRIPTION", "INSERT_DATAOBJECT"},
           NEW i \in Ifaces \cup {ThirdParty}
    PROVE  Item(type, 0, i, 0, FALSE) \in Refs(k, D, o)
<1>1. /\ type \in Types /\ 0 \in 0..k /\ type # "inserted" /\ type # "retrieved"
      /\ type \notin {"NEW", "END", "UPDATED", "INSERT_NODE"}
      /\ type \notin {"UP", "DOWN", "RETRIEVE_NODE"}
    BY DEF Types
<1> QED
    BY <1>1, ItemRef

(* A description becomes a node.                                            *)
LEMMA DescribedGrows ==
    ASSUME Heap, node' = Append(node, Described),
           objects' = objects + Cardinality(Ifaces)
    PROVE  /\ Grows /\ Len(node') \in Defined'
           /\ \A i \in Ifaces : Described.at[i] \in 1..objects'
<1>1. objects \in Nat /\ Len(node) \in Nat
    BY Sizes
<1>2. /\ Cardinality(Ifaces) \in Nat /\ Described.defined = TRUE
      /\ Described.at \in [Ifaces -> (objects + 1)..(objects + Cardinality(Ifaces))]
      /\ Described = Node(TRUE, Described.at)
    BY <1>1, DescribedType
<1>3. objects' \in Nat /\ objects <= objects'
    BY <1>1, <1>2
<1>4. \A i \in Ifaces : Described.at[i] \in 1..objects'
    BY <1>1, <1>2
<1>5. Described.at \in [Ifaces -> 1..objects']
    BY <1>2, <1>4
<1>6. Described \in NodeObjects(objects')
    BY <1>2, <1>3, <1>5, ANode
<1>7. Grows /\ Len(node') = Len(node) + 1 /\ node'[Len(node) + 1] = Described
    BY <1>3, <1>6, AppendGrows
<1>8. Len(node') \in Defined'
    BY <1>1, <1>2, <1>7 DEF Defined
<1> QED
    BY <1>4, <1>7, <1>8

LEMMA DescriptionStep ==
    ASSUME IInv, onReceiveNodeDescription
    PROVE  IInv'
<1> USE DEF ifaceVars, nodeVars, forwardingVars, counters
<1>0. Heap /\ Lists /\ Rest /\ OneRecordPerInterface
    BY DEF IInv
<1>1. /\ node' = Append(node, Described)
      /\ objects' = objects + Cardinality(Ifaces)
      /\ tasks' = Append(tasks, AboutNode("INSERT_NODE", Len(node'), FALSE))
      /\ nodeUpdate(node', Len(node'), up \cup {Described.at[Event.iface]})
      /\ UNCHANGED <<inStore, known, pending, delayed, linked, reached, inputs,
                     ghost>>
      /\ events # <<>> /\ Event.iface # ThirdParty
    BY DEF onReceiveNodeDescription, Dispatch
<1>2. /\ Grows /\ Len(node') \in Defined'
      /\ \A i \in Ifaces : Described.at[i] \in 1..objects'
    BY <1>0, <1>1, DescribedGrows
<1>3. /\ tasks \in Seq(NewRefs) /\ events \in Seq(NewRefs)
      /\ up \subseteq 1..objects' /\ inStore \in [Ifaces -> 0..objects']
    BY <1>0, <1>2, ListsGrow DEF NewRefs
<1>4. Event.iface \in Ifaces
  <2>1. Event \in NewRefs
      BY <1>1, <1>3, FirstRef DEF Event
  <2> QED
      BY <1>1, <2>1 DEF NewRefs, Refs, Items
<1> DEFINE u == up \cup {Described.at[Event.iface]}
<1>5. u \in SUBSET (1..objects')
    BY <1>2, <1>3, <1>4
<1>6. nodeUpdate(node', Len(node'), u)
    BY <1>1
<1> HIDE DEF u
<1>7. /\ up' \subseteq 1..objects' /\ store' \subseteq 1..Len(node')
      /\ events' \in Seq(NewRefs) /\ OneRecordPerInterface'
    BY <1>0, <1>1, <1>2, <1>5, <1>6, NodeUpdateStep
<1>8. /\ Len(node') \in 1..Len(node') /\ Len(node') \in Nat /\ objects' \in Nat
    BY <1>2, NewSizes
<1>9. AboutNode("INSERT_NODE", Len(node'), FALSE) \in NewRefs
    BY <1>8, NodeRef DEF NewRefs
<1>10. tasks' \in Seq(NewRefs)
    BY <1>1, <1>3, <1>9, AppendRef
<1>11. Rest'
    BY <1>0, <1>1 DEF Rest
<1> QED
    BY <1>1, <1>2, <1>3, <1>7, <1>10, <1>11, StepParts DEF IInv

LEMMA ThirdPartyStep ==
    ASSUME IInv, onReceiveThirdParty
    PROVE  IInv'
<1> USE DEF ifaceVars, nodeVars, forwardingVars, counters
<1>0. Heap /\ Lists /\ Rest /\ OneRecordPerInterface
    BY DEF IInv
<1>1. /\ events' = Tail(events) /\ events # <<>>
      /\ UNCHANGED <<inStore, up, store, known, pending, delayed, linked,
                     reached, inputs, ghost>>
    BY DEF onReceiveThirdParty, Dispatch
<1>2. Grows /\ (tasks \in Seq(NewRefs) => tasks' \in Seq(NewRefs))
  <2>1. CASE Neighbors # {}
    <3>1. UNCHANGED <<node, objects, tasks>>
        BY <2>1 DEF onReceiveThirdParty
    <3> QED
        BY <1>0, <3>1, UnchangedGrows
  <2>2. CASE Neighbors = {}
    <3>1. /\ node' = Append(node, Described)
          /\ objects' = objects + Cardinality(Ifaces)
          /\ tasks' = Append(tasks, AboutNode("INSERT_NODE", Len(node'), TRUE))
        BY <2>2 DEF onReceiveThirdParty
    <3>2. Grows /\ Len(node') \in Defined'
        BY <1>0, <3>1, DescribedGrows
    <3>3. Len(node') \in 1..Len(node') /\ Len(node') \in Nat /\ objects' \in Nat
        BY <3>2, NewSizes
    <3>4. AboutNode("INSERT_NODE", Len(node'), TRUE) \in NewRefs
        BY <3>2, <3>3, NodeRef DEF NewRefs
    <3> QED
        BY <3>1, <3>2, <3>4, AppendRef
  <2> QED
      BY <2>1, <2>2
<1>3. /\ tasks \in Seq(NewRefs) /\ events \in Seq(NewRefs)
      /\ store \subseteq 1..Len(node')
      /\ up \subseteq 1..objects' /\ inStore \in [Ifaces -> 0..objects']
    BY <1>0, <1>2, ListsGrow DEF NewRefs
<1>4. events' \in Seq(NewRefs)
    BY <1>1, <1>3, FirstRef
<1>5. Rest'
    BY <1>0, <1>1 DEF Rest
<1>6. tasks' \in Seq(NewRefs)
    BY <1>2, <1>3
<1> QED
    BY <1>0, <1>1, <1>2, <1>3, <1>4, <1>5, <1>6, StepParts, FewerKeepOne
       DEF IInv

LEMMA InsertedNodeStep ==
    ASSUME IInv, onInsertedNode
    PROVE  IInv'
<1> USE DEF ifaceVars, nodeVars, forwardingVars, counters
<1>0. Heap /\ Lists /\ Rest /\ OneRecordPerInterface
    BY DEF IInv
<1>1. /\ UNCHANGED <<node, objects, tasks, inStore, known, pending, delayed,
                     linked, reached, inputs, ghost>>
      /\ events # <<>> /\ Event.type = "inserted"
      /\ nodeUpdate(node, Event.node, up)
    BY DEF onInsertedNode, Dispatch, Event
<1>2. Grows
    BY <1>0, <1>1, UnchangedGrows
<1>3. /\ tasks \in Seq(NewRefs) /\ events \in Seq(NewRefs)
      /\ up \subseteq 1..objects' /\ inStore \in [Ifaces -> 0..objects']
    BY <1>0, <1>2, ListsGrow DEF NewRefs
<1>4. Event.node \in Defined'
  <2>1. Event \in NewRefs
      BY <1>1, <1>3, FirstRef DEF Event
  <2> QED
      BY <1>1, <2>1 DEF NewRefs, Refs
<1>5. /\ up' \subseteq 1..objects' /\ store' \subseteq 1..Len(node')
      /\ events' \in Seq(NewRefs) /\ OneRecordPerInterface'
    BY <1>0, <1>1, <1>2, <1>3, <1>4, NodeUpdateStep
<1>6. Rest'
    BY <1>0, <1>1 DEF Rest
<1> QED
    BY <1>1, <1>2, <1>3, <1>5, <1>6, StepParts DEF IInv

(* The handlers of the forwarding manager and its timer.                    *)
LEMMA ForwardingStep ==
    ASSUME IInv,
           onNewNeighbor \/ onEndNeighbor \/ onNodeUpdated
               \/ onDelayedDataObjectQuery
    PROVE  IInv'
<1> USE DEF ifaceVars, nodeVars, forwardingVars, counters
<1>0. Heap /\ Lists /\ Rest /\ OneRecordPerInterface
    BY DEF IInv
<1>1. UNCHANGED <<node, objects, inStore, up, store, tasks, known, reached,
                  inputs>>
    BY DEF onNewNeighbor, onEndNeighbor, onNodeUpdated,
       onDelayedDataObjectQuery, Handled
<1>2. Grows
    BY <1>0, <1>1, UnchangedGrows
<1>3. /\ tasks \in Seq(NewRefs) /\ events \in Seq(NewRefs)
      /\ store \subseteq 1..Len(node') /\ up \subseteq 1..objects'
      /\ inStore \in [Ifaces -> 0..objects']
    BY <1>0, <1>2, ListsGrow DEF NewRefs
<1>4. UNCHANGED events \/ (events # <<>> /\ events' = Tail(events))
    BY DEF onNewNeighbor, onEndNeighbor, onNodeUpdated,
       onDelayedDataObjectQuery, Handled, Dispatch
<1>5. events' \in Seq(NewRefs)
    BY <1>3, <1>4, FirstRef
<1>6. pending' \in Nat /\ delayed' \in Nat /\ pending' <= delayed'
  <2>1. pending \in Nat /\ delayed \in Nat /\ pending <= delayed
      BY <1>0 DEF Rest
  <2>2. CASE onNewNeighbor
      BY <2>1, <2>2 DEF onNewNeighbor
  <2>3. CASE onEndNeighbor
      BY <2>1, <2>3 DEF onEndNeighbor, Erase
  <2>4. CASE onNodeUpdated
      BY <2>1, <2>4 DEF onNodeUpdated, Erase
  <2>5. CASE onDelayedDataObjectQuery
      BY <2>1, <2>5 DEF onDelayedDataObjectQuery, Erase
  <2> QED
      BY <2>2, <2>3, <2>4, <2>5
<1>7. linked' \in BOOLEAN
  <2>1. linked \in BOOLEAN
      BY <1>0 DEF Rest
  <2>2. CASE onNodeUpdated
      BY <2>2 DEF onNodeUpdated
  <2>3. CASE onNewNeighbor \/ onEndNeighbor \/ onDelayedDataObjectQuery
      BY <2>1, <2>3 DEF onNewNeighbor, onEndNeighbor, onDelayedDataObjectQuery
  <2> QED
      BY <2>2, <2>3
<1>8. ghost' \in BOOLEAN
  <2>1. ghost \in BOOLEAN
      BY <1>0 DEF Rest
  <2>2. CASE onNodeUpdated
      BY <2>2 DEF onNodeUpdated
  <2>3. CASE onNewNeighbor \/ onEndNeighbor \/ onDelayedDataObjectQuery
      BY <2>1, <2>3 DEF onNewNeighbor, onEndNeighbor, onDelayedDataObjectQuery
  <2> QED
      BY <2>2, <2>3
<1>9. Rest'
    BY <1>0, <1>1, <1>6, <1>7, <1>8 DEF Rest
<1> QED
    BY <1>0, <1>1, <1>2, <1>3, <1>5, <1>9, StepParts, FewerKeepOne DEF IInv
(* The data store's node, put in the place of a stored one or made.         *)
LEMMA CreateGrows ==
    ASSUME Heap, NEW n, createNode(n), n \in InTable \/ n = Len(node) + 1
    PROVE  /\ Grows /\ n \in 1..Len(node') /\ n \in Defined'
           /\ objects' = objects + Cardinality(Ifaces)
<1>1. objects \in Nat /\ Len(node) \in Nat /\ Cardinality(Ifaces) \in Nat
    BY Sizes, DescribedType
<1>2. objects' = objects + Cardinality(Ifaces)
    BY DEF createNode
<1>3. objects' \in Nat /\ objects <= objects'
    BY <1>1, <1>2
<1>4. Retrieved \in [Ifaces -> 1..objects']
    BY <1>1, <1>2, RetrievedType DEF Heap
<1>5. CASE n \in InTable
  <2>1. n \in Defined /\ n \in 1..Len(node)
      BY <1>5 DEF InTable, Defined, Heap
  <2>2. node' = [node EXCEPT ![n].at = Retrieved]
      BY <1>5 DEF createNode
  <2>3. Grows /\ Len(node') = Len(node)
      BY <1>3, <1>4, <2>1, <2>2, OverwriteGrows
  <2>4. n \in Defined'
      BY <2>1, <2>3 DEF Defined, Grows
  <2> QED
      BY <1>2, <2>1, <2>3, <2>4
<1>6. CASE n \notin InTable
  <2>1. node' = Append(node, Node(TRUE, Retrieved))
      BY <1>6 DEF createNode
  <2>2. Node(TRUE, Retrieved) \in NodeObjects(objects')
      BY <1>3, <1>4, ANode
  <2>3. /\ Grows /\ Len(node') = Len(node) + 1
        /\ node'[Len(node) + 1] = Node(TRUE, Retrieved)
      BY <1>3, <2>1, <2>2, AppendGrows
  <2>4. node'[Len(node) + 1].defined
      BY <2>3 DEF Node
  <2>5. n = Len(node) + 1 /\ n \in 1..Len(node')
      BY <1>1, <1>6, <2>3
  <2>6. n \in Defined'
      BY <2>4, <2>5 DEF Defined
  <2> QED
      BY <1>2, <2>3, <2>5, <2>6
<1> QED
    BY <1>5, <1>6

LEMMA RetrieveTaskStep ==
    ASSUME IInv, _retrieveNode
    PROVE  IInv'
<1> USE DEF ifaceVars, nodeVars, forwardingVars, counters
<1>0. Heap /\ Lists /\ Rest /\ OneRecordPerInterface
    BY DEF IInv
<1> DEFINE t == Head(tasks)
<1>1. /\ tasks # <<>> /\ t.type = "RETRIEVE_NODE" /\ tasks' = Tail(tasks)
      /\ UNCHANGED <<inStore, store, known, pending, delayed, linked, reached,
                     inputs, ghost>>
    BY DEF _retrieveNode
<1>2. t \in Refs(Len(node), Defined, objects)
    BY <1>0, <1>1, FirstRef DEF Lists
<1>3. t.iface \in Ifaces /\ t.obj \in 1..objects
    BY <1>1, <1>2 DEF Refs
<1> HIDE DEF t
<1>4. /\ Grows /\ up' \subseteq 1..objects'
      /\ events \in Seq(NewRefs) => events' \in Seq(NewRefs)
  <2>1. CASE known
    <3> DEFINE n == IF InTable # {} THEN CHOOSE n \in InTable : TRUE
                    ELSE Len(node) + 1
    <3>1. /\ createNode(n)
          /\ up' = IF t.obj \in up THEN up \cup {Retrieved[t.iface]} ELSE up
          /\ events' = Append(events, AboutNode("retrieved", n, FALSE))
        BY <2>1 DEF _retrieveNode, t
    <3>2. n \in InTable \/ n = Len(node) + 1
        OBVIOUS
    <3> HIDE DEF n
    <3>3. /\ Grows /\ n \in 1..Len(node') /\ n \in Defined'
          /\ objects' = objects + Cardinality(Ifaces)
        BY <1>0, <3>1, <3>2, CreateGrows
    <3>4. up \subseteq 1..objects'
        BY <1>0, <3>3, ListsGrow
    <3>5. Retrieved[t.iface] \in 1..objects'
        BY <1>0, <1>3, <3>3, RetrievedType DEF Heap
    <3>6. AboutNode("retrieved", n, FALSE) \in NewRefs
        BY <3>3, NewSizes, NodeRef DEF NewRefs
    <3> QED
        BY <3>1, <3>3, <3>4, <3>5, <3>6, AppendRef
  <2>2. CASE ~known
    <3>1. /\ UNCHANGED <<node, objects, up>>
          /\ events' = Append(events, Item("retrieved", 0, t.iface, t.obj, FALSE))
        BY <2>2 DEF _retrieveNode, UnknownInterface, t
    <3>2. Grows
        BY <1>0, <3>1, UnchangedGrows
    <3>3. /\ Len(node') \in Nat /\ objects' \in Nat /\ t.obj \in 1..objects'
          /\ t.obj \in Nat /\ 0 \in 0..Len(node')
        BY <1>3, <3>1, <3>2, NewSizes
    <3>4. Item("retrieved", 0, t.iface, t.obj, FALSE) \in NewRefs
      <4>1. /\ "retrieved" \in Types
            /\ "retrieved" \notin {"NEW", "END", "UPDATED", "INSERT_NODE"}
            /\ "retrieved" \notin {"UP", "DOWN", "RETRIEVE_NODE"}
            /\ "retrieved" # "inserted" /\ "retrieved" # "INSERT_NODE"
          BY DEF Types
      <4> QED
          BY <1>3, <3>3, <4>1, ItemRef DEF NewRefs
    <3>5. up' \subseteq 1..objects'
        BY <1>0, <3>1 DEF Heap
    <3> QED
        BY <3>1, <3>2, <3>4, <3>5, AppendRef
  <2> QED
      BY <1>0, <2>1, <2>2 DEF Rest
<1>5. /\ tasks \in Seq(NewRefs) /\ events \in Seq(NewRefs)
      /\ store \subseteq 1..Len(node') /\ inStore \in [Ifaces -> 0..objects']
    BY <1>0, <1>4, ListsGrow DEF NewRefs
<1>6. tasks' \in Seq(NewRefs) /\ events' \in Seq(NewRefs)
    BY <1>1, <1>4, <1>5, FirstRef
<1>7. Rest'
    BY <1>0, <1>1 DEF Rest
<1> QED
    BY <1>0, <1>1, <1>4, <1>5, <1>6, <1>7, StepParts, FewerKeepOne DEF IInv

LEMMA InsertTaskStep ==
    ASSUME IInv, _insertNode
    PROVE  IInv'
<1> USE DEF ifaceVars, nodeVars, forwardingVars, counters
<1>0. Heap /\ Lists /\ Rest /\ OneRecordPerInterface
    BY DEF IInv
<1> DEFINE t == Head(tasks)
<1>1. /\ tasks # <<>> /\ t.type = "INSERT_NODE" /\ tasks' = Tail(tasks)
      /\ known' = (known \/ node[t.node].defined)
      /\ \/ createNode(CHOOSE n \in InTable : TRUE) /\ InTable # {}
         \/ UNCHANGED <<node, objects>>
      /\ events' = IF t.flag THEN Append(events, AboutNode("inserted", t.node, FALSE))
                   ELSE events
      /\ UNCHANGED <<inStore, up, store, pending, delayed, linked, reached,
                     inputs, ghost>>
    BY DEF _insertNode
<1>2. t \in Refs(Len(node), Defined, objects)
    BY <1>0, <1>1, FirstRef DEF Lists
<1> HIDE DEF t
<1>3. Grows
  <2>1. CASE UNCHANGED <<node, objects>>
      BY <1>0, <2>1, UnchangedGrows
  <2>2. CASE createNode(CHOOSE n \in InTable : TRUE) /\ InTable # {}
    <3> DEFINE n == CHOOSE n \in InTable : TRUE
    <3>1. n \in InTable /\ createNode(n)
        BY <2>2
    <3> HIDE DEF n
    <3> QED
        BY <1>0, <3>1, CreateGrows
  <2> QED
      BY <1>1, <2>1, <2>2
<1>4. /\ tasks \in Seq(NewRefs) /\ events \in Seq(NewRefs)
      /\ store \subseteq 1..Len(node') /\ up \subseteq 1..objects'
      /\ inStore \in [Ifaces -> 0..objects']
    BY <1>0, <1>3, ListsGrow DEF NewRefs
<1>5. t \in NewRefs /\ tasks' \in Seq(NewRefs)
    BY <1>1, <1>4, FirstRef DEF t
<1>6. events' \in Seq(NewRefs)
  <2>1. CASE ~t.flag
      BY <1>1, <1>4, <2>1
  <2>2. CASE t.flag
    <3>1. t.node \in Defined'
        BY <1>1, <1>5, <2>2 DEF NewRefs, Refs
    <3>2. t.node \in 1..Len(node') /\ Len(node') \in Nat /\ objects' \in Nat
        BY <1>3, <3>1, NewSizes
    <3>3. AboutNode("inserted", t.node, FALSE) \in NewRefs
        BY <3>1, <3>2, NodeRef DEF NewRefs
    <3> QED
        BY <1>1, <1>4, <2>2, <3>3, AppendRef
  <2> QED
      BY <2>1, <2>2
<1>7. known' \in BOOLEAN
    BY <1>1
<1>8. Rest'
    BY <1>0, <1>1, <1>7 DEF Rest
<1> QED
    BY <1>0, <1>1, <1>3, <1>4, <1>5, <1>6, <1>8, StepParts, FewerKeepOne
       DEF IInv

(* A description on its way through the data store.                         *)
LEMMA DataObjectStep ==
    ASSUME IInv,
           \/ _insertDataObject
           \/ \E i \in Ifaces \cup {ThirdParty} : onVerifiedDescription(i)
    PROVE  IInv'
<1> USE DEF ifaceVars, nodeVars, forwardingVars, counters
<1>0. Heap /\ Lists /\ Rest /\ OneRecordPerInterface
    BY DEF IInv
<1>1. UNCHANGED <<node, objects, inStore, up, store, known, pending, delayed,
                  linked, reached, ghost>>
    BY DEF _insertDataObject, onVerifiedDescription
<1>2. Grows
    BY <1>0, <1>1, UnchangedGrows
<1>3. /\ tasks \in Seq(NewRefs) /\ events \in Seq(NewRefs)
      /\ store \subseteq 1..Len(node') /\ up \subseteq 1..objects'
      /\ inStore \in [Ifaces -> 0..objects']
    BY <1>0, <1>2, ListsGrow DEF NewRefs
<1>4. Len(node') \in Nat /\ objects' \in Nat
    BY <1>2, NewSizes
<1>5. tasks' \in Seq(NewRefs) /\ events' \in Seq(NewRefs) /\ inputs' \in 0..MaxInputs
  <2>1. CASE _insertDataObject
    <3> DEFINE t == Head(tasks)
    <3>1. /\ tasks # <<>> /\ tasks' = Tail(tasks) /\ UNCHANGED inputs
          /\ events' = Append(events, Item("DESCRIPTION", 0, t.iface, 0, FALSE))
        BY <2>1 DEF _insertDataObject
    <3>2. t \in NewRefs /\ tasks' \in Seq(NewRefs)
        BY <1>3, <3>1, FirstRef
    <3> HIDE DEF t
    <3>3. t.iface \in Ifaces \cup {ThirdParty}
        BY <3>2 DEF NewRefs, Refs, Items
    <3>4. Item("DESCRIPTION", 0, t.iface, 0, FALSE) \in NewRefs
        BY <1>4, <3>3, DescriptionRef DEF NewRefs
    <3> QED
        BY <1>0, <1>3, <3>1, <3>2, <3>4, AppendRef DEF Rest
  <2>2. ASSUME NEW i \in Ifaces \cup {ThirdParty}, onVerifiedDescription(i)
        PROVE  tasks' \in Seq(NewRefs) /\ events' \in Seq(NewRefs)
               /\ inputs' \in 0..MaxInputs
    <3>1. Item("INSERT_DATAOBJECT", 0, i, 0, FALSE) \in NewRefs
        BY <1>4, DescriptionRef DEF NewRefs
    <3>2. /\ tasks' = Append(tasks, Item("INSERT_DATAOBJECT", 0, i, 0, FALSE))
          /\ UNCHANGED events /\ inputs < MaxInputs /\ inputs' = inputs + 1
        BY <2>2 DEF onVerifiedDescription
    <3>3. inputs' \in 0..MaxInputs
        BY <1>0, <3>2, ContactsConstants DEF Rest
    <3> QED
        BY <1>3, <3>1, <3>2, <3>3, AppendRef
  <2> QED
      BY <2>1, <2>2
<1>6. Rest'
    BY <1>0, <1>1, <1>5 DEF Rest
<1> QED
    BY <1>0, <1>1, <1>2, <1>3, <1>5, <1>6, StepParts, FewerKeepOne DEF IInv

LEMMA StutterStep ==
    ASSUME IInv, UNCHANGED vars
    PROVE  IInv'
BY DEF IInv, Heap, Lists, Rest, OneRecordPerInterface, Defined, vars,
       ifaceVars, nodeVars, forwardingVars, counters

LEMMA Invariance == Spec => []IInv
<1>1. Init => IInv
  <2> SUFFICES ASSUME Init PROVE IInv
      OBVIOUS
  <2>1. <<>> \in Seq(NodeObjects(0)) /\ Len(<<>>) = 0
      OBVIOUS
  <2>2. Heap
      BY <2>1 DEF Init, Heap
  <2>3. Lists
      BY DEF Init, Lists
  <2>4. Rest
    <3>1. known \in BOOLEAN /\ linked \in BOOLEAN /\ ghost \in BOOLEAN
        BY DEF Init
    <3>2. /\ pending \in Nat /\ delayed \in Nat /\ pending <= delayed
          /\ reached \subseteq Ifaces /\ inputs \in 0..MaxInputs
        BY ContactsConstants DEF Init
    <3> QED
        BY <3>1, <3>2 DEF Rest
  <2>5. OneRecordPerInterface
      BY DEF Init, OneRecordPerInterface
  <2> QED
      BY <2>2, <2>3, <2>4, <2>5 DEF IInv
<1>2. IInv /\ [Next]_vars => IInv'
    BY ConnectivityStep, InterfaceUpStep, RetrieveNodeStep, InterfaceDownStep,
       DescriptionStep, ThirdPartyStep, InsertedNodeStep, ForwardingStep,
       RetrieveTaskStep, InsertTaskStep, DataObjectStep, StutterStep
       DEF Next, Kernel, Store
<1> QED
    BY <1>1, <1>2, PTL DEF Spec

-----------------------------------------------------------------------------
(* Interface store, node store, events and tasks keep their types, and      *)
(* every reference is to an object that exists.                             *)
THEOREM TypeCorrect == Spec => []TypeOK
<1>1. ASSUME IInv PROVE TypeOK
  <2>1. Heap /\ Lists /\ Rest
      BY <1>1 DEF IInv
  <2>2. ASSUME NEW n \in 1..Len(node)
        PROVE  /\ node[n].defined \in BOOLEAN
               /\ node[n].at \in [DOMAIN node[n].at -> 1..objects]
               /\ DOMAIN node[n].at \subseteq Ifaces
    <3>1. node[n] \in NodeObjects(objects)
        BY <2>1 DEF Heap
    <3>2. PICK D \in SUBSET Ifaces : node[n].at \in [D -> 1..objects]
        BY <3>1 DEF NodeObjects
    <3>3. node[n].defined \in BOOLEAN
        BY <3>1 DEF NodeObjects
    <3> QED
        BY <3>2, <3>3
  <2>3. /\ tasks \in Seq(Items) /\ events \in Seq(Items)
        /\ \A k \in 1..Len(tasks) : tasks[k].node <= Len(node)
        /\ \A k \in 1..Len(events) : events[k].node <= Len(node)
    <3>1. Refs(Len(node), Defined, objects) \subseteq Items
        BY DEF Refs
    <3>2. \A x \in Refs(Len(node), Defined, objects) : x.node <= Len(node)
        BY <2>1, Sizes DEF Refs
    <3> QED
        BY <2>1, <3>1, <3>2 DEF Lists
  <2>4. /\ inStore \in [Ifaces -> 0..objects] /\ up \subseteq 1..objects
        /\ store \subseteq 1..Len(node)
      BY <2>1 DEF Heap
  <2>5. /\ known \in BOOLEAN /\ pending \in Nat /\ delayed \in Nat
        /\ linked \in BOOLEAN /\ reached \subseteq Ifaces
        /\ inputs \in 0..MaxInputs /\ ghost \in BOOLEAN
      BY <2>1 DEF Rest
  <2> QED
      BY <2>2, <2>3, <2>4, <2>5, Zenon DEF TypeOK
<1> QED
    BY <1>1, Invariance, PTL

(* No interface belongs to two records of the node store, whatever the      *)
(* order in which interfaces, the data store's answers and descriptions     *)
(* arrive.                                                                  *)
THEOREM OneRecord == Spec => []OneRecordPerInterface
<1>1. IInv => OneRecordPerInterface
    BY DEF IInv
<1> QED
    BY <1>1, Invariance, PTL

(* Every entry of pendingQueryList has a delayed event to come.             *)
THEOREM PendingTimed == Spec => []PendingHasTimer
<1>1. IInv => PendingHasTimer
    BY DEF IInv, Rest, PendingHasTimer
<1> QED
    BY <1>1, Invariance, PTL
-----------------------------------------------------------------------------
(***************************************************************************)
(* Forwarding hears of every described neighbour                            *)
(*                                                                          *)
(* The invariant: when a defined node is in the store, available or not,    *)
(* then the data store's answer that will add it again is queued, or an     *)
(* event that tells of it with no end behind it, or the forwarding module   *)
(* was told and no end is queued.                                           *)
(***************************************************************************)

(* D are the defined nodes.                                                 *)
Answers(x) == x.type = "retrieved" /\ x.node # 0

Tells(x, D) == \/ x.type = "NEW" /\ x.node \in D
               \/ x.type = "UPDATED" /\ x.flag

Ends(x, D) == x.type = "END" /\ x.node \in D

ToldBy(list, D, link) ==
    \/ \E k \in 1..Len(list) : Answers(list[k])
    \/ \E k \in 1..Len(list) :
          /\ Tells(list[k], D)
          /\ \A j \in 1..Len(list) : k < j => ~Ends(list[j], D)
    \/ link /\ \A j \in 1..Len(list) : ~Ends(list[j], D)

ToldInv == ghost \/ store \cap Defined = {} \/ ToldBy(events, Defined, linked)

(* The list gets longer by something that is not an end.                    *)
LEMMA ToldAppend ==
    ASSUME NEW S, NEW list \in Seq(S), NEW x \in S, NEW D, NEW link,
           ~Ends(x, D), ToldBy(list, D, link)
    PROVE  ToldBy(Append(list, x), D, link)
<1> DEFINE new == Append(list, x)
           N == Len(list)
<1>1. /\ N \in Nat /\ Len(new) = N + 1 /\ new[N + 1] = x
      /\ \A k \in 1..N : new[k] = list[k]
    OBVIOUS
<1>2. \A k \in 1..Len(new) : k \in 1..N \/ k = N + 1
    BY <1>1
<1>3. 1..N \subseteq 1..Len(new)
    BY <1>1
<1> HIDE DEF new
<1>4. CASE \E k \in 1..N : Answers(list[k])
  <2>1. PICK k \in 1..N : Answers(list[k])
      BY <1>4
  <2>2. k \in 1..Len(new) /\ Answers(new[k])
      BY <1>1, <1>3, <2>1
  <2>3. ToldBy(new, D, link)
      BY <2>2 DEF ToldBy
  <2> QED
      BY <2>3 DEF new
<1>5. CASE \E k \in 1..N : /\ Tells(list[k], D)
                           /\ \A j \in 1..N : k < j => ~Ends(list[j], D)
  <2>1. PICK k \in 1..N : /\ Tells(list[k], D)
                          /\ \A j \in 1..N : k < j => ~Ends(list[j], D)
      BY <1>5
  <2>2. k \in 1..Len(new) /\ Tells(new[k], D)
      BY <1>1, <1>3, <2>1
  <2>3. \A j \in 1..Len(new) : k < j => ~Ends(new[j], D)
      BY <1>1, <1>2, <2>1
  <2>4. ToldBy(new, D, link)
      BY <2>2, <2>3 DEF ToldBy
  <2> QED
      BY <2>4 DEF new
<1>6. CASE link /\ \A j \in 1..N : ~Ends(list[j], D)
  <2>1. \A j \in 1..Len(new) : ~Ends(new[j], D)
      BY <1>1, <1>2, <1>6
  <2>2. ToldBy(new, D, link)
      BY <1>6, <2>1 DEF ToldBy
  <2> QED
      BY <2>2 DEF new
<1> QED
    BY <1>4, <1>5, <1>6 DEF ToldBy

(* Something that tells, or an answer, at the end of the list.              *)
LEMMA TellAppend ==
    ASSUME NEW S, NEW list \in Seq(S), NEW x \in S, NEW D, NEW link,
           Answers(x) \/ Tells(x, D)
    PROVE  ToldBy(Append(list, x), D, link)
<1> DEFINE new == Append(list, x)
           N == Len(list)
<1>1. /\ N \in Nat /\ Len(new) = N + 1 /\ new[N + 1] = x
    OBVIOUS
<1>2. N + 1 \in 1..Len(new) /\ \A j \in 1..Len(new) : ~(N + 1 < j)
    BY <1>1
<1> HIDE DEF new
<1>3. ToldBy(new, D, link)
  <2>1. CASE Answers(x)
      BY <1>1, <1>2, <2>1 DEF ToldBy
  <2>2. CASE Tells(x, D)
      BY <1>1, <1>2, <2>2 DEF ToldBy
  <2> QED
      BY <2>1, <2>2
<1> QED
    BY <1>3 DEF new

(* The first element is handled: now means linked.                          *)
LEMMA ToldTail ==
    ASSUME NEW S, NEW list \in Seq(S), list # <<>>, NEW D, NEW link, NEW now,
           ~Answers(Head(list)), Tells(Head(list), D) => now,
           link /\ ~Ends(Head(list), D) => now, ToldBy(list, D, link)
    PROVE  ToldBy(Tail(list), D, now)
<1> DEFINE rest == Tail(list)
           N == Len(rest)
<1>1. /\ N \in Nat /\ Len(list) = N + 1 /\ list[1] = Head(list)
      /\ \A k \in 1..N : rest[k] = list[k + 1]
    OBVIOUS
<1>2. /\ \A k \in 1..N : k + 1 \in 1..Len(list)
      /\ \A k \in 1..Len(list) : k = 1 \/ (k - 1 \in 1..N /\ k = (k - 1) + 1)
      /\ 1 \in 1..Len(list)
    BY <1>1
<1> HIDE DEF rest
<1>4. CASE \E k \in 1..Len(list) : Answers(list[k])
  <2>1. PICK k \in 1..Len(list) : Answers(list[k])
      BY <1>4
  <2>2. k - 1 \in 1..N /\ Answers(rest[k - 1])
      BY <1>1, <1>2, <2>1
  <2>3. ToldBy(rest, D, now)
      BY <2>2 DEF ToldBy
  <2> QED
      BY <2>3 DEF rest
<1>5. CASE \E k \in 1..Len(list) :
              /\ Tells(list[k], D)
              /\ \A j \in 1..Len(list) : k < j => ~Ends(list[j], D)
  <2>1. PICK k \in 1..Len(list) :
              /\ Tells(list[k], D)
              /\ \A j \in 1..Len(list) : k < j => ~Ends(list[j], D)
      BY <1>5
  <2>2. \A j \in 1..N : k < j + 1 => ~Ends(rest[j], D)
      BY <1>1, <1>2, <2>1
  <2>3. CASE k = 1
    <3>1. now
        BY <1>1, <2>1, <2>3
    <3>2. \A j \in 1..N : 1 < j + 1
        BY <1>1
    <3>3. \A j \in 1..N : ~Ends(rest[j], D)
        BY <2>2, <2>3, <3>2
    <3>4. ToldBy(rest, D, now)
        BY <3>1, <3>3 DEF ToldBy
    <3> QED
        BY <3>4 DEF rest
  <2>4. CASE k # 1
    <3>1. k - 1 \in 1..N /\ Tells(rest[k - 1], D)
        BY <1>1, <1>2, <2>1, <2>4
    <3>2. \A j \in 1..N : k - 1 < j => ~Ends(rest[j], D)
        BY <1>1, <2>2
    <3>3. ToldBy(rest, D, now)
        BY <3>1, <3>2 DEF ToldBy
    <3> QED
        BY <3>3 DEF rest
  <2> QED
      BY <2>3, <2>4
<1>6. CASE link /\ \A j \in 1..Len(list) : ~Ends(list[j], D)
  <2>1. \A j \in 1..N : ~Ends(rest[j], D)
      BY <1>1, <1>2, <1>6
  <2>2. now
      BY <1>1, <1>2, <1>6
  <2>3. ToldBy(rest, D, now)
      BY <2>1, <2>2 DEF ToldBy
  <2> QED
      BY <2>3 DEF rest
<1> QED
    BY <1>4, <1>5, <1>6 DEF ToldBy

(* New nodes change nothing about the events that are queued.               *)
LEMMA ToldGrows ==
    ASSUME Heap, Lists, Grows, NEW link, ToldBy(events, Defined, link)
    PROVE  ToldBy(events, Defined', link)
<1>1. ASSUME NEW k \in 1..Len(events)
      PROVE  /\ Tells(events[k], Defined) <=> Tells(events[k], Defined')
             /\ Ends(events[k], Defined) <=> Ends(events[k], Defined')
  <2>1. events[k] \in Refs(Len(node), Defined, objects)
      BY DEF Lists
  <2>2. events[k].node \in 0..Len(node)
      BY <2>1 DEF Refs
  <2>3. Len(node) \in Nat /\ Len(node') \in Nat /\ Len(node) <= Len(node')
      BY Sizes, NewSizes DEF Grows
  <2>4. events[k].node \in Defined <=> events[k].node \in Defined'
    <3>1. CASE events[k].node = 0
        BY <2>3, <3>1 DEF Defined
    <3>2. CASE events[k].node # 0
      <4>1. events[k].node \in 1..Len(node) /\ events[k].node \in 1..Len(node')
          BY <2>2, <2>3, <3>2
      <4> QED
          BY <4>1 DEF Defined, Grows
    <3> QED
        BY <3>1, <3>2
  <2> QED
      BY <2>4 DEF Tells, Ends
<1> QED
    BY <1>1 DEF ToldBy

(* The defined nodes of the store are the same nodes.                       *)
LEMMA StoreGrows ==
    ASSUME Heap, Grows
    PROVE  store \cap Defined' = store \cap Defined
<1>1. /\ Len(node) \in Nat /\ Len(node') \in Nat /\ Len(node) <= Len(node')
      /\ store \subseteq 1..Len(node)
    BY Sizes, NewSizes DEF Grows, Heap
<1>2. ASSUME NEW n \in store
      PROVE  n \in Defined <=> n \in Defined'
  <2>1. n \in 1..Len(node) /\ n \in 1..Len(node')
      BY <1>1
  <2> QED
      BY <2>1 DEF Defined, Grows
<1> QED
    BY <1>2
(* What is left to show of a step that puts no defined node in the store.   *)
LEMMA ToldKept ==
    ASSUME Heap, Lists, Grows, ToldInv,
           ghost => ghost' \/ store' \cap Defined' = {},
           store' \cap Defined' \subseteq store,
           ToldBy(events, Defined', linked) => ToldBy(events', Defined', linked')
    PROVE  ToldInv'
<1>1. CASE ghost
    BY <1>1 DEF ToldInv
<1>2. CASE store \cap Defined = {}
  <2>1. store' \cap Defined' = {}
      BY <1>2, StoreGrows
  <2> QED
      BY <2>1 DEF ToldInv
<1>3. CASE ToldBy(events, Defined, linked)
  <2>1. ToldBy(events', Defined', linked')
      BY <1>3, ToldGrows
  <2> QED
      BY <2>1 DEF ToldInv
<1> QED
    BY <1>1, <1>2, <1>3 DEF ToldInv

(* An item that is nobody's end.                                            *)
LEMMA NotAnEnd ==
    ASSUME NEW type, NEW n, NEW i, NEW o, NEW flag, NEW D, type # "END"
    PROVE  ~Ends(Item(type, n, i, o, flag), D)
BY DEF Ends, Item

(* The events but the first, when that does not bear on forwarding.         *)
LEMMA ToldRest ==
    ASSUME NEW S, events \in Seq(S), events # <<>>, NEW D, NEW link,
           Head(events).type \notin {"NEW", "END", "UPDATED"},
           ~Answers(Head(events)), ToldBy(events, D, link)
    PROVE  ToldBy(Tail(events), D, link)
<1>1. ~Tells(Head(events), D)
    BY DEF Tells
<1> QED
    BY <1>1, ToldTail

LEMMA QuietTold ==
    ASSUME IInv, ToldInv,
           \/ Connectivity \/ onNeighborInterfaceUp \/ onReceiveThirdParty
           \/ _retrieveNode \/ _insertNode \/ _insertDataObject
           \/ onDelayedDataObjectQuery
           \/ \E i \in Ifaces \cup {ThirdParty} : onVerifiedDescription(i),
           Grows
    PROVE  ToldInv'
<1> USE DEF ifaceVars, nodeVars, forwardingVars, counters
<1>0. /\ Heap /\ Lists /\ events \in Seq(Refs(Len(node), Defined, objects))
    BY DEF IInv, Lists
<1>1. UNCHANGED <<store, linked, ghost>>
    BY DEF Connectivity, report_interface, report_dead, onNeighborInterfaceUp,
           onReceiveThirdParty, _retrieveNode, _insertNode, _insertDataObject,
           onDelayedDataObjectQuery, onVerifiedDescription
<1> DEFINE Kept == ToldBy(events, Defined', linked) => ToldBy(events', Defined', linked)
<1>a. ASSUME UNCHANGED events PROVE Kept
    BY <1>a
<1>b. ASSUME NEW type, NEW n, NEW i, NEW o, NEW flag, type # "END",
             events' = Append(events, Item(type, n, i, o, flag))
      PROVE  Kept
  <2> DEFINE x == Item(type, n, i, o, flag)
             R == Refs(Len(node), Defined, objects) \cup {x}
  <2>1. ~Ends(x, Defined')
      BY <1>b, NotAnEnd
  <2>2. events' = Append(events, x) /\ x \in R
      BY <1>b
  <2> HIDE DEF x
  <2>3. events \in Seq(R)
      BY <1>0
  <2> HIDE DEF R
  <2> QED
      BY <2>1, <2>2, <2>3, ToldAppend
<1>c. ASSUME events # <<>>, events' = Tail(events),
             Event.type \in {"UP", "DESCRIPTION"}
      PROVE  Kept
  <2>1. Head(events).type \notin {"NEW", "END", "UPDATED"} /\ ~Answers(Head(events))
      BY <1>c DEF Event, Answers
  <2> QED
      BY <1>0, <1>c, <2>1, ToldRest
<1>2. Kept
  <2>1. ASSUME NEW i \in Ifaces, report_interface(i) PROVE Kept
      BY <1>b, <2>1 DEF report_interface
  <2>2. ASSUME NEW i \in Ifaces, report_dead(i) PROVE Kept
      BY <1>b, <2>2 DEF report_dead
  <2>3. CASE onNeighborInterfaceUp
      BY <1>c, <2>3 DEF onNeighborInterfaceUp, Dispatch, Event
  <2>4. CASE onReceiveThirdParty
      BY <1>c, <2>4 DEF onReceiveThirdParty, Dispatch, Event
  <2>5. CASE _retrieveNode
    <3>1. \E n, i, o : events' = Append(events, Item("retrieved", n, i, o, FALSE))
        BY <2>5 DEF _retrieveNode, UnknownInterface, AboutNode
    <3> QED
        BY <1>b, <3>1
  <2>6. CASE _insertNode
    <3>1. \/ UNCHANGED events
          \/ events' = Append(events, Item("inserted", Head(tasks).node,
                                           ThirdParty, 0, FALSE))
        BY <2>6 DEF _insertNode, AboutNode
    <3> QED
        BY <1>a, <1>b, <3>1
  <2>7. CASE _insertDataObject
      BY <1>b, <2>7 DEF _insertDataObject
  <2>8. CASE onDelayedDataObjectQuery
      BY <1>a, <2>8 DEF onDelayedDataObjectQuery
  <2>9. CASE \E i \in Ifaces \cup {ThirdParty} : onVerifiedDescription(i)
      BY <1>a, <2>9 DEF onVerifiedDescription
  <2> HIDE DEF Kept
  <2> QED
      BY <2>1, <2>2, <2>3, <2>4, <2>5, <2>6, <2>7, <2>8, <2>9 DEF Connectivity
<1> QED
    BY <1>0, <1>1, <1>2, ToldKept

(* The answer is put in the store, and told of.                             *)
LEMMA RetrievedTold ==
    ASSUME IInv, ToldInv, onRetrieveNode, Grows
    PROVE  ToldInv'
<1> USE DEF ifaceVars, nodeVars, forwardingVars, counters
<1>0. /\ Heap /\ Lists /\ events \in Seq(Refs(Len(node), Defined, objects))
    BY DEF IInv, Lists
<1>1. /\ events # <<>> /\ Event = Head(events) /\ Event.type = "retrieved"
      /\ Event \in Refs(Len(node), Defined, objects) /\ UNCHANGED linked
      /\ ghost => ghost' \/ store' \cap Defined' = {}
  <2>1. ghost' = (ghost /\ DescribedInStore')
      BY DEF onRetrieveNode
  <2>2. ~DescribedInStore' => store' \cap Defined' = {}
      BY DEF DescribedInStore, Defined
  <2> QED
      BY <1>0, <2>1, <2>2, FirstRef DEF onRetrieveNode, Dispatch, Event
<1> DEFINE n == IF Event.node # 0 THEN Event.node ELSE Len(node')
           x == AboutNode("NEW", n, FALSE)
           R == Refs(Len(node), Defined, objects) \cup {x}
<1>2. /\ PutInStore(node', n) /\ events' = Append(Tail(events), x)
      /\ Event.node = 0 => node' = Append(node, Node(FALSE, [j \in {Event.iface} |-> Event.obj]))
    BY DEF onRetrieveNode
<1>3. /\ x.type = "NEW" /\ x.node = n /\ x \in R
    BY DEF AboutNode, Item
<1>4. Tail(events) \in Seq(R)
  <2> HIDE DEF x
  <2>1. events \in Seq(R)
      BY <1>0
  <2> HIDE DEF R
  <2> QED
      BY <1>1, <2>1, FirstRef
<1>5. CASE Event.node # 0
  <2>1. Event.node \in Defined /\ n = Event.node
      BY <1>1, <1>5 DEF Refs
  <2>2. n \in Defined'
    <3>1. /\ n \in 1..Len(node) /\ node[n].defined /\ Len(node) \in Nat
          /\ Len(node') \in Nat /\ Len(node) <= Len(node')
        BY <1>0, <2>1, Sizes, NewSizes DEF Defined, Grows
    <3>2. n \in 1..Len(node')
        BY <3>1
    <3> QED
        BY <3>1, <3>2 DEF Defined, Grows
  <2> HIDE DEF n, x, R
  <2>3. Tells(x, Defined')
      BY <1>3, <2>2 DEF Tells
  <2>4. ToldBy(events', Defined', linked')
      BY <1>2, <1>3, <1>4, <2>3, TellAppend
  <2> QED
      BY <2>4 DEF ToldInv
<1>6. CASE Event.node = 0
  <2>1. n = Len(node') /\ n \notin Defined'
    <3> DEFINE y == Node(FALSE, [j \in {Event.iface} |-> Event.obj])
    <3>1. node' = Append(node, y) /\ ~y.defined
        BY <1>2, <1>6 DEF Node
    <3> HIDE DEF y
    <3>2. node'[Len(node')] = y
        BY <1>0, <3>1 DEF Heap
    <3> QED
        BY <1>6, <3>1, <3>2 DEF Defined
  <2> HIDE DEF n, x, R
  <2>2. store' \cap Defined' \subseteq store
      BY <1>2, <2>1 DEF PutInStore
  <2>3. ~Answers(Head(events)) /\ Head(events).type \notin {"NEW", "END", "UPDATED"}
      BY <1>1, <1>6 DEF Answers
  <2>4. ~Ends(x, Defined')
      BY <1>3 DEF Ends
  <2>5. ASSUME ToldBy(events, Defined', linked)
        PROVE  ToldBy(events', Defined', linked')
    <3>1. ToldBy(Tail(events), Defined', linked)
        BY <1>0, <1>1, <2>3, <2>5, ToldRest
    <3> QED
        BY <1>1, <1>2, <1>3, <1>4, <2>4, <3>1, ToldAppend
  <2> QED
      BY <1>0, <1>1, <2>2, <2>5, ToldKept
<1> QED
    BY <1>5, <1>6

(* With the end of a defined node no other defined node is left: it would   *)
(* have the same interfaces.                                                *)
LEMMA DownTold ==
    ASSUME IInv, ToldInv, onNeighborInterfaceDown, Grows
    PROVE  ToldInv'
<1> USE DEF ifaceVars, nodeVars, forwardingVars, counters
<1>0. /\ Heap /\ Lists /\ events \in Seq(Refs(Len(node), Defined, objects))
      /\ OneRecordPerInterface
    BY DEF IInv, Lists
<1>1. /\ events # <<>> /\ Event = Head(events) /\ Event.type = "DOWN"
      /\ UNCHANGED <<linked, node>>
      /\ ghost => ghost' \/ store' \cap Defined' = {}
  <2>1. ghost' = (ghost /\ DescribedInStore')
      BY DEF onNeighborInterfaceDown
  <2>2. ~DescribedInStore' => store' \cap Defined' = {}
      BY DEF DescribedInStore, Defined
  <2> QED
      BY <2>1, <2>2 DEF onNeighborInterfaceDown, Dispatch, Event
<1> DEFINE owner == {n \in store : hasInterface(node[n], Event.iface)}
           left == up \ {node[n].at[Event.iface] : n \in owner}
           lost == {n \in owner : ~isAvailable(node[n], left)}
           m == CHOOSE n \in lost : TRUE
           x == AboutNode("END", m, FALSE)
           R == Refs(Len(node), Defined, objects) \cup {x}
<1>2. /\ store' = store \ lost
      /\ IF lost = {} THEN events' = Tail(events)
         ELSE events' = Append(Tail(events), x)
    BY DEF onNeighborInterfaceDown
<1>3. /\ \A n \in lost : n \in store /\ Event.iface \in DOMAIN node[n].at
      /\ lost # {} => m \in lost
    BY DEF hasInterface
<1>4. x.type = "END" /\ x.node = m /\ x \in R
    BY DEF AboutNode, Item
<1>5. Tail(events) \in Seq(R)
  <2> HIDE DEF x
  <2>1. events \in Seq(R)
      BY <1>0
  <2> HIDE DEF R
  <2> QED
      BY <1>1, <2>1, FirstRef
<1> HIDE DEF owner, left, lost, m, x, R
<1>6. Defined' = Defined
    BY <1>1 DEF Defined
<1>7. ToldBy(events, Defined', linked) => ToldBy(Tail(events), Defined', linked)
  <2>1. Head(events).type \notin {"NEW", "END", "UPDATED"} /\ ~Answers(Head(events))
      BY <1>1 DEF Answers
  <2> QED
      BY <1>0, <1>1, <2>1, ToldRest
<1>8. CASE lost = {}
    BY <1>0, <1>1, <1>2, <1>7, <1>8, ToldKept
<1>9. CASE lost # {} /\ m \notin Defined
  <2>1. ~Ends(x, Defined')
      BY <1>4, <1>6, <1>9 DEF Ends
  <2>2. ToldBy(Tail(events), Defined', linked) => ToldBy(events', Defined', linked)
      BY <1>2, <1>4, <1>5, <1>9, <2>1, ToldAppend
  <2> QED
      BY <1>0, <1>1, <1>2, <1>7, <2>2, ToldKept
<1>10. CASE lost # {} /\ m \in Defined
  <2>1. \A r \in Defined : DOMAIN node[r].at = Ifaces
    <3>1. \A r \in 1..Len(node) : node[r] \in NodeObjects(objects)
        BY <1>0 DEF Heap
    <3> QED
        BY <3>1 DEF Defined, NodeObjects
  <2>2. m \in store /\ Event.iface \in Ifaces /\ m \in lost
      BY <1>3, <1>10, <2>1
  <2>3. \A r \in store \cap Defined : r = m
      BY <1>0, <1>10, <2>1, <2>2 DEF OneRecordPerInterface
  <2>4. store' \cap Defined' = {}
      BY <1>2, <1>6, <2>2, <2>3
  <2> QED
      BY <2>4 DEF ToldInv
<1> QED
    BY <1>8, <1>9, <1>10
(* A node that is put in the store is told of, unless it replaces only      *)
(* defined ones, of which forwarding was told, or will be.                  *)
LEMMA UpdateTold ==
    ASSUME IInv, ToldInv, Grows, events # <<>>, UNCHANGED <<linked, ghost>>,
           Event.type \in {"DESCRIPTION", "inserted"},
           NEW nodes, nodes = node', NEW n \in Defined', NEW u,
           nodeUpdate(nodes, n, u)
    PROVE  ToldInv'
<1>0. /\ Heap /\ Lists /\ events \in Seq(Refs(Len(node), Defined, objects))
    BY DEF IInv, Lists
<1> DEFINE replaced == Overlapping(nodes, n)
           flag == \E r \in replaced : ~nodes[r].defined
           a == AboutNode("UPDATED", n, flag)
           b == AboutNode("NEW", n, FALSE)
           c == AboutNode("UPDATED", n, FALSE)
           R == Refs(Len(node), Defined, objects) \cup {a, b, c}
<1>1. \/ /\ replaced # {} /\ PutInStore(nodes, n)
         /\ events' = Append(Tail(events), a)
      \/ PutInStore(nodes, n) /\ events' = Tail(events) \o <<b, c>>
      \/ UNCHANGED store /\ events' = Append(Tail(events), c)
    BY DEF nodeUpdate
<1>2. /\ a.type = "UPDATED" /\ b.type = "NEW" /\ c.type = "UPDATED"
      /\ b.node = n
    BY DEF AboutNode, Item
<1>3. a.flag = flag
    BY DEF AboutNode, Item
<1>4. /\ ~Ends(a, Defined') /\ ~Ends(b, Defined') /\ ~Ends(c, Defined')
      /\ Tells(b, Defined') /\ (flag => Tells(a, Defined'))
    BY <1>2, <1>3 DEF Ends, Tells
<1>5. ~flag => \A r \in replaced : nodes[r].defined
    OBVIOUS
<1> HIDE DEF flag, a, b, c
<1>6. events \in Seq(R) /\ a \in R /\ b \in R /\ c \in R
    BY <1>0
<1> HIDE DEF R
<1>7. Tail(events) \in Seq(R)
    BY <1>6, FirstRef
<1>8. ToldBy(events, Defined', linked) => ToldBy(Tail(events), Defined', linked)
  <2>1. Head(events).type \notin {"NEW", "END", "UPDATED"} /\ ~Answers(Head(events))
      BY DEF Answers, Event
  <2> QED
      BY <1>0, <2>1, ToldRest
<1>9. CASE /\ replaced # {} /\ PutInStore(nodes, n)
           /\ events' = Append(Tail(events), a)
  <2>1. CASE flag
    <3>1. ToldBy(events', Defined', linked')
        BY <1>4, <1>6, <1>7, <1>9, <2>1, TellAppend
    <3> QED
        BY <3>1 DEF ToldInv
  <2>2. CASE ~flag
    <3>1. PICK r \in replaced : nodes[r].defined
        BY <1>5, <1>9, <2>2
    <3>2. r \in store /\ node'[r].defined
        BY <3>1 DEF Overlapping
    <3>3. r \in store \cap Defined
      <4>1. r \in 1..Len(node)
          BY <1>0, <3>2 DEF Heap
      <4> QED
          BY <3>2, <4>1 DEF Defined, Grows
    <3>4. ghost \/ ToldBy(events, Defined', linked)
        BY <1>0, <3>3, ToldGrows DEF ToldInv
    <3>5. ghost \/ ToldBy(events', Defined', linked)
        BY <1>4, <1>6, <1>7, <1>8, <1>9, <3>4, ToldAppend
    <3> QED
        BY <3>5 DEF ToldInv
  <2> QED
      BY <2>1, <2>2
<1>10. CASE PutInStore(nodes, n) /\ events' = Tail(events) \o <<b, c>>
  <2> DEFINE one == Append(Tail(events), b)
  <2>1. one \in Seq(R) /\ ToldBy(one, Defined', linked')
      BY <1>4, <1>6, <1>7, TellAppend, AppendRef
  <2>2. events' = Append(one, c)
      BY <1>6, <1>7, <1>10
  <2> HIDE DEF one
  <2>3. ToldBy(events', Defined', linked')
      BY <1>4, <1>6, <2>1, <2>2, ToldAppend
  <2> QED
      BY <2>3 DEF ToldInv
<1>11. CASE UNCHANGED store /\ events' = Append(Tail(events), c)
  <2>1. ToldBy(Tail(events), Defined', linked) => ToldBy(events', Defined', linked')
      BY <1>4, <1>6, <1>7, <1>11, ToldAppend
  <2> QED
      BY <1>0, <1>8, <1>11, <2>1, ToldKept
<1> QED
    BY <1>1, <1>9, <1>10, <1>11

LEMMA DescribedTold ==
    ASSUME IInv, ToldInv, Grows, onReceiveNodeDescription \/ onInsertedNode
    PROVE  ToldInv'
<1> USE DEF ifaceVars, nodeVars, forwardingVars, counters
<1>0. Heap /\ Lists
    BY DEF IInv
<1>1. CASE onReceiveNodeDescription
  <2>1. /\ events # <<>> /\ UNCHANGED <<linked, ghost>>
        /\ Event.type = "DESCRIPTION" /\ node' = Append(node, Described)
        /\ objects' = objects + Cardinality(Ifaces)
        /\ nodeUpdate(node', Len(node'), up \cup {Described.at[Event.iface]})
      BY <1>1 DEF onReceiveNodeDescription, Dispatch, Event
  <2>2. Len(node') \in Defined'
      BY <1>0, <2>1, DescribedGrows
  <2> QED
      BY <2>1, <2>2, UpdateTold
<1>2. CASE onInsertedNode
  <2>1. /\ events # <<>> /\ UNCHANGED <<linked, ghost, node>>
        /\ Event = Head(events) /\ Event.type = "inserted"
        /\ nodeUpdate(node, Event.node, up)
      BY <1>2 DEF onInsertedNode, Dispatch, Event
  <2>2. Event \in Refs(Len(node), Defined, objects)
      BY <1>0, <2>1, FirstRef DEF Lists
  <2>3. Event.node \in Defined'
      BY <2>1, <2>2 DEF Refs, Defined
  <2> QED
      BY <2>1, <2>3, UpdateTold
<1> QED
    BY <1>1, <1>2

(* The handlers of the forwarding manager.                                  *)
LEMMA HandledTold ==
    ASSUME IInv, ToldInv, Grows, onNewNeighbor \/ onEndNeighbor \/ onNodeUpdated
    PROVE  ToldInv'
<1> USE DEF ifaceVars, nodeVars, forwardingVars
<1>0. /\ Heap /\ Lists /\ events \in Seq(Refs(Len(node), Defined, objects))
    BY DEF IInv, Lists
<1>1. /\ events # <<>> /\ Event = Head(events) /\ events' = Tail(events)
      /\ UNCHANGED <<node, store>>
      /\ Event.type \in {"NEW", "END", "UPDATED"}
    BY DEF onNewNeighbor, onEndNeighbor, onNodeUpdated, Dispatch, Event, Handled
<1>2. /\ ~Answers(Head(events)) /\ Defined' = Defined
    BY <1>1 DEF Answers, Defined
<1>3. Event.node \in 1..Len(node)
  <2>1. Event \in Refs(Len(node), Defined, objects)
      BY <1>0, <1>1, FirstRef
  <2>2. Event.node \in 0..Len(node) /\ Event.node # 0
      BY <1>1, <2>1 DEF Refs
  <2> QED
      BY <1>0, <2>2, Sizes
<1>4. Event.node \in Defined <=> node[Event.node].defined
    BY <1>3 DEF Defined
<1>5. /\ Tells(Event, Defined) => \/ ghost' \/ linked'
                                  \/ store \cap Defined = {}
      /\ linked /\ ~Ends(Event, Defined) => linked'
      /\ ghost => ghost'
  <2>1. CASE onNewNeighbor
    <3>1. Event.type = "NEW" /\ (node[Event.node].defined => linked')
          /\ (linked => linked') /\ UNCHANGED ghost
        BY <2>1 DEF onNewNeighbor, Dispatch, Event
    <3> QED
        BY <1>4, <3>1 DEF Tells
  <2>2. CASE onEndNeighbor
    <3>1. /\ Event.type = "END" /\ UNCHANGED ghost
          /\ ~node[Event.node].defined => linked' = linked
        BY <2>2 DEF onEndNeighbor, Dispatch, Event
    <3> QED
        BY <1>4, <3>1 DEF Tells, Ends
  <2>3. CASE onNodeUpdated
    <3>1. /\ Event.type = "UPDATED"
          /\ Event.flag => ghost' \/ linked' \/ ~DescribedInStore
          /\ (linked => linked') /\ (ghost => ghost')
        BY <2>3 DEF onNodeUpdated, Dispatch, Event
    <3>2. ~DescribedInStore => store \cap Defined = {}
        BY DEF DescribedInStore, Defined
    <3> QED
        BY <3>1, <3>2 DEF Tells
  <2> QED
      BY <2>1, <2>2, <2>3
<1>6. CASE ghost'
    BY <1>6 DEF ToldInv
<1>7. CASE store \cap Defined = {}
  <2>1. store' \cap Defined' = {}
      BY <1>1, <1>2, <1>7
  <2> QED
      BY <2>1 DEF ToldInv
<1>8. CASE ~ghost' /\ store \cap Defined # {}
  <2>1. ToldBy(events, Defined', linked) => ToldBy(events', Defined', linked')
      BY <1>0, <1>1, <1>2, <1>5, <1>8, ToldTail
  <2> QED
      BY <1>0, <1>1, <1>5, <2>1, ToldKept
<1> QED
    BY <1>6, <1>7, <1>8

(* No node object goes away or loses its definition.                        *)
LEMMA StepGrows ==
    ASSUME IInv, Next
    PROVE  Grows
<1> USE DEF ifaceVars, nodeVars, forwardingVars, counters
<1>0. /\ Heap /\ Lists /\ Rest /\ objects \in Nat
      /\ events \in Seq(Refs(Len(node), Defined, objects))
    BY DEF IInv, Lists, Heap
<1>1. CASE Connectivity
  <2>1. UNCHANGED node /\ (objects' = objects \/ objects' = objects + 1)
      BY <1>1 DEF Connectivity, report_interface, report_dead
  <2>2. objects' \in Nat /\ objects <= objects'
      BY <1>0, <2>1
  <2> QED
      BY <1>0, <2>1, <2>2, SameNodesGrow
<1>2. CASE \/ onNeighborInterfaceUp \/ onNeighborInterfaceDown
           \/ onInsertedNode \/ onNewNeighbor \/ onEndNeighbor \/ onNodeUpdated
           \/ _insertDataObject \/ onDelayedDataObjectQuery
           \/ \E i \in Ifaces \cup {ThirdParty} : onVerifiedDescription(i)
  <2>1. UNCHANGED <<node, objects>>
      BY <1>2 DEF onNeighborInterfaceUp, onNeighborInterfaceDown,
         onInsertedNode, onNewNeighbor, onEndNeighbor, onNodeUpdated, Handled,
         _insertDataObject, onDelayedDataObjectQuery, onVerifiedDescription
  <2> QED
      BY <1>0, <2>1, UnchangedGrows
<1>3. CASE onReceiveNodeDescription \/ onReceiveThirdParty
  <2>1. \/ UNCHANGED <<node, objects>>
        \/ /\ node' = Append(node, Described)
           /\ objects' = objects + Cardinality(Ifaces)
      BY <1>3 DEF onReceiveNodeDescription, onReceiveThirdParty
  <2> QED
      BY <1>0, <2>1, UnchangedGrows, DescribedGrows
<1>4. CASE onRetrieveNode
  <2>1. Event \in Refs(Len(node), Defined, objects) /\ Event.type = "retrieved"
      BY <1>0, <1>4, FirstRef DEF onRetrieveNode, Dispatch, Event
  <2>2. CASE Event.node # 0
    <3>1. UNCHANGED <<node, objects>>
        BY <1>4, <2>2 DEF onRetrieveNode
    <3> QED
        BY <1>0, <3>1, UnchangedGrows
  <2>3. CASE Event.node = 0
    <3> DEFINE at == [j \in {Event.iface} |-> Event.obj]
    <3>1. node' = Append(node, Node(FALSE, at)) /\ UNCHANGED objects
        BY <1>4, <2>3 DEF onRetrieveNode
    <3>2. Event.iface \in Ifaces /\ Event.obj \in 1..objects
        BY <2>1, <2>3 DEF Refs
    <3>3. {Event.iface} \in SUBSET Ifaces /\ at \in [{Event.iface} -> 1..objects]
        BY <3>2
    <3> HIDE DEF at
    <3>4. Node(FALSE, at) \in NodeObjects(objects)
        BY <1>0, <3>3, ANode
    <3> DEFINE x == Node(FALSE, at)
    <3>5. node' = Append(node, x) /\ x \in NodeObjects(objects')
        BY <3>1, <3>4
    <3>6. objects' \in Nat /\ objects <= objects'
        BY <1>0, <3>1
    <3> HIDE DEF x
    <3> QED
        BY <1>0, <3>5, <3>6, AppendGrows
  <2> QED
      BY <2>2, <2>3
<1>5. CASE _retrieveNode
  <2>1. CASE known
    <3> DEFINE n == IF InTable # {} THEN CHOOSE n \in InTable : TRUE
                    ELSE Len(node) + 1
    <3>1. createNode(n) /\ (n \in InTable \/ n = Len(node) + 1)
        BY <1>5, <2>1 DEF _retrieveNode
    <3> HIDE DEF n
    <3> QED
        BY <1>0, <3>1, CreateGrows
  <2>2. CASE ~known
    <3>1. UNCHANGED <<node, objects>>
        BY <1>5, <2>2 DEF _retrieveNode
    <3> QED
        BY <1>0, <3>1, UnchangedGrows
  <2> QED
      BY <2>1, <2>2
<1>6. CASE _insertNode
  <2> DEFINE n == CHOOSE n \in InTable : TRUE
  <2>1. UNCHANGED <<node, objects>> \/ (createNode(n) /\ n \in InTable)
      BY <1>6 DEF _insertNode
  <2> HIDE DEF n
  <2> QED
      BY <1>0, <2>1, UnchangedGrows, CreateGrows
<1> QED
    BY <1>1, <1>2, <1>3, <1>4, <1>5, <1>6 DEF Next, Kernel, Store

(* A described neighbour is known to the forwarding module, or an event is  *)
(* queued that will tell, whatever the order of interfaces, answers and     *)
(* descriptions (onNewNeighbor, onNodeUpdated, createNode), unless the      *)
(* described node in the store, or the one it replaced, was gone when the   *)
(* update that described it was handled.                                    *)
THEOREM NeighborTold == Spec => []NeighborIsTold
<1>1. Init => ToldInv
    BY DEF Init, ToldInv
<1>2. IInv /\ ToldInv /\ [Next]_vars => ToldInv'
  <2> SUFFICES ASSUME IInv, ToldInv, [Next]_vars PROVE ToldInv'
      OBVIOUS
  <2>1. CASE UNCHANGED vars
      BY <2>1 DEF ToldInv, Defined, vars, ifaceVars, nodeVars, forwardingVars,
         counters
  <2>2. CASE Next
    <3>1. Grows
        BY <2>2, StepGrows
    <3> QED
        BY <2>2, <3>1, QuietTold, RetrievedTold, DownTold, DescribedTold,
           HandledTold DEF Next, Kernel, Store
  <2> QED
      BY <2>1, <2>2
<1>3. IInv /\ ToldInv => NeighborIsTold
  <2> SUFFICES ASSUME IInv, ToldInv, ~ghost, NEW n \in Neighbors, node[n].defined
               PROVE  linked \/ Queued({"NEW", "UPDATED", "retrieved"})
      BY DEF NeighborIsTold
  <2>1. n \in store \cap Defined
      BY DEF IInv, Heap, Neighbors, Defined
  <2>2. ToldBy(events, Defined, linked)
      BY <2>1 DEF ToldInv
  <2> QED
      BY <2>2 DEF ToldBy, Answers, Tells, Queued
<1> QED
    BY <1>1, <1>2, <1>3, Invariance, PTL DEF Spec
=============================================================================
