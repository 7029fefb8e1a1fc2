----------------------------- MODULE JsonStore ------------------------------
(***************************************************************************)
(* The arrays and objects of ArduinoJson in a DynamicJsonBuffer: blocks of *)
(* memory that are filled from the front and never given back one by one,  *)
(* and in them the nodes of linked lists, containers and copies of strings.*)
(* An array and an object, with any others nested in them, are changed     *)
(* until the heap is used up, and on.                                      *)
(***************************************************************************)
EXTENDS Integers, FiniteSets, SequencesExt

CONSTANTS
    InitialSize,    \* capacity of the first block
    HeapSize,       \* bytes malloc() has
    BlockHeader,    \* EmptyBlockSize
    NodeBytes,      \* of a node with a value
    ContainerBytes, \* of a JsonArray or a JsonObject
    Keys,           \* keys of the object: literals, which are not copied
    Given,          \* values: how they are saved, and the length of their text
    MaxOperations

StoreAssumption ==
    /\ {InitialSize, HeapSize, BlockHeader, NodeBytes, ContainerBytes, MaxOperations} \subseteq Nat
    /\ \A v \in Given : v.save \in {"plain", "duplicate", "parsed"} /\ v.length \in Nat

VARIABLES
    mem,        \* the buffer: blocks (the head first), _nextBlockCapacity, what
                \* is left of the heap, and what lies in the blocks
    nodes,      \* the nodes by their address
    firstNode,  \* of the array and of the object
    meant,      \* by reference, what they hold: a sequence of values or pairs
    operations  \* so far

storeVars == <<mem, nodes, firstNode, meant, operations>>

Address(b, n) == [block |-> b, at |-> n]
Null == Address(0, 0)

\* A value that has not been saved.
Undefined == [save |-> "none", length |-> 0]

-----------------------------------------------------------------------------
(* DynamicJsonBuffer                                                         *)

RoundUp(n) == ((n + 3) \div 4) * 4

alignNextAlloc(m) == IF m.blocks = <<>> THEN m ELSE [m EXCEPT !.blocks[1].size = RoundUp(@)]

canAllocInHead(m, bytes) ==
    m.blocks # <<>> /\ m.blocks[1].size + bytes <= m.blocks[1].capacity

allocInHead(m, bytes) ==
    [mem |-> [m EXCEPT !.blocks[1].size = @ + bytes],
     to |-> Address(m.blocks[1].id, m.blocks[1].size)]

addNewBlock(m, capacity) ==
    [m EXCEPT !.blocks = <<[id |-> Len(m.blocks) + 1, capacity |-> capacity, size |-> 0]>> \o @,
              !.left = @ - BlockHeader - capacity]

allocInNewBlock(m, bytes) ==
    LET capacity == IF bytes > m.next THEN bytes ELSE m.next
    IN  IF BlockHeader + capacity > m.left THEN [mem |-> m, to |-> Null]
        ELSE allocInHead([addNewBlock(m, capacity) EXCEPT !.next = @ * 2], bytes)

alloc(m, bytes) ==
    LET a == alignNextAlloc(m)
    IN  IF canAllocInHead(a, bytes) THEN allocInHead(a, bytes) ELSE allocInNewBlock(a, bytes)

\* What has been put somewhere lies there until clear().
Put(got, bytes, aligned) ==
    IF got.to = Null THEN got
    ELSE [got EXCEPT !.mem.things = @ \cup {[in |-> got.to, bytes |-> bytes, aligned |-> aligned]}]

\* DynamicJsonBufferBase::String: the next character goes behind the last one
\* or, with all those before, to a new block.
appendChar(s) ==
    LET head  == allocInHead(s.mem, 1)
        moved == allocInNewBlock(s.mem, s.length + 1)
    IN  IF canAllocInHead(s.mem, 1)
        THEN [mem |-> head.mem, to |-> IF s.length = 0 THEN head.to ELSE s.to, length |-> s.length + 1]
        ELSE [mem |-> moved.mem, to |-> moved.to, length |-> s.length + 1]

\* Its characters and the null character.
ParsedString(m, length) ==
    LET all == FoldLeft(LAMBDA s, i : appendChar(s), [mem |-> m, to |-> Null, length |-> 0],
                        [i \in 1 .. length + 1 |-> i])
    IN  Put([mem |-> all.mem, to |-> all.to], length + 1, FALSE)

\* StringTraits::duplicate()
Duplicate(m, length) == Put(alloc(m, length + 1), length + 1, TRUE)

\* ValueSaver::save(), into a node that holds old.
Save(m, v, old) ==
    LET copy == IF v.save = "parsed" THEN ParsedString(m, v.length) ELSE Duplicate(m, v.length)
    IN  IF v.save \in {"plain", "none"} THEN [mem |-> m, ok |-> TRUE, value |-> v]
        ELSE [mem |-> copy.mem, ok |-> copy.to # Null, value |-> IF copy.to # Null THEN v ELSE old]

-----------------------------------------------------------------------------
(* List                                                                      *)

\* ListIterator: the node that many steps behind the first one, or Null.
NodeAt(first, index) ==
    LET walk[n \in Nat] ==
            IF n = 0 THEN first
            ELSE IF walk[n - 1] = Null THEN Null ELSE nodes[walk[n - 1]].next
    IN  walk[index]

size(list) ==
    CHOOSE n \in 0 .. Cardinality(DOMAIN nodes) :
        /\ NodeAt(firstNode[list], n) = Null
        /\ n = 0 \/ NodeAt(firstNode[list], n - 1) # Null

\* The nodes and the first one with a new node at the end of the list.
Linked(list, new, node) ==
    LET last == NodeAt(firstNode[list], size(list) - 1)
    IN  IF firstNode[list] = Null
        THEN [nodes |-> (new :> node) @@ nodes, first |-> new]
        ELSE [nodes |-> (new :> node) @@ [nodes EXCEPT ![last].next = new], first |-> firstNode[list]]

\* List::remove()
removeNode(list, node) ==
    IF firstNode[list] = node
    THEN firstNode' = [firstNode EXCEPT ![list] = nodes[node].next] /\ UNCHANGED nodes
    ELSE /\ nodes' = [p \in DOMAIN nodes |->
                        IF nodes[p].next = node THEN [nodes[p] EXCEPT !.next = nodes[node].next]
                        ELSE nodes[p]]
         /\ UNCHANGED firstNode

\* add(): a node behind the last one with a value that may fail to be saved,
\* in the memory m.
AddNode(m, list, key, v) ==
    LET got   == Put(alloc(m, NodeBytes), NodeBytes, TRUE)
        saved == Save(got.mem, v, Undefined)
        with  == Linked(list, got.to, [key |-> key, value |-> saved.value, next |-> Null])
    IN  IF got.to = Null
        THEN mem' = got.mem /\ UNCHANGED <<nodes, firstNode, meant>>
        ELSE /\ mem' = saved.mem
             /\ nodes' = with.nodes
             /\ firstNode' = [firstNode EXCEPT ![list] = with.first]
             /\ meant' = [meant EXCEPT ![list] =
                            Append(@, [key |-> key, value |-> IF saved.ok THEN v ELSE Undefined])]

SetNode(m, list, node, index, v) ==
    LET saved == Save(m, v, nodes[node].value)
    IN  /\ mem' = saved.mem
        /\ nodes' = [nodes EXCEPT ![node].value = saved.value]
        /\ meant' = IF saved.ok THEN [meant EXCEPT ![list][index].value = v] ELSE meant
        /\ UNCHANGED firstNode

-----------------------------------------------------------------------------
(* JsonArray and JsonObject                                                  *)

\* JsonArray::add_impl()
add(v) == AddNode(mem, "array", "none", v)

\* JsonArray::set_impl(), also behind array[index] = v: nothing beyond the end.
setAt(index, v) ==
    LET node == NodeAt(firstNode["array"], index)
    IN  IF node = Null THEN UNCHANGED <<mem, nodes, firstNode, meant>>
        ELSE SetNode(mem, "array", node, index + 1, v)

removeAt(index) ==
    LET node == NodeAt(firstNode["array"], index)
    IN  /\ IF node = Null THEN UNCHANGED <<nodes, firstNode>> ELSE removeNode("array", node)
        /\ meant' = IF index < Len(meant["array"])
                    THEN [meant EXCEPT !["array"] = RemoveAt(@, index + 1)] ELSE meant
        /\ UNCHANGED mem

\* JsonObject::findKey(): how far the first node with the key is, or the end.
findKey(key) ==
    CHOOSE n \in 0 .. size("object") :
        LET node == NodeAt(firstNode["object"], n) IN
        /\ node = Null \/ nodes[node].key = key
        /\ \A k \in 0 .. n - 1 : nodes[NodeAt(firstNode["object"], k)].key # key

\* JsonObject::set_impl(), also behind object[key] = v.
SetKey(m, key, v) ==
    LET node == NodeAt(firstNode["object"], findKey(key))
    IN  IF node = Null THEN AddNode(m, "object", key, v)
        ELSE SetNode(m, "object", node, findKey(key) + 1, v)

set(key, v) == SetKey(mem, key, v)

remove(key) ==
    LET node == NodeAt(firstNode["object"], findKey(key))
    IN  /\ IF node = Null THEN UNCHANGED <<nodes, firstNode>> ELSE removeNode("object", node)
        /\ meant' = [meant EXCEPT !["object"] = SelectSeq(@, LAMBDA p : p.key # key)]
        /\ UNCHANGED mem

\* createNestedArray() and createNestedObject(): without memory for the
\* container a value that is not defined is added all the same.
Nested == [save |-> "plain", length |-> 0]
Container(m) == Put(alloc(m, ContainerBytes), ContainerBytes, TRUE)
Reference(got) == IF got.to = Null THEN Undefined ELSE Nested

createNestedInArray ==
    LET got == Container(mem) IN AddNode(got.mem, "array", "none", Reference(got))
createNestedInObject(key) ==
    LET got == Container(mem) IN SetKey(got.mem, key, Reference(got))

\* All blocks go, with everything in them.
Empty(list) == [array |-> list, object |-> list]
clear ==
    LET oldest == mem.blocks[Len(mem.blocks)].capacity
    IN  /\ mem.blocks # <<>>
        /\ mem' = [blocks |-> <<>>, next |-> oldest, left |-> HeapSize, things |-> {}]
        /\ nodes' = <<>> /\ firstNode' = Empty(Null) /\ meant' = Empty(<<>>)

StoreInit ==
    /\ mem = [blocks |-> <<>>, next |-> InitialSize, left |-> HeapSize, things |-> {}]
    /\ nodes = <<>> /\ firstNode = Empty(Null) /\ meant = Empty(<<>>)
    /\ operations = 0

Indexes == 0 .. 2

StoreNext ==
    /\ operations < MaxOperations /\ operations' = operations + 1
    /\ \/ \E v \in Given : add(v)
       \/ \E v \in Given, i \in Indexes : setAt(i, v)
       \/ \E i \in Indexes : removeAt(i)
       \/ \E k \in Keys, v \in Given : set(k, v)
       \/ \E k \in Keys : remove(k) \/ createNestedInObject(k)
       \/ createNestedInArray
       \/ clear

-----------------------------------------------------------------------------
(* Properties                                                                *)

\* JsonArray::get() and JsonObject::get(), of what is not there the default.
getAt(index) ==
    LET node == NodeAt(firstNode["array"], index)
    IN  IF node = Null THEN Undefined ELSE nodes[node].value
get(key) ==
    LET node == NodeAt(firstNode["object"], findKey(key))
    IN  IF node = Null THEN Undefined ELSE nodes[node].value
containsKey(key) == NodeAt(firstNode["object"], findKey(key)) # Null

\* array[index] and object[key]: the place is looked for at every use.
AtIndex(index) == [success |-> index < size("array"), as |-> getAt(index)]
AtKey(key)     == [success |-> containsKey(key), as |-> get(key)]

\* JsonArray::copyTo() and the iterators: nodes from the first to the last.
Elements(list) == [i \in 1 .. size(list) |->
    LET n == nodes[NodeAt(firstNode[list], i - 1)] IN [key |-> n.key, value |-> n.value]]

BlockOf(t) == CHOOSE b \in Range(mem.blocks) : b.id = t.in.block

\* Whatever has been added, set, removed and nested, and wherever memory ran
\* out on the way: array and object hold what they were given, each key once,
\* and nothing in the buffer lies over anything else or beyond its block.
StoreKeepsValues ==
    /\ \A list \in {"array", "object"} : Elements(list) = meant[list]
    /\ \A i \in Indexes :
         IF i < Len(meant["array"])
         THEN AtIndex(i) = [success |-> TRUE, as |-> meant["array"][i + 1].value]
         ELSE AtIndex(i) = [success |-> FALSE, as |-> Undefined]
    /\ \A k \in Keys :
         LET at == {i \in DOMAIN meant["object"] : meant["object"][i].key = k}
         IN  /\ Cardinality(at) <= 1
             /\ AtKey(k).success <=> at # {}
             /\ \A i \in at : AtKey(k).as = meant["object"][i].value
    /\ \A t \in mem.things :
         /\ t.in.at + t.bytes <= BlockOf(t).size /\ BlockOf(t).size <= BlockOf(t).capacity
         /\ t.aligned => t.in.at % 4 = 0
         /\ \A u \in mem.things \ {t} :
              u.in.block = t.in.block => u.in.at + u.bytes <= t.in.at \/ t.in.at + t.bytes <= u.in.at
=============================================================================
