--------------------------------- MODULE Pool ---------------------------------
(***************************************************************************)
(* pool/pool.h: a pool of preallocated objects.  Each object sits in a     *)
(* descriptor; m_freeDesc lists the nodes whose descriptor may be handed   *)
(* out, m_freeNodes the nodes that hold nothing at the moment.  A node and *)
(* a descriptor are paired anew on every free, so after a few calls the    *)
(* two arrays are permuted against each other.                             *)
(***************************************************************************)
EXTENDS LinkedQueue, FiniteSets, Functions

CONSTANTS Size,     \* SIZE, the number of objects
          Foreign   \* objects of other pools, which a caller may pass to free

ASSUME PoolAssumption ==
    /\ Size \in Nat
    /\ Foreign \cap (1 .. Size) = {}
    /\ NULL \notin 1 .. Size

Desc == 1 .. Size
Node == 1 .. Size

VARIABLES freeDesc,   \* m_freeDesc
          freeNodes,  \* m_freeNodes
          data,       \* node->data, the descriptor the node points to
          allocated,  \* desc->allocated
          got,        \* the return value of the last alloc
          freed       \* the return value of the last free

poolVars == <<freeDesc, freeNodes, data, allocated, got, freed>>

\* Mutant: the owner is not checked.
OwnedByAny(d) == TRUE

\* desc->owner == this
OwnedByThis(d) == d \in Desc

(***************************************************************************)
(* The constructor pushes the nodes in index order; the nodes then lie in  *)
(* m_freeDesc with node 1 at the tail.                                     *)
(***************************************************************************)
Constructed ==
    LET built[i \in 0 .. Size] ==
            IF i = 0 THEN EmptyList(Node) ELSE PushNode(built[i - 1], i)
    IN  built[Size]

PoolInit ==
    /\ freeDesc = Constructed
    /\ freeNodes = EmptyList(Node)
    /\ data = [n \in Node |-> n]
    /\ allocated = [d \in Desc \cup Foreign |-> d \in Foreign]
    /\ got = NULL
    /\ freed = TRUE

\* alloc()
Alloc ==
    LET node == freeDesc.tail
    IN  IF node = NULL
        THEN /\ got' = NULL
             /\ UNCHANGED <<freeDesc, freeNodes, data, allocated, freed>>
        ELSE /\ freeDesc' = PopNode(freeDesc)
             /\ freeNodes' = PushNode(freeNodes, node)
             /\ allocated' = [allocated EXCEPT ![data[node]] = TRUE]
             /\ got' = data[node]
             /\ UNCHANGED <<data, freed>>

\* Mutant: a second free of an object is not noticed.
FreeRefusedUnchecked(d) == ~OwnedByThis(d) \/ freeNodes.tail = NULL

\* free(obj): refused unless the object is out, is of this pool, and a node
\* is left to carry it.
FreeRefused(d) ==
    \/ ~allocated[d]
    \/ ~OwnedByThis(d)
    \/ freeNodes.tail = NULL

Free(d) ==
    IF FreeRefused(d)
    THEN /\ freed' = FALSE
         /\ UNCHANGED <<freeDesc, freeNodes, data, allocated, got>>
    ELSE LET node == freeNodes.tail
         IN  /\ freeNodes' = PopNode(freeNodes)
             /\ allocated' = [allocated EXCEPT ![d] = FALSE]
             /\ data' = [data EXCEPT ![node] = d]
             /\ freeDesc' = PushNode(freeDesc, node)
             /\ freed' = TRUE
             /\ UNCHANGED got

\* Clients free what they hold, and, by mistake, what they freed before or
\* what another pool gave them.
PoolNext == Alloc \/ \E d \in Desc \cup Foreign : Free(d)

PoolSystem == PoolInit /\ [][PoolNext]_poolVars

-----------------------------------------------------------------------------
PoolTypeOK ==
    /\ freeDesc \in ListType(Node, 0 .. Size)
    /\ freeNodes \in ListType(Node, 0 .. Size)
    /\ data \in [Node -> Desc]
    /\ allocated \in [Desc \cup Foreign -> BOOLEAN]
    /\ got \in Desc \cup {NULL}
    /\ freed \in BOOLEAN

\* The nodes of a list in the order they are popped, and their descriptors.
NodesOf(q)  == PopOrder(q, Size + 1)
FreeObjects == LET nodes == NodesOf(freeDesc)
               IN  [i \in 1 .. Len(nodes) |-> data[nodes[i]]]
ObjectsOut  == {d \in Desc : allocated[d]}

(***************************************************************************)
(* Every node is on exactly one of the two lists, and m_freeNodes holds as *)
(* many nodes as there are objects out: a free of an object that is out    *)
(* finds a node (the NULL check at pool.h:70 never fires), and the sizes   *)
(* the lists count are the lengths of the lists.                           *)
(***************************************************************************)
NodesConserved ==
    LET offered == NodesOf(freeDesc)
        unused  == NodesOf(freeNodes)
    IN  /\ Range(offered) \cap Range(unused) = {}
        /\ Range(offered) \cup Range(unused) = Node
        /\ Len(offered) = freeDesc.size
        /\ Len(unused) = freeNodes.size
        /\ freeNodes.size = Cardinality(ObjectsOut)

(***************************************************************************)
(* The pool implements PoolSpec: the free objects, in the order the nodes  *)
(* of m_freeDesc are popped, are PoolSpec's free list.                     *)
(***************************************************************************)
Promise == INSTANCE PoolSpec WITH
    free <- FreeObjects, out <- ObjectsOut

ImplementsPoolSpec == Promise!Spec

\* PoolSpec's invariant, read through the refinement mapping.
FreeListExact == Promise!FreeListExact
================================================================================
