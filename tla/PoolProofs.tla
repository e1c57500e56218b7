------------------------------ MODULE PoolProofs ------------------------------
(***************************************************************************)
(* What Pool does with its two node lists, for pools of every size: the    *)
(* lists stay whole, no node is on both or on neither, and the pool        *)
(* implements PoolSpec.                                                    *)
(***************************************************************************)
EXTENDS Pool, QueueLemmas, FiniteSetTheorems

-----------------------------------------------------------------------------
(* Lists and free objects. *)

\* Both chains of links of a list lead through the nodes that it pops.
Whole(l) == NodesOf(l) \in Seq(Node) /\ HoldsList(l, NodesOf(l))

\* The nodes of a list, once its links are known.
LEMMA NodesKnown ==
    ASSUME NEW l, NEW s \in Seq(Node), HoldsList(l, s), l.size \in 0 .. Size
    PROVE  NodesOf(l) = s /\ Whole(l)
<1>1. Len(s) <= Size + 1 /\ Size + 1 \in Nat /\ NULL \notin Node
    BY PoolAssumption DEF HoldsList, Node
<1>2. NodesOf(l) = s
    BY <1>1, HeldOrders DEF NodesOf
<1>3. QED
    BY <1>2 DEF Whole

\* The list that the constructor builds.
LEMMA ConstructedHolds ==
    /\ [i \in 1 .. Size |-> i] \in Seq(Node)
    /\ Constructed \in ListType(Node, Int)
    /\ HoldsList(Constructed, [i \in 1 .. Size |-> i])
<1> DEFINE S == ListType(Node, Int)
           base == EmptyList(Node)
           step == [i \in 1 .. Size |-> [l \in S |-> PushNode(l, i)]]
           Step(g) == [i \in 0 .. Size |->
                          IF i = 0 THEN base ELSE PushNode(g[i - 1], i)]
           built == CHOOSE g : g = Step(g)
           Pushed(n) == [i \in 1 .. n |-> i]
           T == {n \in 0 .. Size : ~(/\ built[n] \in S
                                     /\ HoldsList(built[n], Pushed(n)))}
<1>1. Size \in Nat /\ NULL \notin Node
    BY PoolAssumption DEF Node
<1>2. base \in S
    BY ListIntro DEF EmptyList, ListType
<1>3. ASSUME NEW l \in S, NEW i \in 1 .. Size
      PROVE  PushNode(l, i) \in S
    BY <1>1, PushNodeType DEF Node
<1>4. PICK f : IteratesWithin(f, base, step, Size, S)
  <2>1. StepsWithin(step, Size, S)
      BY <1>3 DEF StepsWithin
  <2> HIDE DEF step, S, base
  <2>2. QED
      BY <1>1, <1>2, <2>1, RecursionExists
<1>5. \E g : g = Step(g)
  <2> DEFINE g == [i \in 0 .. Size |-> f[i]]
  <2>1. ASSUME NEW i \in 1 .. Size
        PROVE  f[i] = PushNode(f[i - 1], i)
    <3>1. i - 1 \in 0 .. Size
        BY <1>1
    <3>2. f[i - 1] \in S /\ f[i] = step[i][f[i - 1]]
        BY <1>4, <3>1 DEF IteratesWithin
    <3> HIDE DEF S
    <3>3. QED
        BY <3>2
  <2>2. \A i \in 0 .. Size :
            g[i] = IF i = 0 THEN base ELSE PushNode(g[i - 1], i)
    <3> HIDE DEF base, S
    <3>1. \A i \in 0 .. Size : i = 0 \/ (i \in 1 .. Size /\ i - 1 \in 0 .. Size)
        BY <1>1
    <3>2. f[0] = base
        BY <1>4 DEF IteratesWithin
    <3>3. QED
        BY <2>1, <3>1, <3>2
  <2>3. g = [i \in 0 .. Size |-> g[i]]
      OBVIOUS
  <2> HIDE DEF base, S, g
  <2>4. g = Step(g)
      BY <2>2, <2>3
  <2>5. QED
      BY <2>4
<1>6. built = Step(built)
  <2> HIDE DEF Step
  <2>1. QED
      BY <1>5
<1>7. \A n \in 0 .. Size : /\ Pushed(n) \in Seq(Node) /\ Len(Pushed(n)) = n
                           /\ \A i \in 1 .. n : Pushed(n)[i] = i
    BY <1>1 DEF Node
<1>8. ASSUME NEW n \in 1 .. Size
      PROVE  Pushed(n) = Append(Pushed(n - 1), n)
  <2> DEFINE p == Pushed(n - 1)
  <2>1. /\ n \in Node /\ n \in 0 .. Size /\ n - 1 \in 0 .. Size /\ n - 1 + 1 = n
        /\ \A i \in 1 .. n : i \in 1 .. n - 1 \/ i = n
      BY <1>1 DEF Node
  <2>2. p \in Seq(Node) /\ Len(p) = n - 1 /\ \A i \in 1 .. n - 1 : p[i] = i
      BY <1>7, <2>1
  <2> HIDE DEF p
  <2>3. /\ Append(p, n) \in Seq(Node) /\ Len(Append(p, n)) = n
        /\ \A i \in 1 .. n : Append(p, n)[i] = i
      BY <2>1, <2>2, AppendProperties
  <2>4. Pushed(n) = Append(p, n)
    <3>1. /\ Pushed(n) \in Seq(Node) /\ Len(Pushed(n)) = n
          /\ \A i \in 1 .. n : Pushed(n)[i] = i
        BY <1>7, <2>1
    <3> HIDE DEF Pushed
    <3>2. QED
        BY <2>3, <3>1, SeqEqual
  <2>5. QED
      BY <2>4 DEF p
<1>9. T = {}
  <2> SUFFICES ASSUME T # {} PROVE FALSE
      OBVIOUS
  <2> HIDE DEF built, Pushed, S, base
  <2>1. T \subseteq Nat
      BY <1>1
  <2>2. PICK n \in T : \A m \in T : <<m, n>> \notin OpToRel(<, Nat)
      BY <2>1, NatLessThanWellFounded, WFMin, Zenon
  <2>3. \A m \in T : ~(m < n)
      BY <2>1, <2>2 DEF OpToRel
  <2>4. n \in 0 .. Size /\ ~(built[n] \in S /\ HoldsList(built[n], Pushed(n)))
      BY <2>2
  <2>5. built[n] = IF n = 0 THEN base ELSE PushNode(built[n - 1], n)
      BY <1>6, <2>4
  <2>6. CASE n = 0
    <3>1. built[n] = base
        BY <2>5, <2>6
    <3>2. Pushed(n) = << >>
        BY <2>6 DEF Pushed
    <3>3. QED
        BY <1>2, <2>4, <3>1, <3>2, EmptyHolds DEF base
  <2>7. CASE n # 0
    <3>1. n \in 1 .. Size /\ n - 1 \in 0 .. Size /\ n - 1 < n /\ n \in Node
        BY <1>1, <2>4, <2>7 DEF Node
    <3>2. built[n - 1] \in S /\ HoldsList(built[n - 1], Pushed(n - 1))
        BY <2>3, <3>1
    <3>3. /\ Pushed(n - 1) \in Seq(Node)
          /\ \A i \in 1 .. Len(Pushed(n - 1)) : Pushed(n - 1)[i] # n
      <4>1. /\ Pushed(n - 1) \in Seq(Node) /\ Len(Pushed(n - 1)) = n - 1
            /\ \A i \in 1 .. n - 1 : Pushed(n - 1)[i] = i
          BY <1>7, <3>1
      <4>2. \A i \in 1 .. n - 1 : i # n
          BY <1>1, <3>1
      <4>3. QED
          BY <4>1, <4>2
    <3>4. HoldsList(PushNode(built[n - 1], n), Append(Pushed(n - 1), n))
        BY <1>1, <3>1, <3>2, <3>3, PushHolds DEF S
    <3>5. PushNode(built[n - 1], n) \in S
        BY <1>3, <3>1, <3>2
    <3>6. QED
        BY <1>8, <2>4, <2>5, <2>7, <3>1, <3>4, <3>5
  <2>8. QED
      BY <2>6, <2>7
<1>10. Constructed = built[Size]
    BY DEF Constructed
<1>11. Size \in 0 .. Size
    BY <1>1
<1> HIDE DEF built, S
<1>12. QED
    BY <1>7, <1>9, <1>10, <1>11 DEF S

-----------------------------------------------------------------------------
(* The inductive invariant. *)

IInv ==
    /\ PoolTypeOK
    /\ Whole(freeDesc)
    /\ Whole(freeNodes)
    /\ NodesConserved
    /\ freeDesc.size + freeNodes.size = Size
    /\ FreeListExact

\* What the type says of the lists.
LEMMA ListsTyped ==
    ASSUME NEW l \in ListType(Node, 0 .. Size)
    PROVE  l \in ListType(Node, Int) /\ l.size \in 0 .. Size
BY DEF ListType

\* PoolSpec's invariant in terms of the pool's own state.
LEMMA FreeListExactMeans ==
    FreeListExact <=> /\ NoDuplicates(FreeObjects)
                      /\ \A d \in Desc : d \in ObjectsOut
                            <=> \A i \in 1 .. Len(FreeObjects) : FreeObjects[i] # d
BY DEF FreeListExact, Promise!FreeListExact, NoDuplicates,
       Promise!NoDuplicates, Promise!Desc, Desc

\* The descriptors of the nodes of a list, and FreeObjects among them.
ObjectsOf(l, dat) ==
    LET nodes == NodesOf(l) IN [i \in 1 .. Len(nodes) |-> dat[nodes[i]]]

LEMMA FreeObjectsAre ==
    /\ FreeObjects = ObjectsOf(freeDesc, data)
    /\ FreeObjects' = ObjectsOf(freeDesc', data')
BY DEF FreeObjects, ObjectsOf, NodesOf

LEMMA ObjectsKnown ==
    ASSUME NEW l, NEW s \in Seq(Node), NodesOf(l) = s,
           NEW dat \in [Node -> Desc]
    PROVE  /\ ObjectsOf(l, dat) \in Seq(Desc)
           /\ Len(ObjectsOf(l, dat)) = Len(s)
           /\ \A i \in 1 .. Len(s) : ObjectsOf(l, dat)[i] = dat[s[i]]
<1>1. Len(s) \in Nat /\ \A i \in 1 .. Len(s) : s[i] \in Node
    BY LenProperties, ElementOfSeq
<1>2. ObjectsOf(l, dat) = [i \in 1 .. Len(s) |-> dat[s[i]]]
    BY DEF ObjectsOf
<1>3. \A i \in 1 .. Len(s) : dat[s[i]] \in Desc
    BY <1>1
<1>4. ObjectsOf(l, dat) \in Seq(Desc) /\ Len(ObjectsOf(l, dat)) = Len(s)
    BY <1>1, <1>2, <1>3
<1>5. QED
    BY <1>2, <1>4

\* A list is empty exactly when it has no tail, and what it pops is its tail.
LEMMA TailOfWhole ==
    ASSUME NEW l \in ListType(Node, 0 .. Size), Whole(l)
    PROVE  /\ Len(NodesOf(l)) = l.size
           /\ l.tail = NULL <=> NodesOf(l) = << >>
           /\ l.tail # NULL => /\ l.tail \in Node
                               /\ l.tail = NodesOf(l)[1]
                               /\ l.tail = Head(NodesOf(l))
                               /\ l.size > 0
<1> DEFINE s == NodesOf(l)
<1>1. /\ s \in Seq(Node) /\ l.size = Len(s)
      /\ l.tail = IF s = << >> THEN NULL ELSE s[1]
    BY DEF Whole, HoldsList
<1>2. Len(s) \in Nat /\ (s # << >> => Len(s) # 0 /\ Head(s) = s[1])
    BY <1>1, LenProperties, EmptySeq
<1>3. s # << >> => s[1] \in Node /\ s[1] # NULL
  <2>1. s # << >> => 1 \in 1 .. Len(s)
      BY <1>2
  <2>2. NULL \notin Node
      BY PoolAssumption DEF Node
  <2>3. QED
      BY <1>1, <2>1, <2>2, ElementOfSeq
<1> HIDE DEF s
<1>4. QED
    BY <1>1, <1>2, <1>3 DEF s

LEMMA PoolInitTyped == PoolInit => IInv
<1> SUFFICES ASSUME PoolInit PROVE IInv
    OBVIOUS
<1> DEFINE id == [i \in 1 .. Size |-> i]
<1>1. /\ Size \in Nat /\ NULL \notin Node
      /\ \A d \in Desc : d \notin Foreign
    BY PoolAssumption DEF Node, Desc
<1>2. /\ freeDesc = Constructed
      /\ freeNodes = EmptyList(Node)
      /\ data = [n \in Node |-> n]
      /\ allocated = [d \in Desc \cup Foreign |-> d \in Foreign]
      /\ got = NULL
      /\ freed = TRUE
    BY DEF PoolInit
<1>3. /\ id \in Seq(Node) /\ HoldsList(freeDesc, id)
      /\ freeDesc \in ListType(Node, Int)
    BY <1>2, ConstructedHolds
<1>4. Len(id) = Size /\ Range(id) = Node
    BY <1>1 DEF Range, Node
<1>5. freeDesc \in ListType(Node, 0 .. Size) /\ freeDesc.size \in 0 .. Size
  <2>1. freeDesc.size \in 0 .. Size
      BY <1>1, <1>3, <1>4 DEF HoldsList
  <2>2. QED
      BY <1>3, <2>1 DEF ListType
<1>6. NodesOf(freeDesc) = id /\ Whole(freeDesc)
  <2> HIDE DEF id
  <2>1. QED
      BY <1>3, <1>5, NodesKnown
<1>7. NodesOf(freeNodes) = << >> /\ Whole(freeNodes)
  <2>1. freeNodes.size \in 0 .. Size
      BY <1>1, <1>2 DEF EmptyList
  <2>2. << >> \in Seq(Node) /\ HoldsList(freeNodes, << >>)
      BY <1>2, EmptyHolds
  <2>3. QED
      BY <2>1, <2>2, NodesKnown
<1>8. PoolTypeOK
  <2>1. freeNodes \in ListType(Node, 0 .. Size)
      BY <1>1, <1>2 DEF EmptyList, ListType
  <2>2. /\ data \in [Node -> Desc]
        /\ got \in Desc \cup {NULL}
        /\ freed \in BOOLEAN
      BY <1>2 DEF Node, Desc
  <2>3. allocated \in [Desc \cup Foreign -> BOOLEAN]
      BY <1>2
  <2>4. QED
      BY <1>5, <2>1, <2>2, <2>3 DEF PoolTypeOK
<1>9. ObjectsOut = {}
    BY <1>1, <1>2 DEF ObjectsOut
<1>10. NodesConserved
  <2>1. Range(<< >>) = {} /\ Len(<< >>) = 0
      BY DEF Range
  <2>2. /\ Len(id) = freeDesc.size /\ Len(<< >>) = freeNodes.size
        /\ freeNodes.size = 0
      BY <1>2, <1>3, <2>1 DEF HoldsList, EmptyList
  <2>3. Cardinality(ObjectsOut) = 0
      BY <1>9, FS_EmptySet
  <2> HIDE DEF id
  <2>4. QED
      BY <1>4, <1>6, <1>7, <2>1, <2>2, <2>3 DEF NodesConserved
<1>11. FreeListExact
  <2>1. /\ Len(FreeObjects) = Size
        /\ \A i \in 1 .. Size : FreeObjects[i] = i
    <3>1. /\ Len(FreeObjects) = Len(id)
          /\ \A i \in 1 .. Len(id) : FreeObjects[i] = data[id[i]]
      <4>1. data \in [Node -> Desc]
          BY <1>8 DEF PoolTypeOK
      <4> HIDE DEF id
      <4>2. QED
          BY <1>3, <1>6, <4>1, FreeObjectsAre, ObjectsKnown
    <3>2. \A i \in 1 .. Size : data[id[i]] = i
        BY <1>2 DEF Node
    <3>3. QED
        BY <1>4, <3>1, <3>2
  <2>2. QED
      BY <1>9, <2>1, FreeListExactMeans DEF NoDuplicates, Desc
<1>12. freeDesc.size + freeNodes.size = Size
    BY <1>1, <1>2, <1>3, <1>4 DEF HoldsList, EmptyList
<1>13. QED
    BY <1>6, <1>7, <1>8, <1>10, <1>11, <1>12 DEF IInv

-----------------------------------------------------------------------------
(* The effect of the operations. *)

\* A list of the pool from which a node is popped.
LEMMA PopEffect ==
    ASSUME NEW l \in ListType(Node, 0 .. Size), Whole(l), l.tail # NULL
    PROVE  /\ PopNode(l) \in ListType(Node, 0 .. Size)
           /\ Whole(PopNode(l))
           /\ NodesOf(PopNode(l)) = Tail(NodesOf(l))
           /\ PopNode(l).size = l.size - 1
           /\ Range(NodesOf(PopNode(l))) = Range(NodesOf(l)) \ {l.tail}
<1> DEFINE s == NodesOf(l)
           p == PopNode(l)
<1>1. /\ s \in Seq(Node) /\ HoldsList(l, s) /\ NoDuplicates(s)
      /\ s # << >> /\ l.tail = Head(s) /\ Len(s) = l.size /\ l.size > 0
    BY TailOfWhole DEF Whole, HoldsList
<1>2. NULL \notin Node /\ Size \in Nat
    BY PoolAssumption DEF Node
<1>3. l \in ListType(Node, Int) /\ l.size \in 0 .. Size
    BY ListsTyped
<1> HIDE DEF s
<1>4. HoldsList(p, Tail(s))
    BY <1>1, <1>2, <1>3, PopHolds
<1>5. p \in ListType(Node, Int)
    BY <1>2, <1>3, PopNodeType
<1> HIDE DEF p
<1>6. Tail(s) \in Seq(Node) /\ Len(Tail(s)) = l.size - 1
    BY <1>1, HeadTailProperties
<1>7. p.size = l.size - 1 /\ p.size \in 0 .. Size
  <2>1. p.size = Len(Tail(s))
      BY <1>4 DEF HoldsList
  <2>2. QED
      BY <1>1, <1>2, <1>3, <1>6, <2>1
<1>8. p \in ListType(Node, 0 .. Size)
    BY <1>5, <1>7 DEF ListType
<1>9. NodesOf(p) = Tail(s) /\ Whole(p)
    BY <1>4, <1>6, <1>7, NodesKnown
<1>10. Range(Tail(s)) = Range(s) \ {Head(s)}
    BY <1>1, RangeTail
<1>11. QED
    BY <1>1, <1>7, <1>8, <1>9, <1>10 DEF s, p

\* A list of the pool onto which a node is pushed.
LEMMA PushEffect ==
    ASSUME NEW l \in ListType(Node, 0 .. Size), Whole(l),
           NEW n \in Node, n \notin Range(NodesOf(l)), l.size < Size
    PROVE  /\ PushNode(l, n) \in ListType(Node, 0 .. Size)
           /\ Whole(PushNode(l, n))
           /\ NodesOf(PushNode(l, n)) = Append(NodesOf(l), n)
           /\ PushNode(l, n).size = l.size + 1
           /\ Range(NodesOf(PushNode(l, n))) = Range(NodesOf(l)) \cup {n}
<1> DEFINE s == NodesOf(l)
           p == PushNode(l, n)
<1>1. /\ s \in Seq(Node) /\ HoldsList(l, s)
      /\ Len(s) = l.size
    BY TailOfWhole DEF Whole
<1>2. NULL \notin Node /\ Size \in Nat
    BY PoolAssumption DEF Node
<1>3. l \in ListType(Node, Int) /\ l.size \in 0 .. Size
    BY ListsTyped
<1> HIDE DEF s
<1>4. \A i \in 1 .. Len(s) : s[i] # n
  <2>1. Range(s) = {s[i] : i \in 1 .. Len(s)}
      BY <1>1, RangeEquality
  <2>2. n \notin Range(s)
      BY DEF s
  <2>3. QED
      BY <2>1, <2>2
<1>5. HoldsList(p, Append(s, n)) /\ p \in ListType(Node, Int)
    BY <1>1, <1>2, <1>3, <1>4, PushHolds
<1> HIDE DEF p
<1>6. Append(s, n) \in Seq(Node) /\ Len(Append(s, n)) = l.size + 1
    BY <1>1, AppendProperties
<1>7. p.size = l.size + 1 /\ p.size \in 0 .. Size
    BY <1>2, <1>3, <1>5, <1>6 DEF HoldsList
<1>8. p \in ListType(Node, 0 .. Size)
    BY <1>5, <1>7 DEF ListType
<1>9. NodesOf(p) = Append(s, n) /\ Whole(p)
    BY <1>5, <1>6, <1>7, NodesKnown
<1>10. Range(Append(s, n)) = Range(s) \cup {n}
    BY <1>1, RangeAppend
<1>11. QED
    BY <1>7, <1>8, <1>9, <1>10 DEF s, p

\* There are never more objects out than there are nodes.
LEMMA OutIsFinite ==
    /\ IsFiniteSet(ObjectsOut)
    /\ Cardinality(ObjectsOut) \in 0 .. Size
    /\ \A d \in Desc : d \notin ObjectsOut => Cardinality(ObjectsOut) < Size
<1>1. /\ IsFiniteSet(Desc) /\ Cardinality(Desc) = Size /\ Size \in Nat
  <2>1. /\ IsFiniteSet(1 .. Size)
        /\ Cardinality(1 .. Size) = IF 1 > Size THEN 0 ELSE Size - 1 + 1
        /\ Size \in Nat
      BY PoolAssumption, FS_Interval
  <2>2. QED
      BY <2>1 DEF Desc
<1>2. ObjectsOut \in SUBSET Desc
    BY DEF ObjectsOut
<1>3. /\ IsFiniteSet(ObjectsOut)
      /\ Cardinality(ObjectsOut) <= Size
      /\ Cardinality(ObjectsOut) = Size => ObjectsOut = Desc
    BY <1>1, <1>2, FS_Subset
<1>4. Cardinality(ObjectsOut) \in Nat
    BY <1>3, FS_CardinalityType
<1>5. QED
    BY <1>1, <1>3, <1>4

\* An alloc that finds a descriptor takes PoolSpec's next object.
LEMMA AllocEffect ==
    ASSUME IInv, Alloc, freeDesc.tail # NULL
    PROVE  /\ IInv'
           /\ FreeObjects # << >>
           /\ got' = Head(FreeObjects)
           /\ FreeObjects' = Tail(FreeObjects)
           /\ ObjectsOut' = ObjectsOut \cup {Head(FreeObjects)}
           /\ freed' = freed
<1> DEFINE node == freeDesc.tail
           fd == NodesOf(freeDesc)
           fn == NodesOf(freeNodes)
           objs == FreeObjects
           d == data[node]
<1>1. /\ PoolTypeOK /\ Whole(freeDesc) /\ Whole(freeNodes)
      /\ NodesConserved /\ FreeListExact
      /\ freeDesc.size + freeNodes.size = Size
    BY DEF IInv
<1>2. /\ freeDesc' = PopNode(freeDesc)
      /\ freeNodes' = PushNode(freeNodes, node)
      /\ allocated' = [allocated EXCEPT ![d] = TRUE]
      /\ got' = d
      /\ data' = data /\ freed' = freed
    BY DEF Alloc
<1>3. /\ freeDesc \in ListType(Node, 0 .. Size)
      /\ freeNodes \in ListType(Node, 0 .. Size)
      /\ data \in [Node -> Desc]
      /\ allocated \in [Desc \cup Foreign -> BOOLEAN]
      /\ freed \in BOOLEAN
    BY <1>1 DEF PoolTypeOK
<1>4. /\ Range(fd) \cap Range(fn) = {}
      /\ Range(fd) \cup Range(fn) = Node
      /\ Len(fd) = freeDesc.size
      /\ Len(fn) = freeNodes.size
      /\ freeNodes.size = Cardinality(ObjectsOut)
    BY <1>1 DEF NodesConserved
<1>5. /\ node \in Node /\ fd \in Seq(Node) /\ fd # << >>
      /\ node = fd[1] /\ 1 \in 1 .. Len(fd)
  <2>1. node \in Node /\ fd # << >> /\ node = fd[1]
      BY <1>1, <1>3, TailOfWhole
  <2>2. fd \in Seq(Node)
      BY <1>1 DEF Whole
  <2>3. Len(fd) \in Nat \ {0}
      BY <2>1, <2>2, EmptySeq
  <2>4. QED
      BY <2>1, <2>2, <2>3
<1>6. node \in Range(fd)
    BY <1>5, RangeEquality
<1>7. /\ objs \in Seq(Desc) /\ Len(objs) = Len(fd)
      /\ \A i \in 1 .. Len(objs) : objs[i] = data[fd[i]]
      /\ NoDuplicates(objs)
      /\ \A x \in Desc : x \in ObjectsOut <=> \A i \in 1 .. Len(objs) : objs[i] # x
  <2>1. /\ objs \in Seq(Desc) /\ Len(objs) = Len(fd)
        /\ \A i \in 1 .. Len(fd) : objs[i] = data[fd[i]]
      BY <1>3, <1>5, FreeObjectsAre, ObjectsKnown
  <2>2. QED
      BY <1>1, <2>1, FreeListExactMeans
<1>8. /\ objs # << >> /\ d = objs[1] /\ d = Head(objs)
      /\ d \in Desc /\ d \notin ObjectsOut
  <2>1. d = objs[1] /\ 1 \in 1 .. Len(objs)
      BY <1>5, <1>7
  <2>2. d \in Desc
      BY <1>3, <1>5
  <2>3. objs # << >>
      BY <2>1, EmptySeq
  <2> HIDE DEF objs, d
  <2>4. QED
      BY <1>7, <2>1, <2>2, <2>3
<1>9. /\ Cardinality(ObjectsOut) < Size
      /\ Cardinality(ObjectsOut \cup {d}) = Cardinality(ObjectsOut) + 1
    BY <1>8, OutIsFinite, FS_AddElement
<1>10. /\ freeDesc' \in ListType(Node, 0 .. Size)
       /\ Whole(freeDesc')
       /\ NodesOf(freeDesc') = Tail(fd)
       /\ freeDesc'.size = freeDesc.size - 1
       /\ Range(NodesOf(freeDesc')) = Range(fd) \ {node}
    BY <1>1, <1>2, <1>3, PopEffect
<1>11. /\ freeNodes' \in ListType(Node, 0 .. Size)
       /\ Whole(freeNodes')
       /\ NodesOf(freeNodes') = Append(fn, node)
       /\ freeNodes'.size = freeNodes.size + 1
       /\ Range(NodesOf(freeNodes')) = Range(fn) \cup {node}
  <2>1. node \notin Range(fn) /\ freeNodes.size < Size
      BY <1>4, <1>6, <1>9
  <2>2. QED
      BY <1>1, <1>2, <1>3, <1>5, <2>1, PushEffect
<1>12. ObjectsOut' = ObjectsOut \cup {d}
    BY <1>2, <1>3, <1>8 DEF ObjectsOut
<1>13. PoolTypeOK'
  <2>1. allocated' \in [Desc \cup Foreign -> BOOLEAN] /\ got' \in Desc
      BY <1>2, <1>3, <1>8
  <2>2. QED
      BY <1>2, <1>3, <1>10, <1>11, <2>1 DEF PoolTypeOK
<1>14. NodesConserved'
  <2>1. /\ Len(NodesOf(freeDesc')) = freeDesc'.size
        /\ Len(NodesOf(freeNodes')) = freeNodes'.size
      BY <1>10, <1>11, TailOfWhole
  <2>2. freeNodes'.size = Cardinality(ObjectsOut')
      BY <1>4, <1>9, <1>11, <1>12
  <2>3. /\ Range(NodesOf(freeDesc')) \cap Range(NodesOf(freeNodes')) = {}
        /\ Range(NodesOf(freeDesc')) \cup Range(NodesOf(freeNodes')) = Node
      BY <1>4, <1>6, <1>10, <1>11
  <2>4. QED
      BY <2>1, <2>2, <2>3 DEF NodesConserved, NodesOf
<1>15. FreeObjects' = Tail(objs)
  <2>1. /\ FreeObjects' \in Seq(Desc)
        /\ Len(FreeObjects') = Len(Tail(fd))
        /\ \A i \in 1 .. Len(Tail(fd)) : FreeObjects'[i] = data[Tail(fd)[i]]
    <3>1. Tail(fd) \in Seq(Node)
        BY <1>5, HeadTailProperties
    <3>2. FreeObjects' = ObjectsOf(freeDesc', data)
        BY <1>2, FreeObjectsAre
    <3>3. NodesOf(freeDesc') = Tail(fd) /\ data \in [Node -> Desc]
        BY <1>3, <1>10
    <3> HIDE DEF fd
    <3>4. /\ ObjectsOf(freeDesc', data) \in Seq(Desc)
          /\ Len(ObjectsOf(freeDesc', data)) = Len(Tail(fd))
          /\ \A i \in 1 .. Len(Tail(fd)) :
                ObjectsOf(freeDesc', data)[i] = data[Tail(fd)[i]]
        BY <3>1, <3>3, ObjectsKnown
    <3>5. QED
        BY <3>2, <3>4
  <2>2. /\ Tail(objs) \in Seq(Desc) /\ Len(Tail(objs)) = Len(objs) - 1
        /\ \A i \in 1 .. Len(Tail(objs)) : Tail(objs)[i] = objs[i + 1]
      BY <1>7, <1>8, HeadTailProperties
  <2>3. /\ Len(Tail(fd)) = Len(fd) - 1
        /\ \A i \in 1 .. Len(Tail(fd)) : Tail(fd)[i] = fd[i + 1]
      BY <1>5, HeadTailProperties
  <2>4. Len(fd) \in Nat
      BY <1>5, LenProperties
  <2> HIDE DEF objs, fd
  <2>5. \A i \in 1 .. Len(fd) - 1 : FreeObjects'[i] = Tail(objs)[i]
    <3> SUFFICES ASSUME NEW i \in 1 .. Len(fd) - 1
                 PROVE  FreeObjects'[i] = Tail(objs)[i]
        OBVIOUS
    <3>1. i + 1 \in 1 .. Len(fd)
        BY <2>4
    <3>2. FreeObjects'[i] = data[fd[i + 1]]
        BY <1>2, <1>10, <2>1, <2>3
    <3>3. Tail(objs)[i] = data[fd[i + 1]]
        BY <1>7, <2>2, <3>1
    <3>4. QED
        BY <3>2, <3>3
  <2>6. Len(FreeObjects') = Len(Tail(objs)) /\ Len(Tail(objs)) = Len(fd) - 1
      BY <1>7, <1>10, <2>1, <2>2, <2>3
  <2>7. QED
      BY <2>1, <2>2, <2>5, <2>6, SeqEqual
<1> HIDE DEF objs, d
<1>16. FreeListExact'
  <2>1. /\ NoDuplicates(Tail(objs))
        /\ \A n \in Desc : (\A i \in 1 .. Len(Tail(objs)) : Tail(objs)[i] # n)
              <=> n = Head(objs) \/ (\A i \in 1 .. Len(objs) : objs[i] # n)
    <3>1. objs \in Seq(Desc) /\ NoDuplicates(objs) /\ objs # << >>
        BY <1>7, <1>8
    <3>2. QED
        BY <3>1, TakeFree
  <2>2. /\ NoDuplicates(FreeObjects')
        /\ \A x \in Desc : x \in ObjectsOut'
              <=> \A i \in 1 .. Len(FreeObjects') : FreeObjects'[i] # x
      BY <1>7, <1>8, <1>12, <1>15, <2>1
  <2>3. QED
      BY <2>2 DEF FreeListExact, Promise!FreeListExact, NoDuplicates,
                  Promise!NoDuplicates, Promise!Desc, Desc
<1>17. IInv'
  <2>1. Whole(freeDesc)' /\ Whole(freeNodes)'
      BY <1>10, <1>11 DEF Whole, NodesOf
  <2>2. freeDesc'.size + freeNodes'.size = Size
      BY <1>1, <1>3, <1>10, <1>11, ListsTyped
  <2>3. QED
      BY <1>13, <1>14, <1>16, <2>1, <2>2 DEF IInv
<1>18. QED
    BY <1>2, <1>8, <1>12, <1>15, <1>17 DEF objs, d

\* A free that is not refused puts the object at the end of PoolSpec's list.
LEMMA FreeEffect ==
    ASSUME IInv, NEW d \in Desc, allocated[d], freeNodes.tail # NULL, Free(d)
    PROVE  /\ IInv'
           /\ d \in ObjectsOut
           /\ FreeObjects' = Append(FreeObjects, d)
           /\ ObjectsOut' = ObjectsOut \ {d}
           /\ freed' = TRUE
           /\ got' = got
<1> DEFINE node == freeNodes.tail
           fd == NodesOf(freeDesc)
           fn == NodesOf(freeNodes)
           objs == FreeObjects
<1>1. /\ PoolTypeOK /\ Whole(freeDesc) /\ Whole(freeNodes)
      /\ NodesConserved /\ FreeListExact
      /\ freeDesc.size + freeNodes.size = Size
    BY DEF IInv
<1>2. /\ freeNodes' = PopNode(freeNodes)
      /\ freeDesc' = PushNode(freeDesc, node)
      /\ allocated' = [allocated EXCEPT ![d] = FALSE]
      /\ data' = [data EXCEPT ![node] = d]
      /\ freed' = TRUE /\ got' = got
    BY DEF Free, FreeRefused, OwnedByThis
<1>3. /\ freeDesc \in ListType(Node, 0 .. Size)
      /\ freeNodes \in ListType(Node, 0 .. Size)
      /\ data \in [Node -> Desc]
      /\ allocated \in [Desc \cup Foreign -> BOOLEAN]
      /\ got \in Desc \cup {NULL}
    BY <1>1 DEF PoolTypeOK
<1>4. /\ Range(fd) \cap Range(fn) = {}
      /\ Range(fd) \cup Range(fn) = Node
      /\ Len(fd) = freeDesc.size
      /\ Len(fn) = freeNodes.size
      /\ freeNodes.size = Cardinality(ObjectsOut)
    BY <1>1 DEF NodesConserved
<1>5. /\ node \in Node /\ fn \in Seq(Node) /\ fd \in Seq(Node)
      /\ node \in Range(fn) /\ node \notin Range(fd)
  <2>1. node \in Node /\ fn # << >> /\ node = fn[1]
      BY <1>1, <1>3, TailOfWhole
  <2>2. fn \in Seq(Node) /\ fd \in Seq(Node)
      BY <1>1 DEF Whole
  <2>3. 1 \in 1 .. Len(fn)
      BY <2>1, <2>2, EmptySeq
  <2>4. node \in Range(fn)
      BY <2>1, <2>2, <2>3, RangeEquality
  <2>5. QED
      BY <1>4, <2>1, <2>2, <2>4
<1>6. /\ objs \in Seq(Desc) /\ Len(objs) = Len(fd)
      /\ \A i \in 1 .. Len(fd) : objs[i] = data[fd[i]]
  <2> HIDE DEF objs, fd
  <2>1. QED
      BY <1>3, <1>5, FreeObjectsAre, ObjectsKnown DEF objs, fd
<1>7. /\ NoDuplicates(objs)
      /\ \A x \in Desc : x \in ObjectsOut <=> \A i \in 1 .. Len(objs) : objs[i] # x
    BY <1>1, FreeListExactMeans
<1>8. d \in ObjectsOut /\ \A i \in 1 .. Len(objs) : objs[i] # d
    BY <1>7 DEF ObjectsOut
<1>9. Cardinality(ObjectsOut \ {d}) = Cardinality(ObjectsOut) - 1
    BY <1>8, OutIsFinite, FS_RemoveElement
<1>10. /\ freeNodes' \in ListType(Node, 0 .. Size)
       /\ Whole(freeNodes')
       /\ NodesOf(freeNodes') = Tail(fn)
       /\ freeNodes'.size = freeNodes.size - 1
       /\ Range(NodesOf(freeNodes')) = Range(fn) \ {node}
    BY <1>1, <1>2, <1>3, PopEffect
<1>11. freeDesc.size < Size
  <2>1. freeNodes.size > 0 /\ freeNodes.size \in 0 .. Size /\ freeDesc.size \in 0 .. Size
      BY <1>1, <1>3, TailOfWhole, ListsTyped
  <2>2. QED
      BY <1>1, <2>1
<1>12. /\ freeDesc' \in ListType(Node, 0 .. Size)
       /\ Whole(freeDesc')
       /\ NodesOf(freeDesc') = Append(fd, node)
       /\ freeDesc'.size = freeDesc.size + 1
       /\ Range(NodesOf(freeDesc')) = Range(fd) \cup {node}
    BY <1>1, <1>2, <1>3, <1>5, <1>11, PushEffect
<1>13. ObjectsOut' = ObjectsOut \ {d}
    BY <1>2, <1>3, <1>8 DEF ObjectsOut
<1>14. PoolTypeOK'
  <2>1. allocated' \in [Desc \cup Foreign -> BOOLEAN]
      BY <1>2, <1>3
  <2>2. data' \in [Node -> Desc]
      BY <1>2, <1>3
  <2>3. QED
      BY <1>2, <1>3, <1>10, <1>12, <2>1, <2>2 DEF PoolTypeOK
<1>15. NodesConserved'
  <2>1. /\ Len(NodesOf(freeDesc')) = freeDesc'.size
        /\ Len(NodesOf(freeNodes')) = freeNodes'.size
      BY <1>10, <1>12, TailOfWhole
  <2>2. freeNodes'.size = Cardinality(ObjectsOut')
      BY <1>4, <1>9, <1>10, <1>13
  <2>3. /\ Range(NodesOf(freeDesc')) \cap Range(NodesOf(freeNodes')) = {}
        /\ Range(NodesOf(freeDesc')) \cup Range(NodesOf(freeNodes')) = Node
      BY <1>4, <1>5, <1>10, <1>12
  <2>4. QED
      BY <2>1, <2>2, <2>3 DEF NodesConserved, NodesOf
<1>16. FreeObjects' = Append(objs, d)
  <2> DEFINE g == Append(fd, node)
  <2>1. /\ g \in Seq(Node) /\ Len(g) = Len(fd) + 1 /\ Len(fd) \in Nat
        /\ \A i \in 1 .. Len(fd) : g[i] = fd[i] /\ fd[i] \in Node
        /\ g[Len(fd) + 1] = node
      BY <1>5, AppendProperties, LenProperties, ElementOfSeq
  <2>2. /\ Append(objs, d) \in Seq(Desc) /\ Len(Append(objs, d)) = Len(fd) + 1
        /\ \A i \in 1 .. Len(fd) : Append(objs, d)[i] = objs[i]
        /\ Append(objs, d)[Len(fd) + 1] = d
    <3> HIDE DEF objs, fd
    <3>1. QED
        BY <1>6, AppendProperties
  <2>3. NodesOf(freeDesc') = g /\ data' \in [Node -> Desc]
      BY <1>12, <1>14 DEF PoolTypeOK
  <2>4. \A i \in 1 .. Len(fd) : fd[i] # node
    <3>1. Range(fd) = {fd[i] : i \in 1 .. Len(fd)}
        BY <1>5, RangeEquality
    <3> HIDE DEF fd, node
    <3>2. QED
        BY <1>5, <3>1
  <2>5. FreeObjects' = ObjectsOf(freeDesc', data')
      BY FreeObjectsAre
  <2> HIDE DEF objs, fd, g, node
  <2>6. /\ ObjectsOf(freeDesc', data') \in Seq(Desc)
        /\ Len(ObjectsOf(freeDesc', data')) = Len(g)
        /\ \A i \in 1 .. Len(g) : ObjectsOf(freeDesc', data')[i] = data'[g[i]]
      BY <2>1, <2>3, ObjectsKnown
  <2>7. \A i \in 1 .. Len(fd) + 1 : data'[g[i]] = Append(objs, d)[i]
    <3>1. ASSUME NEW i \in 1 .. Len(fd) PROVE data'[g[i]] = Append(objs, d)[i]
      <4>1. data'[fd[i]] = data[fd[i]]
          BY <1>2, <1>3, <2>1, <2>4
      <4>2. QED
          BY <1>6, <2>1, <2>2, <4>1
    <3>2. data'[g[Len(fd) + 1]] = d
        BY <1>2, <1>3, <1>5, <2>1
    <3>3. \A i \in 1 .. Len(fd) + 1 : i \in 1 .. Len(fd) \/ i = Len(fd) + 1
        BY <2>1
    <3>4. QED
        BY <2>2, <3>1, <3>2, <3>3
  <2>8. QED
      BY <2>1, <2>2, <2>5, <2>6, <2>7, SeqEqual
<1> HIDE DEF objs
<1>17. FreeListExact'
  <2>1. /\ NoDuplicates(Append(objs, d))
        /\ \A n \in Desc :
              (\A i \in 1 .. Len(Append(objs, d)) : Append(objs, d)[i] # n)
                 <=> n # d /\ (\A i \in 1 .. Len(objs) : objs[i] # n)
      BY <1>6, <1>7, <1>8, GiveFree
  <2>2. /\ NoDuplicates(FreeObjects')
        /\ \A x \in Desc : x \in ObjectsOut'
              <=> \A i \in 1 .. Len(FreeObjects') : FreeObjects'[i] # x
      BY <1>7, <1>13, <1>16, <2>1
  <2>3. QED
      BY <2>2 DEF FreeListExact, Promise!FreeListExact, NoDuplicates,
                  Promise!NoDuplicates, Promise!Desc, Desc
<1>18. IInv'
  <2>1. Whole(freeDesc)' /\ Whole(freeNodes)'
      BY <1>10, <1>12 DEF Whole, NodesOf
  <2>2. freeDesc'.size + freeNodes'.size = Size
      BY <1>1, <1>3, <1>10, <1>12, ListsTyped
  <2>3. QED
      BY <1>14, <1>15, <1>17, <2>1, <2>2 DEF IInv
<1>19. QED
    BY <1>2, <1>8, <1>13, <1>16, <1>18 DEF objs

-----------------------------------------------------------------------------
(* Theorems. *)

\* A refused free is one that PoolSpec refuses: for an object that is out
\* there is always a node (the check for NULL in free never fires).
LEMMA NodeForEveryObject ==
    ASSUME IInv, NEW d \in ObjectsOut
    PROVE  freeNodes.tail # NULL
<1>1. /\ freeNodes \in ListType(Node, 0 .. Size) /\ Whole(freeNodes)
      /\ freeNodes.size = Cardinality(ObjectsOut)
      /\ Len(NodesOf(freeNodes)) = freeNodes.size
    BY DEF IInv, PoolTypeOK, NodesConserved
<1>2. Cardinality(ObjectsOut) # 0
  <2>1. ObjectsOut # {}
      OBVIOUS
  <2>2. IsFiniteSet(ObjectsOut)
      BY OutIsFinite
  <2>3. QED
      BY <2>1, <2>2, FS_EmptySet
<1>3. NodesOf(freeNodes) # << >>
  <2>1. Len(NodesOf(freeNodes)) # 0
      BY <1>1, <1>2
  <2>2. QED
      BY <2>1
<1>4. QED
    BY <1>1, <1>3, TailOfWhole

\* What leaves the lists, the descriptors and the flags alone keeps the invariant.
LEMMA InvariantKept ==
    ASSUME IInv, UNCHANGED <<freeDesc, freeNodes, data, allocated>>,
           FreeObjects' = FreeObjects, ObjectsOut' = ObjectsOut,
           got' \in Desc \cup {NULL}, freed' \in BOOLEAN
    PROVE  IInv'
<1>1. PoolTypeOK'
    BY DEF IInv, PoolTypeOK
<1>2. NodesOf(freeDesc)' = NodesOf(freeDesc) /\ NodesOf(freeNodes)' = NodesOf(freeNodes)
    BY DEF NodesOf
<1>3. Whole(freeDesc)' /\ Whole(freeNodes)'
    BY <1>2 DEF IInv, Whole
<1>4. NodesConserved'
    BY <1>2 DEF IInv, NodesConserved
<1>5. FreeListExact'
    BY DEF IInv, FreeListExact, Promise!FreeListExact, Promise!NoDuplicates, Promise!Desc
<1>6. (freeDesc.size + freeNodes.size = Size)'
    BY DEF IInv
<1>7. QED
    BY <1>1, <1>3, <1>4, <1>5, <1>6 DEF IInv

LEMMA PoolNextTyped ==
    ASSUME IInv, [PoolNext]_poolVars
    PROVE  IInv' /\ [Promise!Next]_(Promise!vars)
<1>1. CASE Alloc /\ freeDesc.tail # NULL
  <2>1. /\ IInv'
        /\ FreeObjects # << >>
        /\ got' = Head(FreeObjects)
        /\ FreeObjects' = Tail(FreeObjects)
        /\ ObjectsOut' = ObjectsOut \cup {Head(FreeObjects)}
        /\ freed' = freed
      BY <1>1, AllocEffect
  <2>2. Promise!Alloc
      BY <2>1 DEF Promise!Alloc
  <2>3. QED
      BY <2>1, <2>2 DEF Promise!Next
<1>2. CASE Alloc /\ freeDesc.tail = NULL
  <2>1. got' = NULL /\ UNCHANGED <<freeDesc, freeNodes, data, allocated, freed>>
      BY <1>2 DEF Alloc
  <2>2. /\ FreeObjects' = FreeObjects /\ ObjectsOut' = ObjectsOut
      BY <2>1 DEF FreeObjects, NodesOf, ObjectsOut
  <2>3. FreeObjects = << >>
    <3>1. /\ freeDesc \in ListType(Node, 0 .. Size) /\ Whole(freeDesc)
          /\ data \in [Node -> Desc]
        BY DEF IInv, PoolTypeOK
    <3>2. NodesOf(freeDesc) = << >> /\ NodesOf(freeDesc) \in Seq(Node)
        BY <1>2, <3>1, TailOfWhole DEF Whole
    <3>3. FreeObjects \in Seq(Desc) /\ Len(FreeObjects) = 0
        BY <3>1, <3>2, FreeObjectsAre, ObjectsKnown
    <3>4. QED
        BY <3>3, EmptySeq
  <2>4. Promise!Alloc
      BY <2>1, <2>2, <2>3 DEF Promise!Alloc
  <2>5. IInv'
      BY <2>1, <2>2, InvariantKept DEF IInv, PoolTypeOK
  <2>6. QED
      BY <2>4, <2>5 DEF Promise!Next
<1>3. ASSUME NEW d \in Desc \cup Foreign, Free(d)
      PROVE  IInv' /\ [Promise!Next]_(Promise!vars)
  <2>1. CASE FreeRefused(d)
    <3>1. /\ freed' = FALSE
          /\ UNCHANGED <<freeDesc, freeNodes, data, allocated, got>>
        BY <1>3, <2>1 DEF Free
    <3>2. FreeObjects' = FreeObjects /\ ObjectsOut' = ObjectsOut
        BY <3>1 DEF FreeObjects, NodesOf, ObjectsOut
    <3>3. d \notin ObjectsOut
      <4>1. ~allocated[d] \/ d \notin Desc \/ freeNodes.tail = NULL
          BY <2>1 DEF FreeRefused, OwnedByThis
      <4>2. QED
          BY <4>1, NodeForEveryObject DEF ObjectsOut
    <3>4. ObjectsOut \ {d} = ObjectsOut /\ (d \in ObjectsOut) = FALSE
        BY <3>3
    <3>5. Promise!Free(d)
        BY <3>1, <3>2, <3>3, <3>4 DEF Promise!Free
    <3>6. IInv'
        BY <3>1, <3>2, InvariantKept DEF IInv, PoolTypeOK
    <3>7. Promise!Next
        BY <1>3, <3>5 DEF Promise!Next, Promise!Desc, Desc
    <3>8. QED
        BY <3>6, <3>7
  <2>2. CASE ~FreeRefused(d)
    <3>1. d \in Desc /\ allocated[d] /\ freeNodes.tail # NULL
        BY <2>2 DEF FreeRefused, OwnedByThis
    <3>2. /\ IInv'
          /\ d \in ObjectsOut
          /\ FreeObjects' = Append(FreeObjects, d)
          /\ ObjectsOut' = ObjectsOut \ {d}
          /\ freed' = TRUE
          /\ got' = got
        BY <1>3, <3>1, FreeEffect
    <3>3. (d \in ObjectsOut) = TRUE
        BY <3>2
    <3>4. Promise!Free(d)
        BY <3>2, <3>3 DEF Promise!Free
    <3>5. Promise!Next
        BY <1>3, <3>4 DEF Promise!Next, Promise!Desc, Desc
    <3>6. QED
        BY <3>2, <3>5
  <2>3. QED
      BY <2>1, <2>2
<1>4. CASE UNCHANGED poolVars
  <2>1. UNCHANGED <<freeDesc, freeNodes, data, allocated, got, freed>>
      BY <1>4 DEF poolVars
  <2>2. FreeObjects' = FreeObjects /\ ObjectsOut' = ObjectsOut
      BY <2>1 DEF FreeObjects, NodesOf, ObjectsOut
  <2>3. UNCHANGED Promise!vars
      BY <2>1, <2>2 DEF Promise!vars
  <2>4. IInv'
      BY <2>1, <2>2, InvariantKept DEF IInv, PoolTypeOK
  <2>5. QED
      BY <2>3, <2>4
<1>5. QED
    BY <1>1, <1>2, <1>3, <1>4 DEF PoolNext

\* The constructor leaves the pool in PoolSpec's initial state.
LEMMA PoolInitImplements == PoolInit => Promise!Init
<1> SUFFICES ASSUME PoolInit PROVE Promise!Init
    OBVIOUS
<1> DEFINE id == [i \in 1 .. Size |-> i]
<1>1. /\ Size \in Nat /\ \A d \in Desc : d \notin Foreign
      /\ data = [n \in Node |-> n]
      /\ allocated = [d \in Desc \cup Foreign |-> d \in Foreign]
      /\ got = NULL /\ freed = TRUE
    BY PoolAssumption DEF PoolInit, Desc
<1>2. ObjectsOut = {}
    BY <1>1 DEF ObjectsOut
<1>3. id \in Seq(Node) /\ HoldsList(freeDesc, id)
    BY ConstructedHolds DEF PoolInit
<1>4. Len(id) = Size /\ \A i \in 1 .. Size : id[i] = i
    BY <1>1
<1>5. NodesOf(freeDesc) = id
  <2>1. freeDesc.size \in 0 .. Size
      BY <1>1, <1>3, <1>4 DEF HoldsList
  <2> HIDE DEF id
  <2>2. QED
      BY <1>3, <2>1, NodesKnown
<1>6. data \in [Node -> Desc] /\ \A i \in 1 .. Size : data[i] = i
    BY <1>1 DEF Node, Desc
<1> HIDE DEF id
<1>7. /\ FreeObjects \in Seq(Desc) /\ Len(FreeObjects) = Size
      /\ \A i \in 1 .. Size : FreeObjects[i] = id[i]
  <2>1. /\ FreeObjects \in Seq(Desc) /\ Len(FreeObjects) = Len(id)
        /\ \A i \in 1 .. Len(id) : FreeObjects[i] = data[id[i]]
      BY <1>3, <1>5, <1>6, FreeObjectsAre, ObjectsKnown
  <2>2. QED
      BY <1>4, <1>6, <2>1
<1>8. FreeObjects = id
  <2>1. id \in Seq(Desc)
      BY <1>3 DEF Node, Desc
  <2>2. QED
      BY <1>4, <1>7, <2>1, SeqEqual
<1>9. QED
    BY <1>1, <1>2, <1>8 DEF Promise!Init, id

\* The lists of a pool of any size link only its own nodes, each of which
\* points to one of its own objects (pool.h: node->data), and alloc returns
\* one of those or NULL.
THEOREM PoolTyped == PoolSystem => []PoolTypeOK
<1>1. IInv => PoolTypeOK
    BY DEF IInv
<1>2. QED
    BY <1>1, PoolInitTyped, PoolNextTyped, PTL DEF PoolSystem

\* Every node is on exactly one of the pool's lists, for pools of any size
\* and any pattern of frees: no node is lost, and m_freeNodes counts the
\* objects that are out, so that a legal free always finds a node.
THEOREM NodesAlwaysConserved == PoolSystem => []NodesConserved
<1>1. PoolInit => IInv
    BY PoolInitTyped
<1>2. IInv /\ [PoolNext]_poolVars => IInv'
    BY PoolNextTyped
<1>3. IInv => NodesConserved
    BY DEF IInv
<1>4. QED
    BY <1>1, <1>2, <1>3, PTL DEF PoolSystem

\* The linked lists implement the promised pool: alloc hands out the least
\* recently freed object, and a free is refused exactly when the object is
\* not out.
THEOREM PoolImplementsPoolSpec == PoolSystem => ImplementsPoolSpec
<1>1. PoolInit => IInv /\ Promise!Init
    BY PoolInitTyped, PoolInitImplements
<1>2. IInv /\ [PoolNext]_poolVars => IInv' /\ [Promise!Next]_(Promise!vars)
    BY PoolNextTyped
<1>3. QED
    BY <1>1, <1>2, PTL DEF PoolSystem, ImplementsPoolSpec, Promise!Spec

\* A pool never offers an object twice, never offers one that is out and
\* never loses one, whatever its clients free and however often (pool.h:53-54
\* fears otherwise).
THEOREM FreeListAlwaysExact == PoolSystem => []FreeListExact
<1>1. PoolInit => IInv
    BY PoolInitTyped
<1>2. IInv /\ [PoolNext]_poolVars => IInv'
    BY PoolNextTyped
<1>3. IInv => FreeListExact
    BY DEF IInv
<1>4. QED
    BY <1>1, <1>2, <1>3, PTL DEF PoolSystem
===============================================================================
