------------------------------ MODULE QueueProofs ------------------------------
(***************************************************************************)
(* alloc::Queue for every SIZE and every sequence of pushes, pops, peeks   *)
(* and removes: its links and its pool stay whole, and it implements       *)
(* FifoQueue.                                                              *)
(***************************************************************************)
EXTENDS QueueClient, QueueLemmas

Nodes == 1 .. Room
Datum == Object \cup {NULL}

(***************************************************************************)
(* The inductive invariant: the list holds the nodes that it pops, these   *)
(* are the live ones, and the pool holds each of the others once.          *)
(***************************************************************************)
IInv ==
    /\ QueueTypeOK
    /\ Popped \in Seq(Nodes)
    /\ HoldsList(q.list, Popped)
    /\ Range(Popped) = live
    /\ NoDuplicates(q.free)
    /\ Range(q.free) = Nodes \ live
    /\ Len(q.free) + Len(Popped) = Room

-----------------------------------------------------------------------------
(* Lists and contents. *)

\* The nodes popped, once the links are known.
LEMMA PoppedKnown ==
    ASSUME NEW l, NEW s \in Seq(Nodes), HoldsList(l, s), Len(s) <= Room
    PROVE  PopOrder(l, Room + 1) = s
<1>1. Len(s) \in Nat /\ Room + 1 \in Nat /\ Len(s) <= Room + 1 /\ NULL \notin Nodes
    BY QueueAssumption, LenProperties DEF Nodes
<1>2. QED
    BY <1>1, HeldOrders

\* The entries of the nodes of s.
Entries(s, data) == [i \in 1 .. Len(s) |-> [at |-> s[i], obj |-> data[s[i]]]]

LEMMA ContentIs ==
    /\ Content = Entries(Popped, q.data)
    /\ Content' = Entries(Popped', q'.data)
BY DEF Content, Entries, Popped

LEMMA EntriesAre ==
    ASSUME NEW s \in Seq(Nodes), NEW data \in [Nodes -> Datum]
    PROVE  /\ Entries(s, data) \in Seq([at : Nodes, obj : Datum])
           /\ Len(Entries(s, data)) = Len(s)
           /\ \A i \in 1 .. Len(s) :
                 /\ Entries(s, data)[i] = [at |-> s[i], obj |-> data[s[i]]]
                 /\ Entries(s, data)[i].at = s[i]
                 /\ Entries(s, data)[i].obj = data[s[i]]
           /\ Entries(s, data) = << >> <=> s = << >>
<1>1. Len(s) \in Nat /\ \A i \in 1 .. Len(s) : s[i] \in Nodes
    BY LenProperties, ElementOfSeq
<1>2. \A i \in 1 .. Len(s) :
          [at |-> s[i], obj |-> data[s[i]]] \in [at : Nodes, obj : Datum]
    BY <1>1
<1>3. /\ Entries(s, data) \in Seq([at : Nodes, obj : Datum])
      /\ Len(Entries(s, data)) = Len(s)
    BY <1>1, <1>2, IsASeq DEF Entries
<1>4. \A i \in 1 .. Len(s) :
          Entries(s, data)[i] = [at |-> s[i], obj |-> data[s[i]]]
    BY DEF Entries
<1>5. Entries(s, data) = << >> <=> s = << >>
    BY <1>1, <1>3, EmptySeq
<1>6. QED
    BY <1>3, <1>4, <1>5

\* A push adds an entry and leaves the data of the others alone.
LEMMA EntriesPush ==
    ASSUME NEW s \in Seq(Nodes), NEW data \in [Nodes -> Datum],
           NEW n \in Nodes, \A i \in 1 .. Len(s) : s[i] # n, NEW obj \in Datum
    PROVE  Entries(Append(s, n), [data EXCEPT ![n] = obj]) =
               Append(Entries(s, data), [at |-> n, obj |-> obj])
<1> DEFINE S == [at : Nodes, obj : Datum]
           e == Entries(s, data)
           x == [at |-> n, obj |-> obj]
           g == Append(s, n)
           new == [data EXCEPT ![n] = obj]
<1>1. /\ e \in Seq(S) /\ Len(e) = Len(s) /\ Len(s) \in Nat
      /\ \A i \in 1 .. Len(s) :
            s[i] \in Nodes /\ e[i] = [at |-> s[i], obj |-> data[s[i]]]
    BY EntriesAre, LenProperties, ElementOfSeq
<1>2. /\ g \in Seq(Nodes) /\ Len(g) = Len(s) + 1
      /\ \A i \in 1 .. Len(s) : g[i] = s[i]
      /\ g[Len(s) + 1] = n
    BY AppendProperties
<1>3. new \in [Nodes -> Datum] /\ new[n] = obj
      /\ \A i \in 1 .. Len(s) : new[s[i]] = data[s[i]]
    BY <1>1
<1>4. x \in S
    OBVIOUS
<1> HIDE DEF g, new, e, x, S
<1>5. /\ Append(e, x) \in Seq(S) /\ Len(Append(e, x)) = Len(s) + 1
      /\ \A i \in 1 .. Len(s) : Append(e, x)[i] = e[i]
      /\ Append(e, x)[Len(s) + 1] = x
    BY <1>1, <1>4, AppendProperties
<1>6. /\ Entries(g, new) \in Seq(S) /\ Len(Entries(g, new)) = Len(s) + 1
      /\ \A i \in 1 .. Len(s) + 1 :
            Entries(g, new)[i] = [at |-> g[i], obj |-> new[g[i]]]
  <2>1. g \in Seq(Nodes) /\ new \in [Nodes -> Datum]
      BY <1>2, <1>3
  <2>2. /\ Entries(g, new) \in Seq(S) /\ Len(Entries(g, new)) = Len(g)
        /\ \A i \in 1 .. Len(g) :
              Entries(g, new)[i] = [at |-> g[i], obj |-> new[g[i]]]
      BY <2>1, EntriesAre DEF S
  <2>3. QED
      BY <1>2, <2>2
<1>7. \A i \in 1 .. Len(s) + 1 : Entries(g, new)[i] = Append(e, x)[i]
  <2>1. ASSUME NEW i \in 1 .. Len(s)
        PROVE  Entries(g, new)[i] = Append(e, x)[i]
    <3>1. i \in 1 .. Len(s) + 1
        BY <1>1
    <3>2. QED
        BY <1>1, <1>2, <1>3, <1>5, <1>6, <3>1
  <2>2. Entries(g, new)[Len(s) + 1] = Append(e, x)[Len(s) + 1]
    <3>1. Len(s) + 1 \in 1 .. Len(s) + 1
        BY <1>1
    <3>2. QED
        BY <1>2, <1>3, <1>5, <1>6, <3>1 DEF x
  <2>3. \A i \in 1 .. Len(s) + 1 : i \in 1 .. Len(s) \/ i = Len(s) + 1
      BY <1>1
  <2>4. QED
      BY <2>1, <2>2, <2>3
<1>8. Entries(g, new) = Append(e, x)
    BY <1>5, <1>6, <1>7, SeqEqual
<1>9. QED
    BY <1>8 DEF g, new, e, x

\* Cutting out a node cuts out its entry.
LEMMA EntriesWithout ==
    ASSUME NEW s \in Seq(Nodes), NEW data \in [Nodes -> Datum],
           NEW k \in 1 .. Len(s)
    PROVE  Entries(Without(s, k), data) = Without(Entries(s, data), k)
<1> DEFINE S == [at : Nodes, obj : Datum]
           e == Entries(s, data)
           g == Without(s, k)
<1>1. /\ e \in Seq(S) /\ Len(e) = Len(s) /\ Len(s) \in Nat
      /\ \A i \in 1 .. Len(s) : e[i] = [at |-> s[i], obj |-> data[s[i]]]
    BY EntriesAre, LenProperties
<1>2. /\ g \in Seq(Nodes) /\ Len(g) = Len(s) - 1
      /\ \A i \in 1 .. Len(s) - 1 : g[i] = IF i < k THEN s[i] ELSE s[i + 1]
    BY WithoutProperties
<1> HIDE DEF e, g, S
<1>3. /\ Without(e, k) \in Seq(S) /\ Len(Without(e, k)) = Len(s) - 1
      /\ \A i \in 1 .. Len(s) - 1 :
            Without(e, k)[i] = IF i < k THEN e[i] ELSE e[i + 1]
    BY <1>1, WithoutProperties
<1>4. /\ Entries(g, data) \in Seq(S) /\ Len(Entries(g, data)) = Len(s) - 1
      /\ \A i \in 1 .. Len(s) - 1 :
            Entries(g, data)[i] = [at |-> g[i], obj |-> data[g[i]]]
  <2>1. g \in Seq(Nodes) /\ data \in [Nodes -> Datum]
      BY <1>2
  <2>2. /\ Entries(g, data) \in Seq(S) /\ Len(Entries(g, data)) = Len(g)
        /\ \A i \in 1 .. Len(g) :
              Entries(g, data)[i] = [at |-> g[i], obj |-> data[g[i]]]
      BY <2>1, EntriesAre DEF S
  <2>3. QED
      BY <1>2, <2>2
<1>5. ASSUME NEW i \in 1 .. Len(s) - 1
      PROVE  Entries(g, data)[i] = Without(e, k)[i]
  <2>1. i \in 1 .. Len(s) /\ i + 1 \in 1 .. Len(s)
      BY <1>1
  <2>2. e[i] = [at |-> s[i], obj |-> data[s[i]]]
      BY <1>1, <2>1
  <2>3. e[i + 1] = [at |-> s[i + 1], obj |-> data[s[i + 1]]]
      BY <1>1, <2>1
  <2>4. Entries(g, data)[i] = [at |-> g[i], obj |-> data[g[i]]]
      BY <1>4
  <2>5. g[i] = IF i < k THEN s[i] ELSE s[i + 1]
      BY <1>2
  <2>6. Without(e, k)[i] = IF i < k THEN e[i] ELSE e[i + 1]
      BY <1>3
  <2>7. CASE i < k
      BY <2>2, <2>4, <2>5, <2>6, <2>7
  <2>8. CASE ~(i < k)
      BY <2>3, <2>4, <2>5, <2>6, <2>8
  <2>9. QED
      BY <2>7, <2>8
<1>6. Entries(g, data) = Without(e, k)
    BY <1>3, <1>4, <1>5, SeqEqual
<1>7. QED
    BY <1>6 DEF e, g

-----------------------------------------------------------------------------
(* The effect of the operations. *)

\* What the invariant says of the queue's parts.
LEMMA QueueParts ==
    ASSUME IInv
    PROVE  /\ q.list \in ListType(Nodes, Int)
           /\ q.data \in [Nodes -> Datum]
           /\ q.free \in Seq(Nodes)
           /\ Len(q.free) \in Nat /\ Len(Popped) \in Nat
           /\ Len(Popped) <= Room
           /\ Content = Entries(Popped, q.data)
           /\ NULL \notin Nodes /\ Room \in Nat
           /\ live \subseteq Nodes
<1>1. q \in QueueType(Room, Datum) /\ live \subseteq Nodes
    BY DEF IInv, QueueTypeOK, Datum, Nodes
<1>2. /\ q.list \in ListType(Nodes, Int)
      /\ q.data \in [Nodes -> Datum]
      /\ q.free \in Seq(Nodes)
    BY <1>1, QueueFields DEF Nodes
<1>3. Len(q.free) \in Nat /\ Len(Popped) \in Nat /\ Len(Popped) <= Room
  <2>1. Len(q.free) \in Nat /\ Len(Popped) \in Nat
      BY <1>2, LenProperties DEF IInv
  <2>2. Len(q.free) + Len(Popped) = Room
      BY DEF IInv
  <2>3. QED
      BY <2>1, <2>2
<1>4. QED
    BY <1>1, <1>2, <1>3, ContentIs, QueueAssumption DEF Nodes

\* A push takes the next node of the pool and makes it the last to be popped.
LEMMA PushEffect ==
    ASSUME IInv, NEW obj \in Object, DoPush(obj), ~PoolEmpty(q)
    PROVE  /\ IInv'
           /\ NextNode(q) \in Nodes \ live
           /\ pushed' = NextNode(q)
           /\ Content' = Append(Content, [at |-> NextNode(q), obj |-> obj])
           /\ peeked' = peeked
<1> DEFINE n == NextNode(q)
           s == Popped
<1>1. /\ q.list \in ListType(Nodes, Int)
      /\ q.data \in [Nodes -> Datum]
      /\ q.free \in Seq(Nodes)
      /\ Len(q.free) \in Nat /\ Len(s) \in Nat
      /\ Content = Entries(s, q.data)
      /\ NULL \notin Nodes /\ Room \in Nat /\ live \subseteq Nodes
    BY QueueParts
<1>2. /\ s \in Seq(Nodes) /\ HoldsList(q.list, s) /\ Range(s) = live
      /\ NoDuplicates(q.free) /\ Range(q.free) = Nodes \ live
      /\ Len(q.free) + Len(s) = Room
    BY DEF IInv
<1>3. /\ q.free # << >> /\ n = Head(q.free)
      /\ n \in Nodes /\ n \in Range(q.free)
      /\ Len(Tail(q.free)) = Len(q.free) - 1
      /\ Tail(q.free) \in Seq(Nodes)
  <2>1. q.free # << >> /\ n = Head(q.free)
      BY DEF PoolEmpty, NextNode
  <2>2. /\ Head(q.free) \in Nodes /\ Tail(q.free) \in Seq(Nodes)
        /\ Len(Tail(q.free)) = Len(q.free) - 1
      BY <1>1, <2>1, HeadTailProperties
  <2>3. 1 \in 1 .. Len(q.free) /\ Head(q.free) = q.free[1]
      BY <1>1, <2>1, EmptySeq
  <2>4. Head(q.free) \in Range(q.free)
      BY <1>1, <2>3, RangeEquality
  <2>5. QED
      BY <2>1, <2>2, <2>4
<1>4. /\ q' = [list |-> PushNode(q.list, n),
               data |-> [q.data EXCEPT ![n] = obj], free |-> Tail(q.free)]
      /\ pushed' = n /\ live' = live \cup {n} /\ peeked' = peeked
    BY <1>1, <1>3 DEF DoPush, Push
<1>5. /\ q'.list = PushNode(q.list, n)
      /\ q'.data = [q.data EXCEPT ![n] = obj]
      /\ q'.free = Tail(q.free)
    BY <1>4
<1>6. n \notin live /\ \A i \in 1 .. Len(s) : s[i] # n
  <2>1. n \notin live
      BY <1>2, <1>3
  <2>2. Range(s) = {s[i] : i \in 1 .. Len(s)}
      BY <1>2, RangeEquality
  <2> HIDE DEF n, s
  <2>3. QED
      BY <1>2, <2>1, <2>2
<1> HIDE DEF n, s
<1>7. /\ HoldsList(q'.list, Append(s, n))
      /\ q'.list \in ListType(Nodes, Int)
    BY <1>1, <1>2, <1>3, <1>5, <1>6, PushHolds
<1>8. /\ Append(s, n) \in Seq(Nodes) /\ Len(Append(s, n)) = Len(s) + 1
      /\ Range(Append(s, n)) = live \cup {n}
    BY <1>2, <1>3, AppendProperties, RangeAppend
<1>9. Len(s) + 1 <= Room /\ Len(Tail(q.free)) + Len(s) + 1 = Room
    BY <1>1, <1>2, <1>3, LenProperties
<1>10. Popped' = Append(s, n)
  <2>1. PopOrder(q'.list, Room + 1) = Append(s, n)
      BY <1>7, <1>8, <1>9, PoppedKnown
  <2>2. QED
      BY <2>1 DEF Popped
<1>11. obj \in Datum /\ q'.data \in [Nodes -> Datum]
    BY <1>1, <1>5 DEF Datum
<1>12. /\ NoDuplicates(q'.free)
       /\ Range(q'.free) = Nodes \ live'
    BY <1>1, <1>2, <1>3, <1>4, <1>5, RangeTail, TakeFree
<1>13. QueueTypeOK'
  <2>1. q' \in QueueType(Room, Datum)
    <3>1. [q.data EXCEPT ![n] = obj] \in [Nodes -> Datum]
        BY <1>5, <1>11
    <3>2. PushNode(q.list, n) \in ListType(Nodes, Int)
        BY <1>5, <1>7
    <3>3. QED
        BY <1>3, <1>4, <3>1, <3>2, QueueIntro DEF Nodes
  <2>2. live' \in SUBSET (1 .. Room) /\ pushed' \in 1 .. Room \cup {NULL}
      BY <1>1, <1>3, <1>4 DEF Nodes
  <2>3. peeked' \in Object \cup {NULL}
      BY <1>4 DEF IInv, QueueTypeOK
  <2>4. QED
      BY <2>1, <2>2, <2>3 DEF QueueTypeOK, Datum
<1>14. IInv'
  <2>1. Popped' \in Seq(Nodes) /\ HoldsList(q'.list, Popped') /\ Range(Popped') = live'
      BY <1>4, <1>7, <1>8, <1>10
  <2>2. Len(q'.free) + Len(Popped') = Room
    <3>1. Len(q'.free) = Len(q.free) - 1 /\ Len(Popped') = Len(s) + 1
        BY <1>3, <1>5, <1>8, <1>10
    <3>2. Len(q.free) \in Nat /\ Len(s) \in Nat /\ Len(q.free) + Len(s) = Room
        BY <1>1, <1>2
    <3>3. \A a, b \in Nat : a + b = Room => (a - 1) + (b + 1) = Room
        OBVIOUS
    <3>4. (Len(q.free) - 1) + (Len(s) + 1) = Room
        BY <3>2, <3>3
    <3>5. QED
        BY <3>1, <3>4
  <2>3. QED
      BY <1>12, <1>13, <2>1, <2>2 DEF IInv, Nodes
<1>15. Content' = Append(Content, [at |-> n, obj |-> obj])
  <2>1. Content' = Entries(Append(s, n), [q.data EXCEPT ![n] = obj])
      BY <1>5, <1>10, ContentIs
  <2>2. /\ s \in Seq(Nodes) /\ q.data \in [Nodes -> Datum] /\ n \in Nodes
        /\ obj \in Datum /\ Content = Entries(s, q.data)
      BY <1>1, <1>2, <1>3, <1>11
  <2>3. Entries(Append(s, n), [q.data EXCEPT ![n] = obj]) =
            Append(Entries(s, q.data), [at |-> n, obj |-> obj])
      BY <1>6, <2>2, EntriesPush
  <2>4. QED
      BY <2>1, <2>2, <2>3
<1>16. QED
    BY <1>3, <1>4, <1>6, <1>14, <1>15 DEF n

\* Taking the k-th node out of the list gives it back to the pool.
LEMMA CutEffect ==
    ASSUME IInv, NEW k \in 1 .. Len(Popped),
           HoldsList(q'.list, Without(Popped, k)),
           q' \in QueueType(Room, Datum),
           q'.data = q.data, q'.free = FreeNode(q, Popped[k]),
           live' = live \ {Popped[k]}, pushed' = pushed, peeked' = peeked
    PROVE  IInv' /\ Content' = Without(Content, k)
<1> DEFINE s == Popped
           n == Popped[k]
<1>1. /\ q.data \in [Nodes -> Datum]
      /\ q.free \in Seq(Nodes)
      /\ Len(q.free) \in Nat /\ Len(s) \in Nat /\ Len(s) <= Room
      /\ Content = Entries(s, q.data)
      /\ live \subseteq Nodes /\ Room \in Nat
    BY QueueParts
<1>2. /\ s \in Seq(Nodes) /\ NoDuplicates(s) /\ Range(s) = live
      /\ NoDuplicates(q.free) /\ Range(q.free) = Nodes \ live
      /\ Len(q.free) + Len(s) = Room
    BY DEF IInv, HoldsList
<1>3. n \in Nodes /\ n \in live
    BY <1>1, <1>2, RangeEquality
<1>4. \A i \in 1 .. Len(q.free) : q.free[i] # n
  <2>1. Range(q.free) = {q.free[i] : i \in 1 .. Len(q.free)}
      BY <1>1, RangeEquality
  <2> HIDE DEF n
  <2>2. QED
      BY <1>2, <1>3, <2>1
<1>5. q'.free = Append(q.free, n)
    BY <1>4 DEF FreeNode
<1> HIDE DEF n
<1>6. /\ NoDuplicates(q'.free)
      /\ Range(q'.free) = Nodes \ (live \ {n})
      /\ Len(q'.free) = Len(q.free) + 1
    BY <1>1, <1>2, <1>3, <1>4, <1>5, GiveFree, RangeAppend, AppendProperties
<1>7. /\ Without(s, k) \in Seq(Nodes) /\ Len(Without(s, k)) = Len(s) - 1
      /\ Range(Without(s, k)) = live \ {n}
    BY <1>2, WithoutProperties, RangeWithout DEF n
<1>8. Popped' = Without(s, k)
  <2>1. Len(Without(s, k)) <= Room
      BY <1>1, <1>7
  <2> HIDE DEF s
  <2>2. PopOrder(q'.list, Room + 1) = Without(s, k)
      BY <1>7, <2>1, PoppedKnown DEF s
  <2>3. QED
      BY <2>2 DEF Popped
<1>9. QueueTypeOK'
  <2>1. live' \in SUBSET (1 .. Room)
      BY <1>1 DEF Nodes
  <2>2. QED
      BY <2>1 DEF IInv, QueueTypeOK, Datum
<1>10. IInv'
  <2>1. /\ Popped' \in Seq(Nodes) /\ HoldsList(q'.list, Popped')
        /\ Range(Popped') = live' /\ Range(q'.free) = Nodes \ live'
      BY <1>6, <1>7, <1>8 DEF n
  <2>2. Len(q'.free) + Len(Popped') = Room
    <3>1. Len(q'.free) = Len(q.free) + 1 /\ Len(Popped') = Len(s) - 1
        BY <1>6, <1>7, <1>8
    <3>2. Len(q.free) \in Nat /\ Len(s) \in Nat /\ Len(q.free) + Len(s) = Room
        BY <1>1, <1>2
    <3> HIDE DEF s
    <3>3. QED
        BY <3>1, <3>2
  <2>3. QED
      BY <1>6, <1>9, <2>1, <2>2 DEF IInv, Nodes
<1>11. Content' = Without(Content, k)
  <2>1. Content' = Entries(Without(s, k), q.data)
      BY <1>8, ContentIs
  <2>2. QED
      BY <1>1, <1>2, <2>1, EntriesWithout
<1>12. QED
    BY <1>10, <1>11

-----------------------------------------------------------------------------
(* The steps. *)

\* The tail is the first node popped; there is none when nothing is queued.
LEMMA PeekIs ==
    ASSUME IInv
    PROVE  /\ Peek(q) = NULL <=> Popped = << >>
           /\ Peek(q) # NULL => /\ 1 \in 1 .. Len(Popped)
                                /\ Peek(q) = Popped[1]
                                /\ Peek(q) \in Nodes
<1>1. /\ Popped \in Seq(Nodes)
      /\ q.list.tail = IF Popped = << >> THEN NULL ELSE Popped[1]
    BY DEF IInv, HoldsList
<1>2. Popped # << >> => 1 \in 1 .. Len(Popped)
    BY <1>1, EmptySeq
<1>3. Popped # << >> => Popped[1] \in Nodes /\ Popped[1] # NULL
  <2>1. NULL \notin Nodes
      BY QueueParts
  <2>2. QED
      BY <1>1, <1>2, <2>1, ElementOfSeq
<1>4. QED
    BY <1>1, <1>2, <1>3 DEF Peek

LEMMA PopStep ==
    ASSUME IInv, DoPop
    PROVE  IInv' /\ [Fifo!Next]_(Fifo!vars)
<1>1. /\ q.list \in ListType(Nodes, Int)
      /\ q.data \in [Nodes -> Datum]
      /\ q.free \in Seq(Nodes)
      /\ Content = Entries(Popped, q.data)
      /\ NULL \notin Nodes /\ live \subseteq Nodes
    BY QueueParts
<1>2. pushed' = pushed /\ peeked' = peeked /\ live' = live \ {Peek(q)} /\ q' = Pop(q)
    BY DEF DoPop
<1>3. CASE Peek(q) = NULL
  <2>1. q' = q /\ live' = live
      BY <1>1, <1>2, <1>3 DEF Pop
  <2>2. Popped' = Popped /\ Content' = Content
      BY <2>1 DEF Popped, Content
  <2>3. IInv'
      BY <1>2, <2>1, <2>2 DEF IInv, QueueTypeOK
  <2>4. QED
      BY <1>2, <2>2, <2>3 DEF Fifo!vars
<1>4. CASE Peek(q) # NULL
  <2>1. /\ Popped \in Seq(Nodes) /\ Popped # << >> /\ 1 \in 1 .. Len(Popped)
        /\ Peek(q) = Popped[1] /\ HoldsList(q.list, Popped)
        /\ NoDuplicates(Popped)
      BY <1>4, PeekIs DEF IInv, HoldsList
  <2>2. q' = [list |-> PopNode(q.list), data |-> q.data,
              free |-> FreeNode(q, Popped[1])]
      BY <1>2, <1>4, <2>1 DEF Pop
  <2>3. /\ q'.list = PopNode(q.list)
        /\ q'.data = q.data /\ q'.free = FreeNode(q, Popped[1])
      BY <2>2
  <2>4. HoldsList(q'.list, Without(Popped, 1))
    <3>1. HoldsList(PopNode(q.list), Tail(Popped))
        BY <1>1, <2>1, PopHolds
    <3>2. Tail(Popped) = Without(Popped, 1)
        BY <2>1, RangeTail
    <3>3. QED
        BY <2>3, <3>1, <3>2
  <2>5. q' \in QueueType(Room, Datum)
    <3>1. q \in QueueType(Room, Datum) /\ NULL \notin 1 .. Room
        BY QueueAssumption DEF IInv, QueueTypeOK, Datum
    <3>2. Pop(q) \in QueueType(Room, Datum)
        BY <3>1, PopType
    <3>3. QED
        BY <1>2, <3>2
  <2>6. IInv' /\ Content' = Without(Content, 1)
      BY <1>2, <2>1, <2>3, <2>4, <2>5, CutEffect
  <2>7. Content # << >> /\ Content' = Tail(Content)
    <3>1. /\ Content \in Seq([at : Nodes, obj : Datum]) /\ Content # << >>
          /\ Len(Content) = Len(Popped)
        BY <1>1, <2>1, EntriesAre
    <3>2. Len(Tail(Content)) = Len(Content) - 1 /\ Len(Content) \in Nat \ {0}
        BY <3>1, HeadTailProperties, EmptySeq
    <3>3. Tail(Content) = Without(Content, 1)
      <4>1. /\ Tail(Content) \in Seq([at : Nodes, obj : Datum])
            /\ \A i \in 1 .. Len(Content) - 1 : Tail(Content)[i] = Content[i + 1]
          BY <3>1, <3>2, HeadTailProperties
      <4>2. /\ Without(Content, 1) \in Seq([at : Nodes, obj : Datum])
            /\ Len(Without(Content, 1)) = Len(Content) - 1
            /\ \A i \in 1 .. Len(Content) - 1 :
                  Without(Content, 1)[i] = IF i < 1 THEN Content[i] ELSE Content[i + 1]
        <5>1. 1 \in 1 .. Len(Content)
            BY <3>2
        <5>2. QED
            BY <3>1, <5>1, WithoutProperties
      <4>3. QED
          BY <3>2, <4>1, <4>2, SeqEqual
    <3>4. QED
        BY <2>6, <3>1, <3>3
  <2>8. Fifo!Pop
      BY <1>2, <2>7 DEF Fifo!Pop
  <2>9. QED
      BY <2>6, <2>8 DEF Fifo!Next
<1>5. QED
    BY <1>3, <1>4

LEMMA RemoveStep ==
    ASSUME IInv, NEW n \in Nodes, DoRemove(n)
    PROVE  IInv' /\ [Fifo!Next]_(Fifo!vars)
<1>1. /\ q.list \in ListType(Nodes, Int)
      /\ q.data \in [Nodes -> Datum]
      /\ Content = Entries(Popped, q.data)
      /\ NULL \notin Nodes
      /\ Popped \in Seq(Nodes) /\ HoldsList(q.list, Popped)
      /\ Range(Popped) = live
    BY QueueParts DEF IInv
<1>2. /\ n \in live /\ q' = Remove(q, n)
      /\ pushed' = pushed /\ peeked' = peeked /\ live' = live \ {n}
    BY DEF DoRemove
<1>3. PICK k \in 1 .. Len(Popped) : Popped[k] = n
  <2>1. Range(Popped) = {Popped[i] : i \in 1 .. Len(Popped)}
      BY <1>1, RangeEquality
  <2>2. QED
      BY <1>1, <1>2, <2>1
<1>4. /\ q'.list = RemoveNode(q.list, Popped[k])
      /\ q'.data = q.data /\ q'.free = FreeNode(q, Popped[k])
    BY <1>2, <1>3 DEF Remove
<1>5. HoldsList(q'.list, Without(Popped, k))
    BY <1>1, <1>4, RemoveHolds
<1>6. q' \in QueueType(Room, Datum)
  <2>1. q \in QueueType(Room, Datum) /\ NULL \notin 1 .. Room
      BY QueueAssumption DEF IInv, QueueTypeOK, Datum
  <2>2. Remove(q, n) \in QueueType(Room, Datum)
      BY <2>1, RemoveType DEF Nodes
  <2>3. QED
      BY <1>2, <2>2
<1>7. IInv' /\ Content' = Without(Content, k)
    BY <1>2, <1>3, <1>4, <1>5, <1>6, CutEffect
<1>8. Fifo!Remove(n)
  <2>1. Len(Content) = Len(Popped) /\ Content[k].at = n
      BY <1>1, <1>3, EntriesAre
  <2>2. Content' = SubSeq(Content, 1, k - 1) \o SubSeq(Content, k + 1, Len(Content))
      BY <1>7 DEF Without
  <2>3. k \in 1 .. Len(Content)
      BY <2>1
  <2>4. QED
      BY <1>2, <2>1, <2>2, <2>3 DEF Fifo!Remove
<1>9. Fifo!Next
    BY <1>8 DEF Fifo!Next, Nodes
<1>10. QED
    BY <1>7, <1>9

LEMMA PushStep ==
    ASSUME IInv, NEW obj \in Object, DoPush(obj)
    PROVE  IInv' /\ [Fifo!Next]_(Fifo!vars)
<1>1. /\ q.free \in Seq(Nodes)
      /\ Len(q.free) \in Nat /\ Len(Popped) \in Nat
      /\ Content = Entries(Popped, q.data)
      /\ q.data \in [Nodes -> Datum]
      /\ Popped \in Seq(Nodes) /\ Range(Popped) = live
      /\ Len(q.free) + Len(Popped) = Room
    BY QueueParts DEF IInv
<1>2. Len(Content) = Len(Popped) /\ \A i \in 1 .. Len(Popped) : Content[i].at = Popped[i]
    BY <1>1, EntriesAre
<1>3. PoolEmpty(q) <=> Len(Content) = Room
  <2>1. PoolEmpty(q) <=> Len(q.free) = 0
      BY <1>1, EmptySeq DEF PoolEmpty
  <2>2. QED
      BY <1>1, <1>2, <2>1
<1>4. CASE PoolEmpty(q)
  <2>1. q' = q /\ pushed' = NULL /\ live' = live /\ peeked' = peeked
      BY <1>4 DEF DoPush, Push, NextNode
  <2>2. Popped' = Popped /\ Content' = Content
      BY <2>1 DEF Popped, Content
  <2>3. IInv'
      BY <2>1, <2>2 DEF IInv, QueueTypeOK
  <2>4. Fifo!Push(obj)
      BY <1>3, <1>4, <2>1, <2>2 DEF Fifo!Push
  <2>5. QED
      BY <2>3, <2>4 DEF Fifo!Next
<1>5. CASE ~PoolEmpty(q)
  <2>1. /\ IInv'
        /\ NextNode(q) \in Nodes \ live
        /\ pushed' = NextNode(q)
        /\ Content' = Append(Content, [at |-> NextNode(q), obj |-> obj])
        /\ peeked' = peeked
      BY <1>5, PushEffect
  <2>2. \A i \in 1 .. Len(Content) : Content[i].at # NextNode(q)
    <3>1. Range(Popped) = {Popped[i] : i \in 1 .. Len(Popped)}
        BY <1>1, RangeEquality
    <3>2. QED
        BY <1>1, <1>2, <2>1, <3>1
  <2>3. Fifo!Push(obj)
    <3>1. NextNode(q) \in 1 .. Room
        BY <2>1 DEF Nodes
    <3>2. QED
        BY <1>3, <1>5, <2>1, <2>2, <3>1 DEF Fifo!Push
  <2>4. QED
      BY <2>1, <2>3 DEF Fifo!Next
<1>6. QED
    BY <1>4, <1>5

LEMMA PeekStep ==
    ASSUME IInv, DoPeek
    PROVE  IInv' /\ [Fifo!Next]_(Fifo!vars)
<1>1. /\ q' = q /\ live' = live /\ pushed' = pushed
      /\ peeked' = IF Peek(q) = NULL THEN NULL ELSE q.data[Peek(q)]
    BY DEF DoPeek
<1>2. /\ Content = Entries(Popped, q.data)
      /\ q.data \in [Nodes -> Datum] /\ Popped \in Seq(Nodes)
    BY QueueParts DEF IInv
<1>3. Popped' = Popped /\ Content' = Content
    BY <1>1 DEF Popped, Content
<1>4. peeked' \in Object \cup {NULL}
    BY <1>1, <1>2, PeekIs DEF Datum
<1>5. IInv'
    BY <1>1, <1>3, <1>4 DEF IInv, QueueTypeOK
<1>6. peeked' = IF Content = << >> THEN NULL ELSE Head(Content).obj
  <2>1. /\ Content = << >> <=> Popped = << >>
        /\ Content \in Seq([at : Nodes, obj : Datum])
        /\ \A i \in 1 .. Len(Popped) : Content[i].obj = q.data[Popped[i]]
      BY <1>2, EntriesAre
  <2>2. Content # << >> => Head(Content) = Content[1]
      BY <2>1, EmptySeq
  <2>3. QED
      BY <1>1, <2>1, <2>2, PeekIs
<1>7. Fifo!PeekFront
    BY <1>1, <1>3, <1>6 DEF Fifo!PeekFront
<1>8. QED
    BY <1>5, <1>7 DEF Fifo!Next

LEMMA QueueInitTyped == QueueInit => IInv /\ Fifo!Init
<1> SUFFICES ASSUME QueueInit PROVE IInv /\ Fifo!Init
    OBVIOUS
<1> DEFINE id == [i \in 1 .. Room |-> i]
<1>1. /\ q = EmptyQueue(Room, NULL) /\ live = {} /\ pushed = NULL /\ peeked = NULL
      /\ Room \in Nat /\ NULL \notin Nodes
    BY QueueAssumption DEF QueueInit, Nodes
<1>2. q.list = EmptyList(Nodes) /\ q.free = id
    BY <1>1 DEF EmptyQueue, Nodes
<1>3. HoldsList(q.list, << >>)
    BY <1>2, EmptyHolds
<1>4. Popped = << >>
  <2>1. << >> \in Seq(Nodes) /\ Len(<< >>) <= Room
      BY <1>1
  <2>2. QED
      BY <1>3, <2>1, PoppedKnown DEF Popped
<1>5. Content = << >>
    BY <1>4 DEF Content
<1>6. id \in Seq(Nodes) /\ Len(id) = Room /\ NoDuplicates(id) /\ Range(id) = Nodes
  <2>1. id \in Seq(Nodes) /\ Len(id) = Room
      BY <1>1 DEF Nodes
  <2>2. NoDuplicates(id)
      BY <1>1 DEF NoDuplicates
  <2>3. Range(id) = Nodes
      BY DEF Range, Nodes
  <2>4. QED
      BY <2>1, <2>2, <2>3
<1>7. QueueTypeOK
  <2>1. q \in QueueType(Room, Object \cup {NULL})
      BY <1>1, EmptyQueueType
  <2>2. QED
      BY <1>1, <2>1 DEF QueueTypeOK
<1>8. Range(<< >>) = {} /\ Len(<< >>) = 0 /\ << >> \in Seq(Nodes)
    BY DEF Range
<1> HIDE DEF id
<1>9. IInv
    BY <1>1, <1>2, <1>3, <1>4, <1>6, <1>7, <1>8 DEF IInv
<1>10. QED
    BY <1>1, <1>5, <1>9 DEF Fifo!Init

LEMMA QueueNextTyped ==
    ASSUME IInv, [QueueNext]_queueVars
    PROVE  IInv' /\ [Fifo!Next]_(Fifo!vars)
<1>1. CASE \E obj \in Object : DoPush(obj)
    BY <1>1, PushStep
<1>2. CASE DoPop
    BY <1>2, PopStep
<1>3. CASE DoPeek
    BY <1>3, PeekStep
<1>4. CASE \E n \in 1 .. Room : DoRemove(n)
    BY <1>4, RemoveStep DEF Nodes
<1>5. CASE UNCHANGED queueVars
  <2>1. q' = q /\ live' = live /\ pushed' = pushed /\ peeked' = peeked
      BY <1>5 DEF queueVars
  <2>2. Popped' = Popped /\ Content' = Content
      BY <2>1 DEF Popped, Content
  <2>3. QED
      BY <2>1, <2>2 DEF IInv, QueueTypeOK, Fifo!vars
<1>6. QED
    BY <1>1, <1>2, <1>3, <1>4, <1>5 DEF QueueNext

-----------------------------------------------------------------------------
(* Theorems. *)

\* The links of a queue stay within its array and what it holds within the
\* objects that were pushed.
THEOREM QueueTyped == QueueSystem => []QueueTypeOK
<1>1. QueueInit => IInv
    BY QueueInitTyped
<1>2. IInv /\ [QueueNext]_queueVars => IInv'
    BY QueueNextTyped
<1>3. IInv => QueueTypeOK
    BY DEF IInv
<1>4. QED
    BY <1>1, <1>2, <1>3, PTL DEF QueueSystem

\* However entries are pushed, popped and taken out of the middle, both
\* chains of links hold the queued nodes in opposite orders, size() counts
\* them, and the pool holds every other node.
THEOREM ChainsAlwaysAgree == QueueSystem => []ChainsAgree
<1>1. QueueInit => IInv
    BY QueueInitTyped
<1>2. IInv /\ [QueueNext]_queueVars => IInv'
    BY QueueNextTyped
<1>3. ASSUME IInv PROVE ChainsAgree
  <2>1. /\ Popped \in Seq(Nodes) /\ HoldsList(q.list, Popped)
        /\ Range(Popped) = live /\ Range(q.free) = Nodes \ live
        /\ Len(q.free) + Len(Popped) = Room
      BY <1>3 DEF IInv
  <2>2. Len(Popped) <= Room + 1 /\ Room + 1 \in Nat /\ NULL \notin Nodes
      BY <1>3, QueueParts
  <2>3. IterateOrder(q.list, Room + 1) =
            [i \in 1 .. Len(Popped) |-> Popped[Len(Popped) - i + 1]]
      BY <2>1, <2>2, HeldOrders
  <2>4. QueueSize(q) = Len(Popped)
      BY <2>1 DEF QueueSize, HoldsList
  <2>5. IterateOrder(q.list, Room + 1) = Seqs!Reverse(Popped)
      BY <2>3 DEF Seqs!Reverse
  <2>6. QED
      BY <2>1, <2>4, <2>5 DEF ChainsAgree, Nodes
<1>4. QED
    BY <1>1, <1>2, <1>3, PTL DEF QueueSystem

\* The linked list over a pool is a FIFO queue with removal by handle: a push
\* is refused only when SIZE objects are queued.
THEOREM QueueImplementsFifo == QueueSystem => ImplementsFifo
<1>1. QueueInit => IInv /\ Fifo!Init
    BY QueueInitTyped
<1>2. IInv /\ [QueueNext]_queueVars => IInv' /\ [Fifo!Next]_(Fifo!vars)
    BY QueueNextTyped
<1>3. QED
    BY <1>1, <1>2, PTL DEF QueueSystem, ImplementsFifo, Fifo!Spec
================================================================================
