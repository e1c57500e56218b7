---------------------------- MODULE ComponentProofs ----------------------------
(***************************************************************************)
(* What holds of the components above the scheduler, for any size of the   *)
(* device, the maps, the buffers and the packets: the chain of ChainFS,    *)
(* the frames of the W5500, the ports of UDP, the sockets and the serial   *)
(* line.                                                                   *)
(***************************************************************************)
EXTENDS ChainFS, W5500Frames, UDPRouter, UDPSocket, SerialFrames, SeqLemmas,
        FiniteSetTheorems

-----------------------------------------------------------------------------
(***************************************************************************)
(* ChainFS.                                                                *)
(***************************************************************************)

Types == {"none", "free", "name", "data"}
Descriptor == [type : Types, next : Blocks \cup {None}, start : Int, len : Int]

\* What a chain of blocks may be.
Chains == {w \in Seq(Blocks) : Len(w) >= 1 /\ w[1] = 0}

\* The chain that Chain builds, step by step.
ChainSteps(d, walk) ==
    \A n \in 0 .. NumBlocks : walk[n] = IF n = 0 THEN <<0>> ELSE Longer(d, walk[n - 1])

\* There is such a chain.
LEMMA ChainBuilt ==
    ASSUME NEW d \in [Blocks -> Descriptor]
    PROVE  \E walk : /\ ChainSteps(d, walk)
                     /\ Chain(d) = walk[NumBlocks]
                     /\ walk[NumBlocks] \in Chains
<1> DEFINE K == 1 .. NumBlocks
           grow == [i \in K |-> [w \in Chains |-> Longer(d, w)]]
           Step(f) == [n \in 0 .. NumBlocks |->
                          IF n = 0 THEN <<0>> ELSE Longer(d, f[n - 1])]
           w0 == CHOOSE f : f = Step(f)
<1>1. NumBlocks \in Nat /\ 0 \in Blocks
    BY NumBlocksAssumption DEF Blocks
<1>2. <<0>> \in Chains
    BY <1>1 DEF Chains
<1>3. ASSUME NEW w \in Chains PROVE Longer(d, w) \in Chains
  <2>1. w \in Seq(Blocks) /\ Len(w) \in Nat /\ Len(w) >= 1 /\ w[1] = 0
      BY LenProperties DEF Chains
  <2>2. Last(w) \in Blocks
      BY <2>1, ElementOfSeq DEF Last
  <2>3. d[Last(w)].next \in Blocks \cup {None}
      BY <2>2 DEF Descriptor
  <2>4. CASE d[Last(w)].next = None
      BY <2>4 DEF Longer
  <2>5. CASE d[Last(w)].next # None
    <3>1. d[Last(w)].next \in Blocks
        BY <2>3, <2>5
    <3>2. Longer(d, w) = Append(w, d[Last(w)].next)
        BY <2>5 DEF Longer
    <3>3. /\ Append(w, d[Last(w)].next) \in Seq(Blocks)
          /\ Len(Append(w, d[Last(w)].next)) = Len(w) + 1
          /\ Append(w, d[Last(w)].next)[1] = w[1]
        BY <2>1, <3>1, AppendProperties
    <3>4. QED
        BY <2>1, <3>2, <3>3 DEF Chains
  <2>6. QED
      BY <2>4, <2>5
<1>4. StepsWithin(grow, NumBlocks, Chains)
    BY <1>3 DEF StepsWithin
<1>5. PICK f : IteratesWithin(f, <<0>>, grow, NumBlocks, Chains)
    BY <1>1, <1>2, <1>4, RecursionExists
<1> DEFINE g == [n \in 0 .. NumBlocks |-> f[n]]
<1>6. \A i \in K : f[i] = Longer(d, f[i - 1]) /\ f[i - 1] \in Chains
  <2>1. \A i \in K : i - 1 \in 0 .. NumBlocks
      BY <1>1
  <2>2. QED
      BY <1>5, <2>1 DEF IteratesWithin
<1>7. g = Step(g)
  <2>1. \A n \in 0 .. NumBlocks : g[n] = IF n = 0 THEN <<0>> ELSE Longer(d, g[n - 1])
    <3>1. \A n \in 0 .. NumBlocks : n = 0 \/ (n \in K /\ n - 1 \in 0 .. NumBlocks)
        BY <1>1
    <3>2. f[0] = <<0>>
        BY <1>5 DEF IteratesWithin
    <3>3. QED
        BY <1>6, <3>1, <3>2
  <2>2. g = [n \in 0 .. NumBlocks |-> g[n]]
      OBVIOUS
  <2> HIDE DEF g
  <2>3. QED
      BY <2>1, <2>2
<1>8. w0 = Step(w0)
  <2> HIDE DEF g, Step
  <2>1. QED
      BY <1>7
<1>9. Chain(d) = w0[NumBlocks]
    BY DEF Chain
<1> HIDE DEF w0
<1>10. ChainSteps(d, w0)
    BY <1>8 DEF ChainSteps
<1>11. \A n \in 0 .. NumBlocks : w0[n] \in Chains
  <2> DEFINE S == {n \in 0 .. NumBlocks : w0[n] \in Chains}
  <2>1. 0 \in S
      BY <1>1, <1>2, <1>8
  <2>2. ASSUME NEW i \in K, i - 1 \in S PROVE i \in S
    <3>1. w0[i] = Longer(d, w0[i - 1])
        BY <1>1, <1>8
    <3>2. QED
        BY <1>3, <2>2, <3>1
  <2> HIDE DEF S
  <2>3. \A n \in 0 .. NumBlocks : n \in S
      BY <1>1, <2>1, <2>2, InductionUpTo
  <2>4. QED
      BY <2>3 DEF S
<1>12. QED
    BY <1>1, <1>9, <1>10, <1>11

LEMMA ChainTyped ==
    ASSUME NEW d \in [Blocks -> Descriptor]
    PROVE  Chain(d) \in Chains
BY ChainBuilt

\* s are blocks one after the other.
LinkedUp(d, s) == \A i \in 1 .. Len(s) - 1 : d[s[i]].next = s[i + 1]

\* The chain is the blocks one after the other, up to the one without a link.
LEMMA ChainIs ==
    ASSUME NEW d \in [Blocks -> Descriptor], NEW s \in Chains,
           Len(s) <= NumBlocks, LinkedUp(d, s), d[Last(s)].next = None
    PROVE  Chain(d) = s
<1> DEFINE upTo(n) == IF n < Len(s) THEN n + 1 ELSE Len(s)
           g == [n \in 0 .. NumBlocks |-> Prefix(s, upTo(n))]
<1>1. /\ NumBlocks \in Nat /\ None \notin Blocks
      /\ s \in Seq(Blocks) /\ Len(s) \in Nat /\ Len(s) >= 1 /\ s[1] = 0
      /\ \A i \in 1 .. Len(s) : s[i] \in Blocks
    BY NumBlocksAssumption, LenProperties, ElementOfSeq DEF Chains, Blocks, None
<1>2. PICK walk : ChainSteps(d, walk) /\ Chain(d) = walk[NumBlocks]
    BY ChainBuilt
<1>3. /\ walk[0] = <<0>>
      /\ \A i \in 1 .. NumBlocks : walk[i] = Longer(d, walk[i - 1])
    BY <1>1, <1>2 DEF ChainSteps
<1>4. g[0] = <<0>>
  <2>1. Prefix(s, 1) = <<0>>
      BY <1>1 DEF Prefix
  <2>2. upTo(0) = 1
      BY <1>1
  <2>3. QED
      BY <1>1, <2>1, <2>2
<1>5. ASSUME NEW i \in 1 .. NumBlocks PROVE g[i] = Longer(d, g[i - 1])
  <2> DEFINE m == upTo(i - 1)
             p == Prefix(s, m)
  <2>1. /\ m \in 1 .. Len(s) /\ m \in 0 .. Len(s)
        /\ g[i - 1] = p /\ g[i] = Prefix(s, upTo(i))
        /\ m < Len(s) => upTo(i) = m + 1
        /\ m = Len(s) => upTo(i) = m
      BY <1>1
  <2> HIDE DEF m, g
  <2>2. p \in Seq(Blocks) /\ Len(p) = m
      BY <1>1, <2>1, PrefixGrows
  <2>3. m < Len(s) => Append(p, s[m + 1]) = Prefix(s, m + 1)
      BY <1>1, <2>1, PrefixGrows
  <2>4. Last(p) = s[m]
      BY <2>1, <2>2 DEF Last, Prefix
  <2> HIDE DEF p
  <2>5. CASE m = Len(s)
      BY <2>1, <2>4, <2>5 DEF Longer, Last, p
  <2>6. CASE m # Len(s)
    <3>1. m < Len(s) /\ m \in 1 .. Len(s) - 1 /\ m + 1 \in 1 .. Len(s)
        BY <1>1, <2>1, <2>6
    <3>2. d[Last(p)].next = s[m + 1] /\ s[m + 1] # None
        BY <1>1, <2>4, <3>1 DEF LinkedUp
    <3>3. Longer(d, p) = Append(p, s[m + 1])
        BY <3>2 DEF Longer
    <3>4. QED
        BY <2>1, <2>3, <3>1, <3>3
  <2>7. QED
      BY <2>5, <2>6
<1> HIDE DEF g
<1>6. \A i \in 1 .. NumBlocks : walk[i - 1] = g[i - 1] => walk[i] = g[i]
    BY <1>3, <1>5
<1>7. \A i \in 0 .. NumBlocks : walk[i] = g[i]
  <2>1. StepAlike(walk, g, NumBlocks)
      BY <1>3, <1>4, <1>6 DEF StepAlike
  <2>2. QED
      BY <1>1, <2>1, SameSteps
<1>8. g[NumBlocks] = Prefix(s, Len(s))
    BY <1>1 DEF g
<1>9. Prefix(s, Len(s)) = s
  <2>1. /\ Prefix(s, Len(s)) \in Seq(Blocks) /\ Len(Prefix(s, Len(s))) = Len(s)
        /\ \A i \in 1 .. Len(s) : Prefix(s, Len(s))[i] = s[i]
      BY <1>1, PrefixGrows DEF Prefix
  <2>2. QED
      BY <1>1, <2>1, SeqEqual
<1>10. QED
    BY <1>1, <1>2, <1>7, <1>8, <1>9

-----------------------------------------------------------------------------
(* The inductive invariant. *)

FsTypes ==
    /\ disk \in [Blocks -> Descriptor]
    /\ step \in {"unformatted", "unmounted", "ready", "allocate", "link", "describe"}
    /\ made \in [block : Blocks \cup {None}, type : {"none", "name", "data"}]
    /\ chained \in Chains
    /\ torn \in {"no", "link", "chain"}

\* Block 0 keeps the free blocks, which are the last ones.
FreeAtEnd ==
    /\ \A b \in Blocks : disk[b].type = "free" => b = 0
    /\ step # "unformatted" =>
          /\ disk[0].type = "free"
          /\ disk[0].start \in 1 .. NumBlocks
          /\ disk[0].len = NumBlocks - disk[0].start

\* The blocks that were given lie before them.
GivenBefore ==
    /\ 0 \notin given
    /\ step # "unformatted" => \A b \in given : b \in Blocks /\ b < disk[0].start

\* The descriptors are in blocks that were given, and the one that is being
\* added is in another.
ChainedOnce ==
    /\ \A i \in 1 .. Len(chained) : chained[i] = 0 \/ chained[i] \in given
    /\ NoDuplicates(chained)
    /\ step \in {"link", "describe"} =>
          made.block \in given /\ \A i \in 1 .. Len(chained) : chained[i] # made.block

Mounted == step \notin {"unformatted", "unmounted"}
MountedInv ==
    Mounted => free_block = 0 /\ last_block \in Blocks

\* Unless a torn chain was mounted, the descriptors are linked in their order,
\* and the file system knows the last one.  A link it wrote without the block
\* leads on from there.
ChainLinked ==
    step # "unformatted" /\ torn # "chain" =>
        /\ LinkedUp(disk, chained)
        /\ Mounted => last_block = Last(chained)
        /\ torn = "no" => disk[Last(chained)].next = None /\ step # "describe"
        /\ torn = "link" /\ step = "describe"
              => disk[Last(chained)].next = made.block

FsInv == FsTypes /\ FreeAtEnd /\ GivenBefore /\ ChainedOnce /\ MountedInv /\ ChainLinked

-----------------------------------------------------------------------------
(* What the writes change. *)

\* The facts of the invariant about the blocks.
LEMMA FsBlocks ==
    ASSUME FsInv
    PROVE  /\ disk \in [Blocks -> Descriptor]
           /\ 0 \in Blocks /\ None \notin Blocks /\ NumBlocks \in Nat
           /\ chained \in Seq(Blocks) /\ Len(chained) \in Nat /\ Len(chained) >= 1
           /\ chained[1] = 0 /\ Last(chained) = chained[Len(chained)]
           /\ \A i \in 1 .. Len(chained) : chained[i] \in Blocks
           /\ Len(chained) \in 1 .. Len(chained)
           /\ step \in {"link", "describe"} => made.block \in Blocks \ {0}
<1>1. /\ disk \in [Blocks -> Descriptor] /\ chained \in Chains
      /\ made.block \in Blocks \cup {None}
    BY DEF FsInv, FsTypes
<1>2. 0 \in Blocks /\ None \notin Blocks /\ NumBlocks \in Nat
    BY NumBlocksAssumption DEF Blocks, None
<1>3. /\ chained \in Seq(Blocks) /\ Len(chained) \in Nat /\ Len(chained) >= 1
      /\ chained[1] = 0
    BY <1>1, LenProperties DEF Chains
<1>4. \A i \in 1 .. Len(chained) : chained[i] \in Blocks
    BY <1>3, ElementOfSeq
<1>5. step \in {"link", "describe"} => made.block \in Blocks \ {0}
    BY DEF FsInv, ChainedOnce, GivenBefore
<1>6. QED
    BY <1>1, <1>2, <1>3, <1>4, <1>5 DEF Last

\* get_free_blocks moves the start of the free blocks, or does not.
LEMMA ShrunkWrite ==
    ASSUME FsInv, HasSpace, WriteFails(free_block, Shrunk)
    PROVE  /\ disk' \in [Blocks -> Descriptor]
           /\ \A b \in Blocks : /\ disk'[b].type = disk[b].type
                                /\ disk'[b].next = disk[b].next
           /\ disk[0].start \in Blocks \ {0}
           /\ disk'[0].start \in {disk[0].start, disk[0].start + 1}
           /\ disk' # disk => disk'[0].start = disk[0].start + 1
           /\ disk'[0].start \in 1 .. NumBlocks
           /\ disk'[0].len = NumBlocks - disk'[0].start
           /\ WriteBlock(free_block, Shrunk) => disk'[0].start = disk[0].start + 1
<1>1. disk \in [Blocks -> Descriptor] /\ 0 \in Blocks /\ NumBlocks \in Nat
    BY FsBlocks
<1>2. /\ free_block = 0 /\ disk[0].len >= 1
      /\ disk[0].start \in 1 .. NumBlocks
      /\ disk[0].len = NumBlocks - disk[0].start
    BY DEF FsInv, MountedInv, Mounted, FreeAtEnd, HasSpace
<1>3. disk[0].start \in 1 .. NumBlocks - 1
    BY <1>1, <1>2
<1>4. /\ Shrunk \in Descriptor
      /\ Shrunk.type = disk[0].type /\ Shrunk.next = disk[0].next
      /\ Shrunk.start = disk[0].start + 1 /\ Shrunk.len = disk[0].len - 1
  <2> DEFINE d == disk[0]
  <2>1. d \in Descriptor
      BY <1>1
  <2>2. Shrunk = [d EXCEPT !.start = d.start + 1, !.len = d.len - 1]
      BY <1>2 DEF Shrunk
  <2> HIDE DEF d
  <2>3. /\ d.type \in Types /\ d.next \in Blocks \cup {None}
        /\ d.start \in Int /\ d.len \in Int
      BY <2>1 DEF Descriptor
  <2> DEFINE e == [d EXCEPT !.start = d.start + 1]
  <2>4. /\ e \in Descriptor /\ e.type = d.type /\ e.next = d.next
        /\ e.start = d.start + 1 /\ e.len = d.len
      BY <2>1, <2>3 DEF Descriptor
  <2>5. Shrunk = [e EXCEPT !.len = d.len - 1]
      BY <2>1, <2>2 DEF Descriptor
  <2> HIDE DEF e
  <2>6. /\ Shrunk \in Descriptor /\ Shrunk.type = d.type /\ Shrunk.next = d.next
        /\ Shrunk.start = d.start + 1 /\ Shrunk.len = d.len - 1
      BY <2>3, <2>4, <2>5 DEF Descriptor
  <2>7. QED
      BY <2>6 DEF d
<1>5. disk' = disk \/ disk' = [disk EXCEPT ![0] = Shrunk]
    BY <1>2 DEF WriteFails, WriteBlock
<1>6. WriteBlock(free_block, Shrunk) => disk' = [disk EXCEPT ![0] = Shrunk]
    BY <1>2 DEF WriteBlock
<1>7. disk[0].start \in Blocks \ {0}
    BY <1>3 DEF Blocks
<1>8. ASSUME disk' = [disk EXCEPT ![0] = Shrunk]
      PROVE  /\ disk' \in [Blocks -> Descriptor]
             /\ \A b \in Blocks : /\ disk'[b].type = disk[b].type
                                  /\ disk'[b].next = disk[b].next
             /\ disk'[0].start = disk[0].start + 1
             /\ disk'[0].len = disk[0].len - 1
    BY <1>1, <1>4, <1>8
<1>9. QED
    BY <1>1, <1>2, <1>3, <1>5, <1>6, <1>7, <1>8

\* add_descriptor changes one link, or does not.
LEMMA LinkedWrite ==
    ASSUME FsInv, step = "link", WriteFails(last_block, Linked)
    PROVE  /\ disk' \in [Blocks -> Descriptor]
           /\ \A b \in Blocks : /\ disk'[b].type = disk[b].type
                                /\ disk'[b].start = disk[b].start
                                /\ disk'[b].len = disk[b].len
                                /\ b # last_block => disk'[b].next = disk[b].next
           /\ WriteBlock(last_block, Linked) => disk'[last_block].next = made.block
<1>1. disk \in [Blocks -> Descriptor] /\ made.block \in Blocks
    BY FsBlocks
<1>2. last_block \in Blocks
    BY DEF FsInv, MountedInv, Mounted
<1>3. /\ Linked \in Descriptor /\ Linked.next = made.block
      /\ Linked.type = disk[last_block].type
      /\ Linked.start = disk[last_block].start /\ Linked.len = disk[last_block].len
    BY <1>1, <1>2 DEF Linked, Descriptor
<1>4. QED
    BY <1>1, <1>2, <1>3 DEF WriteFails, WriteBlock

\* add_descriptor writes the block of the new descriptor, or does not.
LEMMA DescribedWrite ==
    ASSUME FsInv, step = "describe", WriteFails(made.block, Described)
    PROVE  /\ disk' \in [Blocks -> Descriptor]
           /\ \A b \in Blocks : b # made.block => disk'[b] = disk[b]
           /\ disk'[made.block].type # "free"
           /\ WriteBlock(made.block, Described) => disk'[made.block].next = None
<1>1. disk \in [Blocks -> Descriptor] /\ made.block \in Blocks \ {0}
    BY FsBlocks
<1>2. made.type \in {"none", "name", "data"}
    BY DEF FsInv, FsTypes
<1>3. disk[made.block].type # "free"
    BY <1>1 DEF FsInv, FreeAtEnd
<1>4. /\ Described \in Descriptor /\ Described.next = None
      /\ Described.type # "free"
  <2>1. None \in Int /\ 0 \in Int
      BY DEF None
  <2>2. QED
      BY <1>2, <2>1 DEF Described, Descriptor, Types
<1>5. QED
    BY <1>1, <1>3, <1>4 DEF WriteFails, WriteBlock

-----------------------------------------------------------------------------
(* The invariant is inductive. *)

\* No block is twice in the chain, so it fits the device.
LEMMA ChainedFits ==
    ASSUME FsInv
    PROVE  Len(chained) <= NumBlocks
<1> DEFINE S == 1 .. Len(chained)
<1>1. /\ Len(chained) \in Nat /\ NumBlocks \in Nat /\ chained \in Seq(Blocks)
      /\ \A i \in S : chained[i] \in Blocks
    BY FsBlocks
<1>2. SUFFICES ASSUME Len(chained) > NumBlocks PROVE FALSE
    BY <1>1
<1>3. chained \in [S -> Blocks]
    BY <1>1, LenProperties
<1>4. IsFiniteSet(S) /\ Cardinality(S) = Len(chained)
  <2>1. 1 \in Int /\ Len(chained) \in Int
      BY <1>1
  <2>2. /\ IsFiniteSet(S)
        /\ Cardinality(S) = IF 1 > Len(chained) THEN 0 ELSE Len(chained) - 1 + 1
      BY <2>1, FS_Interval
  <2> HIDE DEF S
  <2>3. QED
      BY <1>1, <2>2
<1>5. IsFiniteSet(Blocks) /\ Cardinality(Blocks) = NumBlocks
    BY <1>1, FS_Interval DEF Blocks
<1>6. Cardinality(Blocks) < Cardinality(S)
    BY <1>1, <1>2, <1>4, <1>5
<1> HIDE DEF S
<1>7. \E i, j \in S : i # j /\ chained[i] = chained[j]
    BY <1>3, <1>4, <1>5, <1>6, FS_PigeonHole
<1>8. QED
    BY <1>7 DEF FsInv, ChainedOnce, NoDuplicates, S

\* The free blocks, the blocks given and the chain stay as they should when the
\* header of block 0 stays and no other block gets free.
LEMMA HeaderKept ==
    ASSUME FsInv, step # "unformatted",
           \A b \in Blocks : disk'[b].type = "free" => disk[b].type = "free",
           disk'[0].type = "free", disk'[0].start = disk[0].start,
           disk'[0].len = disk[0].len, UNCHANGED given
    PROVE  FreeAtEnd' /\ GivenBefore'
BY DEF FsInv, FreeAtEnd, GivenBefore, Blocks

LEMMA FormatStep ==
    ASSUME FsInv, Format
    PROVE  FsInv'
<1>1. /\ disk \in [Blocks -> Descriptor] /\ 0 \in Blocks
      /\ NumBlocks \in Nat /\ NumBlocks > 1 /\ None \in Int /\ 1 \in Int
    BY FsBlocks, NumBlocksAssumption DEF None
<1>2. FreeDescriptor \in Descriptor
    BY <1>1 DEF FreeDescriptor, Descriptor, Types
<1>3. disk' = [disk EXCEPT ![0] = FreeDescriptor]
    BY DEF Format, Formatted, WriteBlock
<1>4. chained' = <<0>> /\ chained' \in Chains /\ Len(chained') = 1 /\ Last(chained') = 0
    BY <1>1 DEF Format, Formatted, Chains, Last
<1>5. FsTypes'
    BY <1>1, <1>2, <1>3, <1>4 DEF FsInv, FsTypes, Format, Formatted
<1>6. FreeAtEnd'
    BY <1>1, <1>3 DEF FsInv, FreeAtEnd, FreeDescriptor
<1>7. GivenBefore' /\ ChainedOnce' /\ MountedInv'
    BY <1>4 DEF Format, Formatted, GivenBefore, ChainedOnce, NoDuplicates, MountedInv, Mounted
<1>8. ChainLinked'
    BY <1>1, <1>3, <1>4 DEF Format, Formatted, ChainLinked, LinkedUp, Mounted, FreeDescriptor
<1>9. QED
    BY <1>5, <1>6, <1>7, <1>8 DEF FsInv

LEMMA MountStep ==
    ASSUME FsInv, Mount
    PROVE  FsInv'
<1> DEFINE c == Chain(disk)
           free == {i \in DOMAIN c : disk[c[i]].type = "free"}
<1>1. disk \in [Blocks -> Descriptor] /\ chained \in Chains
    BY DEF FsInv, FsTypes
<1>2. /\ step = "unmounted" /\ step' = "ready"
      /\ torn' = IF torn = "no" THEN "no" ELSE "chain"
      /\ UNCHANGED <<disk, made, chained, given>>
      /\ last_block' = Last(c)
      /\ free_block' = IF free = {} THEN None ELSE c[Max(free)]
    BY DEF Mount
<1>3. c \in Chains
    BY <1>1, ChainTyped
<1> HIDE DEF c
<1>4. /\ c \in Seq(Blocks) /\ Len(c) \in Nat /\ Len(c) >= 1 /\ c[1] = 0
      /\ DOMAIN c = 1 .. Len(c) /\ \A i \in 1 .. Len(c) : c[i] \in Blocks
    BY <1>3, LenProperties, ElementOfSeq DEF Chains
<1>5. \A i \in 1 .. Len(c) : i \in free <=> c[i] = 0
    BY <1>2, <1>4 DEF FsInv, FreeAtEnd
<1>6. \E m \in free : \A y \in free : m >= y
  <2>1. \E i \in 1 .. Len(c) : c[i] = 0
      BY <1>4
  <2>2. PICK i \in 1 .. Len(c) : c[i] = 0 /\ \A j \in i + 1 .. Len(c) : c[j] # 0
      BY <1>4, <2>1, LastOccurrence
  <2>3. i \in free
      BY <1>5, <2>2
  <2>4. ASSUME NEW y \in free PROVE i >= y
    <3>1. y \in 1 .. Len(c) /\ c[y] = 0
        BY <1>4, <1>5
    <3>2. y \notin i + 1 .. Len(c)
        BY <2>2, <3>1
    <3>3. QED
        BY <1>4, <3>1, <3>2
  <2>5. QED
      BY <2>3, <2>4
<1>7. Max(free) \in free
    BY <1>6 DEF Max
<1>8. free_block' = 0
  <2>1. Max(free) \in 1 .. Len(c)
      BY <1>4, <1>7
  <2>2. c[Max(free)] = 0
      BY <1>5, <1>7, <2>1
  <2>3. QED
      BY <1>2, <1>7, <2>2
<1> HIDE DEF free
<1>9. last_block' \in Blocks
    BY <1>2, <1>4 DEF Last
<1>10. torn' # "chain" => torn = "no" /\ torn' = "no"
    BY <1>2
<1>11. torn = "no" => c = chained
  <2>1. torn = "no" => LinkedUp(disk, chained) /\ disk[Last(chained)].next = None
      BY <1>2 DEF FsInv, ChainLinked
  <2>2. QED
      BY <1>1, <2>1, ChainIs, ChainedFits DEF c
<1>12. FsTypes'
    BY <1>2 DEF FsInv, FsTypes
<1>13. FreeAtEnd' /\ GivenBefore' /\ ChainedOnce'
    BY <1>2 DEF FsInv, FreeAtEnd, GivenBefore, ChainedOnce
<1>14. MountedInv'
    BY <1>8, <1>9 DEF MountedInv
<1>15. ChainLinked'
    BY <1>2, <1>10, <1>11 DEF FsInv, ChainLinked, Mounted
<1>16. QED
    BY <1>12, <1>13, <1>14, <1>15 DEF FsInv

LEMMA OpenStep ==
    ASSUME FsInv, Open \/ NoSpace
    PROVE  FsInv'
<1>1. /\ Mounted /\ Mounted' /\ step' \in {"ready", "allocate"}
      /\ made' \in [block : Blocks \cup {None}, type : {"none", "name", "data"}]
      /\ UNCHANGED <<disk, last_block, free_block, chained, given, torn>>
    BY DEF FsInv, FsTypes, Open, NoSpace, Mounted
<1>2. FsTypes'
    BY <1>1 DEF FsInv, FsTypes
<1>3. FreeAtEnd' /\ GivenBefore' /\ ChainedOnce' /\ MountedInv' /\ ChainLinked'
    BY <1>1 DEF FsInv, FreeAtEnd, GivenBefore, ChainedOnce, MountedInv, ChainLinked, Mounted
<1>4. QED
    BY <1>2, <1>3 DEF FsInv

\* get_free_blocks, whether it succeeds, fails or is cut off.
LEMMA AllocateStep ==
    ASSUME FsInv, \/ GetFreeBlock \/ GetFreeBlockFails \/ (Crash /\ HasSpace)
    PROVE  FsInv'
<1>1. /\ HasSpace /\ WriteFails(free_block, Shrunk)
      /\ UNCHANGED <<last_block, free_block, chained, torn>>
      /\ step' \in {"link", "ready", "unmounted"}
      /\ step = "allocate"
    BY DEF GetFreeBlock, GetFreeBlockFails, Crash, WriteFails, HasSpace
<1>2. \/ /\ WriteBlock(free_block, Shrunk)
         /\ made' = [made EXCEPT !.block = disk[free_block].start]
         /\ given' = given \cup {disk[free_block].start}
      \/ UNCHANGED <<made, given>> /\ step' # "link"
    BY DEF GetFreeBlock, GetFreeBlockFails, Crash
<1>3. free_block = 0 /\ 0 \in Blocks /\ NumBlocks \in Nat
    BY <1>1, FsBlocks DEF FsInv, MountedInv, Mounted
<1>4. /\ disk' \in [Blocks -> Descriptor]
      /\ \A b \in Blocks : /\ disk'[b].type = disk[b].type
                           /\ disk'[b].next = disk[b].next
      /\ disk[0].start \in Blocks \ {0}
      /\ disk'[0].start \in {disk[0].start, disk[0].start + 1}
      /\ disk'[0].start \in 1 .. NumBlocks
      /\ disk'[0].len = NumBlocks - disk'[0].start
      /\ WriteBlock(free_block, Shrunk) => disk'[0].start = disk[0].start + 1
    BY <1>1, ShrunkWrite
<1>5. FsTypes'
  <2>1. made' \in [block : Blocks \cup {None}, type : {"none", "name", "data"}]
      BY <1>2, <1>3, <1>4 DEF FsInv, FsTypes
  <2>2. QED
      BY <1>1, <1>4, <2>1 DEF FsInv, FsTypes
<1>6. FreeAtEnd'
    BY <1>1, <1>3, <1>4 DEF FsInv, FreeAtEnd
<1>7. \A b \in given : b \in Blocks /\ b < disk[0].start
    BY <1>1 DEF FsInv, GivenBefore
<1>8. GivenBefore'
  <2>1. 0 \notin given'
      BY <1>2, <1>3, <1>4 DEF FsInv, GivenBefore
  <2>2. ASSUME NEW b \in given' PROVE b \in Blocks /\ b < disk'[0].start
    <3>1. CASE b \in given
        BY <1>4, <1>7, <3>1 DEF Blocks
    <3>2. CASE b \notin given
        BY <1>2, <1>3, <1>4, <3>2 DEF Blocks
    <3>3. QED
        BY <3>1, <3>2
  <2>3. QED
      BY <2>1, <2>2 DEF GivenBefore
<1>9. ChainedOnce'
  <2>1. disk[0].start \notin given
      BY <1>4, <1>7 DEF Blocks
  <2>2. \A i \in 1 .. Len(chained) : chained[i] # disk[0].start
      BY <1>4, <2>1 DEF FsInv, ChainedOnce
  <2>3. step' = "link" => made'.block = disk[0].start /\ disk[0].start \in given'
      BY <1>2, <1>3 DEF FsInv, FsTypes
  <2>4. given \subseteq given'
      BY <1>2
  <2>5. QED
      BY <1>1, <2>2, <2>3, <2>4 DEF FsInv, ChainedOnce
<1>10. MountedInv'
    BY <1>1 DEF FsInv, MountedInv, Mounted
<1>11. ChainLinked'
  <2>1. LinkedUp(disk, chained) => LinkedUp(disk, chained)'
    <3>1. \A i \in 1 .. Len(chained) - 1 : chained[i] \in Blocks
        BY FsBlocks
    <3>2. QED
        BY <1>1, <1>4, <3>1 DEF LinkedUp
  <2>2. disk'[Last(chained)].next = disk[Last(chained)].next
      BY <1>4, FsBlocks
  <2>3. QED
      BY <1>1, <2>1, <2>2 DEF FsInv, ChainLinked, Mounted
<1>12. QED
    BY <1>5, <1>6, <1>8, <1>9, <1>10, <1>11 DEF FsInv

\* The first write of add_descriptor.
LEMMA LinkStep ==
    ASSUME FsInv, Link \/ LinkFails \/ (Crash /\ step = "link")
    PROVE  FsInv'
<1>1. /\ step = "link" /\ WriteFails(last_block, Linked)
      /\ UNCHANGED <<last_block, free_block, made, chained, given>>
      /\ step' \in {"describe", "ready", "unmounted"}
      /\ torn' = Tear \/ (disk' = disk /\ torn' = torn)
      /\ step' = "describe" => WriteBlock(last_block, Linked) /\ torn' = Tear
    BY DEF Link, LinkFails, Crash, WriteFails, HasSpace
<1>2. /\ disk' \in [Blocks -> Descriptor]
      /\ \A b \in Blocks : /\ disk'[b].type = disk[b].type
                           /\ disk'[b].start = disk[b].start
                           /\ disk'[b].len = disk[b].len
                           /\ b # last_block => disk'[b].next = disk[b].next
      /\ WriteBlock(last_block, Linked) => disk'[last_block].next = made.block
    BY <1>1, LinkedWrite
<1>3. FsTypes'
    BY <1>1, <1>2 DEF FsInv, FsTypes, Tear
<1>4. FreeAtEnd' /\ GivenBefore'
  <2>1. disk[0].type = "free" /\ 0 \in Blocks
      BY <1>1, FsBlocks DEF FsInv, FreeAtEnd
  <2>2. QED
      BY <1>1, <1>2, <2>1, HeaderKept
<1>5. ChainedOnce' /\ MountedInv'
    BY <1>1 DEF FsInv, ChainedOnce, MountedInv, Mounted
<1>6. ChainLinked'
  <2> SUFFICES ASSUME torn' # "chain" PROVE ChainLinked'
      BY DEF ChainLinked
  <2>1. torn # "chain" /\ (torn' = "no" => disk' = disk /\ torn = "no")
      BY <1>1 DEF Tear
  <2>2. LinkedUp(disk, chained) /\ last_block = Last(chained)
      BY <1>1, <2>1 DEF FsInv, ChainLinked, Mounted
  <2>3. \A i \in 1 .. Len(chained) - 1 : chained[i] \in Blocks /\ chained[i] # last_block
      BY <2>2, FsBlocks DEF FsInv, ChainedOnce, NoDuplicates
  <2>4. LinkedUp(disk, chained)'
      BY <1>1, <1>2, <2>2, <2>3 DEF LinkedUp
  <2>5. torn' = "no" => disk'[Last(chained)].next = None /\ step' # "describe"
      BY <1>1, <2>1 DEF FsInv, ChainLinked, Tear
  <2>6. step' = "describe" => disk'[Last(chained)].next = made.block
      BY <1>1, <1>2, <2>2
  <2>7. QED
      BY <1>1, <2>2, <2>4, <2>5, <2>6 DEF ChainLinked
<1>7. QED
    BY <1>3, <1>4, <1>5, <1>6 DEF FsInv

\* What any outcome of the second write keeps.
LEMMA DescribeKeeps ==
    ASSUME FsInv, step = "describe", WriteFails(made.block, Described),
           UNCHANGED <<free_block, given>>
    PROVE  /\ disk' \in [Blocks -> Descriptor]
           /\ FreeAtEnd' /\ GivenBefore'
           /\ torn # "chain" => /\ torn = "link" /\ last_block = Last(chained)
                                /\ LinkedUp(disk', chained)
                                /\ disk'[Last(chained)].next = made.block
           /\ WriteBlock(made.block, Described) => disk'[made.block].next = None
<1>1. /\ disk' \in [Blocks -> Descriptor]
      /\ \A b \in Blocks : b # made.block => disk'[b] = disk[b]
      /\ disk'[made.block].type # "free"
      /\ WriteBlock(made.block, Described) => disk'[made.block].next = None
    BY DescribedWrite
<1>2. made.block # 0 /\ 0 \in Blocks /\ disk[0].type = "free"
    BY FsBlocks DEF FsInv, FreeAtEnd
<1>3. FreeAtEnd' /\ GivenBefore'
    BY <1>1, <1>2, HeaderKept
<1>4. /\ \A i \in 1 .. Len(chained) : chained[i] \in Blocks /\ chained[i] # made.block
      /\ Last(chained) \in Blocks /\ Last(chained) # made.block
    BY FsBlocks DEF FsInv, ChainedOnce
<1>5. ASSUME torn # "chain"
      PROVE  /\ torn = "link" /\ last_block = Last(chained)
             /\ LinkedUp(disk', chained)
             /\ disk'[Last(chained)].next = made.block
  <2>1. /\ torn = "link" /\ last_block = Last(chained) /\ LinkedUp(disk, chained)
        /\ disk[Last(chained)].next = made.block
      BY <1>5 DEF FsInv, FsTypes, ChainLinked, Mounted
  <2>2. \A i \in 1 .. Len(chained) - 1 : disk'[chained[i]] = disk[chained[i]]
      BY <1>1, <1>4, FsBlocks
  <2>3. QED
      BY <1>1, <1>4, <2>1, <2>2 DEF LinkedUp
<1>6. QED
    BY <1>1, <1>3, <1>5

LEMMA DescribeFailsStep ==
    ASSUME FsInv, DescribeFails \/ (Crash /\ step = "describe")
    PROVE  FsInv'
<1>1. /\ step = "describe" /\ WriteFails(made.block, Described)
      /\ UNCHANGED <<last_block, free_block, made, chained, given, torn>>
      /\ step' \in {"ready", "unmounted"}
    BY DEF DescribeFails, Crash, HasSpace
<1>2. /\ disk' \in [Blocks -> Descriptor]
      /\ FreeAtEnd' /\ GivenBefore'
      /\ torn # "chain" => /\ torn = "link" /\ last_block = Last(chained)
                           /\ LinkedUp(disk', chained)
    BY <1>1, DescribeKeeps
<1>3. FsTypes' /\ ChainedOnce' /\ MountedInv' /\ ChainLinked'
    BY <1>1, <1>2 DEF FsInv, FsTypes, ChainedOnce, MountedInv, ChainLinked, Mounted
<1>4. QED
    BY <1>2, <1>3 DEF FsInv

LEMMA DescribeStep ==
    ASSUME FsInv, Describe
    PROVE  FsInv'
<1> DEFINE n == Len(chained)
<1>1. /\ step = "describe" /\ WriteBlock(made.block, Described)
      /\ chained' = Append(chained, made.block) /\ last_block' = made.block
      /\ torn' = IF torn = "link" THEN "no" ELSE torn
      /\ UNCHANGED <<free_block, given>>
      /\ step' \in {"allocate", "ready"}
      /\ made' \in {made, [block |-> None, type |-> "data"]}
    BY DEF Describe
<1>2. /\ disk' \in [Blocks -> Descriptor]
      /\ FreeAtEnd' /\ GivenBefore'
      /\ torn # "chain" => /\ torn = "link" /\ last_block = Last(chained)
                           /\ LinkedUp(disk', chained)
                           /\ disk'[Last(chained)].next = made.block
      /\ disk'[made.block].next = None
    BY <1>1, DescribeKeeps DEF WriteFails
<1>3. /\ chained \in Seq(Blocks) /\ n \in Nat /\ n >= 1 /\ chained[1] = 0
      /\ Last(chained) = chained[n] /\ made.block \in Blocks
      /\ \A i \in 1 .. n : chained[i] \in Blocks /\ chained[i] # made.block
    BY <1>1, FsBlocks DEF FsInv, ChainedOnce
<1>4. /\ chained' \in Seq(Blocks) /\ Len(chained') = n + 1
      /\ \A i \in 1 .. n : chained'[i] = chained[i]
      /\ chained'[n + 1] = made.block
    BY <1>1, <1>3, AppendProperties
<1>5. chained' \in Chains
    BY <1>3, <1>4 DEF Chains
<1>6. FsTypes'
  <2>1. made' \in [block : Blocks \cup {None}, type : {"none", "name", "data"}]
      BY <1>1 DEF FsInv, FsTypes
  <2>2. QED
      BY <1>1, <1>2, <1>5, <2>1 DEF FsInv, FsTypes
<1> HIDE DEF n
<1>7. \A i \in 1 .. n + 1 : i \in 1 .. n \/ i = n + 1
    BY <1>3
<1>8. ChainedOnce'
  <2>1. made.block \in given /\ \A i \in 1 .. n : chained[i] = 0 \/ chained[i] \in given
      BY <1>1 DEF FsInv, ChainedOnce, n
  <2>2. \A i \in 1 .. n + 1 : chained'[i] = 0 \/ chained'[i] \in given'
      BY <1>1, <1>4, <1>7, <2>1
  <2>3. NoDuplicates(chained')
    <3>1. \A i, j \in 1 .. n : chained[i] = chained[j] => i = j
        BY DEF FsInv, ChainedOnce, NoDuplicates, n
    <3>2. \A i, j \in 1 .. n + 1 : chained'[i] = chained'[j] => i = j
        BY <1>3, <1>4, <1>7, <3>1
    <3>3. QED
        BY <1>4, <3>2 DEF NoDuplicates
  <2>4. QED
      BY <1>1, <1>4, <2>2, <2>3 DEF ChainedOnce
<1>9. MountedInv'
    BY <1>1, <1>3 DEF FsInv, MountedInv, Mounted
<1>10. ChainLinked'
  <2>1. Last(chained)' = made.block
      BY <1>4 DEF Last
  <2>2. ASSUME torn # "chain" PROVE LinkedUp(disk', chained')
    <3>1. \A i \in 1 .. n - 1 : disk'[chained[i]].next = chained[i + 1]
        BY <1>2, <2>2 DEF LinkedUp, n
    <3>2. \A i \in 1 .. n : i \in 1 .. n - 1 \/ i = n
        BY <1>3
    <3>3. \A i \in 1 .. n - 1 : i \in 1 .. n /\ i + 1 \in 1 .. n
        BY <1>3
    <3>4. \A i \in 1 .. n : disk'[chained'[i]].next = chained'[i + 1]
        BY <1>2, <1>3, <1>4, <2>2, <3>1, <3>2, <3>3
    <3>5. Len(chained') - 1 = n
        BY <1>3, <1>4
    <3>6. QED
        BY <3>4, <3>5 DEF LinkedUp
  <2>3. QED
      BY <1>1, <1>2, <2>1, <2>2 DEF ChainLinked, Mounted
<1>11. QED
    BY <1>2, <1>6, <1>8, <1>9, <1>10 DEF FsInv

LEMMA FormatFailsStep ==
    ASSUME FsInv, FormatFails
    PROVE  FsInv'
<1>1. CASE disk' = disk
    BY <1>1 DEF FormatFails, FsInv, FsTypes, FreeAtEnd, GivenBefore, ChainedOnce,
                MountedInv, ChainLinked, LinkedUp, Mounted
<1>2. CASE disk' # disk
  <2>1. Format
      BY <1>2 DEF FormatFails, WriteFails, Format
  <2>2. QED
      BY <2>1, FormatStep
<1>3. QED
    BY <1>1, <1>2

LEMMA FsStep ==
    ASSUME FsInv, [FsNext]_fsVars
    PROVE  FsInv'
<1>1. CASE Format
    BY <1>1, FormatStep
<1>2. CASE Mount
    BY <1>2, MountStep
<1>3. CASE Open \/ NoSpace
    BY <1>3, OpenStep
<1>4. CASE GetFreeBlock \/ GetFreeBlockFails
    BY <1>4, AllocateStep
<1>5. CASE Link \/ LinkFails
    BY <1>5, LinkStep
<1>6. CASE Describe
    BY <1>6, DescribeStep
<1>7. CASE DescribeFails
    BY <1>7, DescribeFailsStep
<1>8. CASE Crash
  <2>1. CASE HasSpace
      BY <1>8, <2>1, AllocateStep
  <2>2. CASE step = "link"
      BY <1>8, <2>2, LinkStep
  <2>3. CASE step = "describe"
      BY <1>8, <2>3, DescribeFailsStep
  <2>4. CASE ~HasSpace /\ step # "link" /\ step # "describe"
    <3>1. /\ Mounted /\ step' = "unmounted"
          /\ UNCHANGED <<disk, last_block, free_block, made, chained, given, torn>>
        BY <1>8, <2>4 DEF Crash, Mounted
    <3>2. QED
        BY <3>1 DEF FsInv, FsTypes, FreeAtEnd, GivenBefore, ChainedOnce, MountedInv,
                    ChainLinked, Mounted
  <2>5. QED
      BY <2>1, <2>2, <2>3, <2>4
<1>9. CASE FormatFails
    BY <1>9, FormatFailsStep
<1>10. CASE UNCHANGED fsVars
    BY <1>10 DEF fsVars, FsInv, FsTypes, FreeAtEnd, GivenBefore, ChainedOnce, MountedInv,
                 ChainLinked, LinkedUp, Mounted
<1>11. QED
    BY <1>1, <1>2, <1>3, <1>4, <1>5, <1>6, <1>7, <1>8, <1>9, <1>10 DEF FsNext

LEMMA FsInvariant == FsSpec => []FsInv
<1>1. FsInit => FsInv
  <2> SUFFICES ASSUME FsInit PROVE FsInv
      OBVIOUS
  <2>1. 0 \in Blocks /\ None \in Int /\ 0 \in Int
      BY NumBlocksAssumption DEF Blocks, None
  <2>2. Erased \in Descriptor /\ Erased.type = "none"
      BY <2>1 DEF Erased, Descriptor, Types
  <2>3. chained = <<0>> /\ chained \in Chains /\ Len(chained) = 1
      BY <2>1 DEF FsInit, Chains
  <2>4. FsTypes
      BY <2>2, <2>3 DEF FsInit, FsTypes
  <2>5. FreeAtEnd /\ GivenBefore /\ ChainedOnce /\ MountedInv /\ ChainLinked
      BY <2>2, <2>3 DEF FsInit, FreeAtEnd, GivenBefore, ChainedOnce, NoDuplicates,
                        MountedInv, ChainLinked, Mounted
  <2>6. QED
      BY <2>4, <2>5 DEF FsInv
<1>2. FsInv /\ [FsNext]_fsVars => FsInv'
    BY FsStep
<1>3. QED
    BY <1>1, <1>2, PTL DEF FsSpec

-----------------------------------------------------------------------------
(* The theorems. *)

\* On a device of any size no block is given to two descriptors, and none that
\* was given is still free (get_free_blocks), whatever fails or crashes.
THEOREM BlocksGivenOnce == FsSpec => []GivenOnce
<1>1. FsInv => GivenOnce
  <2> SUFFICES ASSUME FsInv, step # "unformatted" PROVE GivenOnce
      BY DEF GivenOnce
  <2>1. disk[0].start \in Nat /\ \A b \in given : b \in Int /\ b < disk[0].start
      BY DEF FsInv, FreeAtEnd, GivenBefore, Blocks
  <2>2. given \cap disk[0].start .. disk[0].start + disk[0].len - 1 = {}
      BY <2>1 DEF FsInv, FreeAtEnd
  <2>3. \A i, j \in DOMAIN chained : chained[i] = chained[j] => i = j
      BY FsBlocks, LenProperties DEF FsInv, ChainedOnce, NoDuplicates
  <2>4. QED
      BY <2>2, <2>3 DEF GivenOnce
<1>2. QED
    BY <1>1, FsInvariant, PTL

\* On a device of any size the chain on the disk is the descriptors that were
\* added, in their order (add_descriptor), also after a crash, unless one came
\* between a link and its block and the chain was mounted or used so.
THEOREM ChainStaysWhole == FsSpec => []ChainWhole
<1>1. FsInv => ChainWhole
  <2> SUFFICES ASSUME FsInv, step \in {"unmounted", "ready"}, torn = "no"
               PROVE  Chain(disk) = chained
      BY DEF ChainWhole
  <2>1. disk \in [Blocks -> Descriptor] /\ chained \in Chains
      BY DEF FsInv, FsTypes
  <2>2. LinkedUp(disk, chained) /\ disk[Last(chained)].next = None
      BY DEF FsInv, ChainLinked
  <2>3. QED
      BY <2>1, <2>2, ChainIs, ChainedFits
<1>2. QED
    BY <1>1, FsInvariant, PTL

-----------------------------------------------------------------------------
(***************************************************************************)
(* The frames of the W5500.                                                *)
(***************************************************************************)

Piece == [at : Nat, len : Nat]

\* Bytes sums up.
LEMMA BytesAre ==
    ASSUME NEW f \in Seq(Nat)
    PROVE  /\ Bytes(f)[0] = 0
           /\ \A n \in 1 .. Len(f) : Bytes(f)[n] = Bytes(f)[n - 1] + f[n] + 2
           /\ \A n \in 0 .. Len(f) : Bytes(f)[n] \in Nat
<1> DEFINE K == Len(f)
           add == [n \in 1 .. K |-> [x \in Nat |-> x + f[n] + 2]]
           Step(g) == [n \in 0 .. K |-> IF n = 0 THEN 0 ELSE g[n - 1] + f[n] + 2]
           b == CHOOSE g : g = Step(g)
<1>1. K \in Nat /\ \A n \in 1 .. K : f[n] \in Nat
    BY LenProperties, ElementOfSeq
<1>2. StepsWithin(add, K, Nat)
    BY <1>1 DEF StepsWithin
<1>3. PICK h : IteratesWithin(h, 0, add, K, Nat)
    BY <1>1, <1>2, RecursionExists
<1> DEFINE g == [n \in 0 .. K |-> h[n]]
<1>4. /\ h[0] = 0
      /\ \A n \in 1 .. K : h[n] = h[n - 1] + f[n] + 2
  <2>1. \A n \in 1 .. K : n - 1 \in 0 .. K /\ h[n - 1] \in Nat
      BY <1>1, <1>3 DEF IteratesWithin
  <2>2. QED
      BY <1>3, <2>1 DEF IteratesWithin
<1>5. g = Step(g)
  <2>1. \A n \in 0 .. K : g[n] = IF n = 0 THEN 0 ELSE g[n - 1] + f[n] + 2
    <3>1. \A n \in 0 .. K : n = 0 \/ (n \in 1 .. K /\ n - 1 \in 0 .. K)
        BY <1>1
    <3>2. QED
        BY <1>4, <3>1
  <2>2. g = [n \in 0 .. K |-> g[n]]
      OBVIOUS
  <2> HIDE DEF g
  <2>3. QED
      BY <2>1, <2>2
<1>6. b = Step(b)
  <2> HIDE DEF g, Step
  <2>1. QED
      BY <1>5
<1>7. Bytes(f) = b
    BY DEF Bytes
<1> HIDE DEF b
<1>8. \A n \in 0 .. K : b[n] = IF n = 0 THEN 0 ELSE b[n - 1] + f[n] + 2
    BY <1>6
<1>9. b[0] = 0 /\ \A n \in 1 .. K : b[n] = b[n - 1] + f[n] + 2
    BY <1>1, <1>8
<1>10. \A n \in 0 .. K : b[n] \in Nat
  <2> DEFINE S == {n \in 0 .. K : b[n] \in Nat}
  <2>1. 0 \in S
      BY <1>1, <1>9
  <2>2. ASSUME NEW n \in 1 .. K, n - 1 \in S PROVE n \in S
    <3>1. n \in 0 .. K /\ f[n] \in Nat /\ b[n - 1] \in Nat
        BY <1>1, <2>2
    <3>2. b[n] = b[n - 1] + f[n] + 2
        BY <1>9
    <3>3. b[n] \in Nat
        BY <3>1, <3>2
    <3>4. QED
        BY <3>1, <3>3
  <2> HIDE DEF S
  <2>3. \A n \in 0 .. K : n \in S
      BY <1>1, <2>1, <2>2, InductionUpTo
  <2>4. QED
      BY <2>3 DEF S
<1>11. QED
    BY <1>7, <1>9, <1>10

\* The frames lie one behind the other.
LEMMA BytesGrow ==
    ASSUME NEW f \in Seq(Nat), NEW k \in 0 .. Len(f), NEW n \in 0 .. Len(f), k < n
    PROVE  Bytes(f)[k] + 2 <= Bytes(f)[n]
<1> DEFINE K == Len(f)
           b == Bytes(f)
           S == {m \in 0 .. K : m <= k \/ b[k] + 2 <= b[m]}
<1>1. /\ K \in Nat /\ \A m \in 1 .. K : f[m] \in Nat
      /\ \A m \in 1 .. K : b[m] = b[m - 1] + f[m] + 2
      /\ \A m \in 0 .. K : b[m] \in Nat
    BY LenProperties, ElementOfSeq, BytesAre
<1> HIDE DEF b, K
<1>2. 0 \in S
    BY <1>1 DEF K
<1>3. ASSUME NEW m \in 1 .. K, m - 1 \in S PROVE m \in S
  <2>1. m - 1 \in 0 .. K /\ b[m] \in Nat /\ b[m - 1] \in Nat /\ f[m] \in Nat
        /\ b[k] \in Nat /\ b[m] = b[m - 1] + f[m] + 2 /\ m \in 0 .. K
      BY <1>1 DEF K
  <2>2. CASE m <= k
      BY <2>1, <2>2
  <2>3. CASE m - 1 = k
      BY <2>1, <2>3
  <2>4. CASE m - 1 > k
    <3>1. b[k] + 2 <= b[m - 1]
        BY <1>3, <2>1, <2>4
    <3>2. \A x, y, z, d \in Nat : x + 2 <= y /\ z = y + d + 2 => x + 2 <= z
        OBVIOUS
    <3> HIDE DEF S
    <3>3. b[k] + 2 <= b[m]
        BY <2>1, <3>1, <3>2
    <3>4. QED
        BY <2>1, <3>3 DEF S
  <2>5. m <= k \/ m - 1 = k \/ m - 1 > k
      BY <1>1 DEF K
  <2>6. QED
      BY <2>2, <2>3, <2>4, <2>5
<1> HIDE DEF S
<1>4. \A m \in 0 .. K : m \in S
    BY <1>1, <1>2, <1>3, InductionUpTo
<1>5. n \in S
    BY <1>4 DEF K
<1>6. QED
    BY <1>5 DEF S, b, K

\* A frame that comes in does not move the others.
LEMMA BytesKept ==
    ASSUME NEW f \in Seq(Nat), NEW x \in Nat
    PROVE  \A n \in 0 .. Len(f) : Bytes(Append(f, x))[n] = Bytes(f)[n]
<1> DEFINE g == Append(f, x)
           a == Bytes(f)
           b == Bytes(g)
<1>1. /\ Len(f) \in Nat /\ g \in Seq(Nat) /\ Len(g) = Len(f) + 1
      /\ \A n \in 1 .. Len(f) : g[n] = f[n]
    BY LenProperties, AppendProperties
<1> HIDE DEF g
<1>2. a[0] = 0 /\ \A n \in 1 .. Len(f) : a[n] = a[n - 1] + f[n] + 2
    BY BytesAre
<1>3. b[0] = 0 /\ \A n \in 1 .. Len(g) : b[n] = b[n - 1] + g[n] + 2
    BY <1>1, BytesAre
<1> HIDE DEF a, b
<1>4. \A n \in 1 .. Len(f) : n \in 1 .. Len(g)
    BY <1>1
<1>5. \A n \in 1 .. Len(f) : a[n - 1] = b[n - 1] => a[n] = b[n]
    BY <1>1, <1>2, <1>3, <1>4
<1>6. \A n \in 0 .. Len(f) : a[n] = b[n]
  <2>1. StepAlike(a, b, Len(f))
      BY <1>2, <1>3, <1>5 DEF StepAlike
  <2>2. QED
      BY <1>1, <2>1, SameSteps
<1>7. QED
    BY <1>6 DEF a, b, g

\* Whole adds up the data.
Up(f, lost, n, r) ==
    LET at == Bytes(f)[n - 1] + 2
    IN  IF f[n] <= Capacity /\ at \notin lost
        THEN Append(r, [at |-> at, len |-> f[n]]) ELSE r

LEMMA WholeAre ==
    ASSUME NEW f \in Seq(Nat), NEW lost
    PROVE  /\ Whole(f, lost)[0] = << >>
           /\ \A n \in 1 .. Len(f) :
                 Whole(f, lost)[n] = Up(f, lost, n, Whole(f, lost)[n - 1])
           /\ \A n \in 0 .. Len(f) : Whole(f, lost)[n] \in Seq(Piece)
<1> DEFINE K == Len(f)
           add == [n \in 1 .. K |-> [r \in Seq(Piece) |-> Up(f, lost, n, r)]]
           Step(g) == [n \in 0 .. K |->
              IF n = 0 THEN << >>
              ELSE LET at == Bytes(f)[n - 1] + 2
                   IN  IF f[n] <= Capacity /\ at \notin lost
                       THEN Append(g[n - 1], [at |-> at, len |-> f[n]]) ELSE g[n - 1]]
           b == CHOOSE g : g = Step(g)
<1>1. K \in Nat /\ \A n \in 1 .. K : f[n] \in Nat
    BY LenProperties, ElementOfSeq
<1>2. ASSUME NEW n \in 1 .. K, NEW r \in Seq(Piece)
      PROVE  Up(f, lost, n, r) \in Seq(Piece)
  <2>1. n - 1 \in 0 .. K
      BY <1>1
  <2>2. Bytes(f)[n - 1] \in Nat /\ f[n] \in Nat
      BY <1>1, <2>1, BytesAre
  <2>3. [at |-> Bytes(f)[n - 1] + 2, len |-> f[n]] \in Piece
      BY <2>2 DEF Piece
  <2>4. Append(r, [at |-> Bytes(f)[n - 1] + 2, len |-> f[n]]) \in Seq(Piece)
      BY <2>3, AppendProperties
  <2>5. QED
      BY <2>4 DEF Up
<1>3. StepsWithin(add, K, Seq(Piece))
    BY <1>2 DEF StepsWithin
<1>4. << >> \in Seq(Piece)
    OBVIOUS
<1>5. PICK h : IteratesWithin(h, << >>, add, K, Seq(Piece))
    BY <1>1, <1>3, <1>4, RecursionExists
<1> DEFINE g == [n \in 0 .. K |-> h[n]]
<1>6. /\ h[0] = << >>
      /\ \A n \in 1 .. K : h[n] = Up(f, lost, n, h[n - 1])
  <2>1. \A n \in 1 .. K : n - 1 \in 0 .. K /\ h[n - 1] \in Seq(Piece)
      BY <1>1, <1>5 DEF IteratesWithin
  <2>2. QED
      BY <1>5, <2>1 DEF IteratesWithin
<1>7. \A r : \A n \in 0 .. K : Step(r)[n] = IF n = 0 THEN << >> ELSE Up(f, lost, n, r[n - 1])
    BY DEF Up
<1>8. g = Step(g)
  <2>1. \A n \in 0 .. K : g[n] = Step(g)[n]
    <3>1. \A n \in 0 .. K : n = 0 \/ (n \in 1 .. K /\ n - 1 \in 0 .. K)
        BY <1>1
    <3>2. \A n \in 0 .. K : g[n] = IF n = 0 THEN << >> ELSE Up(f, lost, n, g[n - 1])
        BY <1>6, <3>1
    <3> HIDE DEF Step, g
    <3>3. QED
        BY <1>7, <3>2
  <2>2. g = [n \in 0 .. K |-> g[n]]
      OBVIOUS
  <2>3. Step(g) = [n \in 0 .. K |-> Step(g)[n]]
      OBVIOUS
  <2> HIDE DEF g, Step
  <2>4. QED
      BY <2>1, <2>2, <2>3
<1>9. b = Step(b)
  <2> HIDE DEF g, Step
  <2>1. QED
      BY <1>8
<1>10. Whole(f, lost) = b
    BY DEF Whole
<1> HIDE DEF b, Step
<1>11. \A n \in 0 .. K : b[n] = IF n = 0 THEN << >> ELSE Up(f, lost, n, b[n - 1])
    BY <1>7, <1>9
<1>12. b[0] = << >> /\ \A n \in 1 .. K : b[n] = Up(f, lost, n, b[n - 1])
    BY <1>1, <1>11
<1>13. \A n \in 0 .. K : b[n] \in Seq(Piece)
  <2> DEFINE S == {n \in 0 .. K : b[n] \in Seq(Piece)}
  <2>1. 0 \in S
    <3>1. b[0] \in Seq(Piece)
        BY <1>4, <1>12, Zenon
    <3>2. 0 \in 0 .. K
        BY <1>1
    <3>3. QED
        BY <3>1, <3>2
  <2>2. \A n \in 1 .. K : n - 1 \in S => n \in S
      BY <1>1, <1>2, <1>12
  <2> HIDE DEF S
  <2>3. \A n \in 0 .. K : n \in S
      BY <1>1, <2>1, <2>2, InductionUpTo
  <2>4. QED
      BY <2>3 DEF S
<1>14. QED
    BY <1>10, <1>12, <1>13

\* It depends on the frames it adds up, and on what is lost of them.
SameUpTo(f, lost, g, gone, k) ==
    \A n \in 1 .. k : /\ g[n] = f[n] /\ Bytes(g)[n - 1] = Bytes(f)[n - 1]
                      /\ Bytes(f)[n - 1] + 2 \in lost <=> Bytes(f)[n - 1] + 2 \in gone

LEMMA WholeKept ==
    ASSUME NEW f \in Seq(Nat), NEW g \in Seq(Nat), NEW k \in 0 .. Len(f), k <= Len(g),
           NEW lost, NEW gone, SameUpTo(f, lost, g, gone, k)
    PROVE  Whole(g, gone)[k] = Whole(f, lost)[k]
<1> DEFINE a == Whole(f, lost)
           b == Whole(g, gone)
<1>1. /\ Len(f) \in Nat /\ Len(g) \in Nat /\ k \in Nat
      /\ \A n \in 1 .. k : n \in 1 .. Len(f) /\ n \in 1 .. Len(g)
    BY LenProperties
<1>2. a[0] = << >> /\ b[0] = << >>
    BY WholeAre
<1>3. \A n \in 1 .. k : a[n] = Up(f, lost, n, a[n - 1]) /\ b[n] = Up(g, gone, n, b[n - 1])
    BY <1>1, WholeAre
<1> HIDE DEF a, b
<1>4. \A n \in 1 .. k : a[n - 1] = b[n - 1] => a[n] = b[n]
    BY <1>3 DEF Up, SameUpTo
<1>5. \A n \in 0 .. k : a[n] = b[n]
  <2>1. StepAlike(a, b, k)
      BY <1>2, <1>4 DEF StepAlike
  <2>2. QED
      BY <1>1, <2>1, SameSteps
<1>6. k \in 0 .. k
    BY <1>1
<1>7. QED
    BY <1>5, <1>6 DEF a, b

-----------------------------------------------------------------------------
(* The inductive invariant. *)

FrameData ==
    /\ frames \in Seq(Nat)
    /\ rd \in Nat /\ dataLen \in Nat
    /\ pollStep \in {"size", "header", "commit header", "data", "commit data",
                     "ignore", "commit ignored"}
FrameTypes == FrameData /\ outOfStep \in BOOLEAN

\* poll is at the frame after the first k, or is done with these.
Behind(k) == rd = Bytes(frames)[k]
InFrame(k) == k < Len(frames) /\ dataLen = frames[k + 1]
AtData(k) == InFrame(k) /\ rd = Bytes(frames)[k] + 2
PastData(k) == InFrame(k) /\ rd = Bytes(frames)[k + 1]
Position(k) ==
    /\ handedUp = Whole(frames, missed)[k]
    /\ \A at \in missed : at \in Nat /\ at < Bytes(frames)[k] + 2
    /\ pollStep = "size" => Behind(k) /\ committed = rd
    /\ pollStep = "header" => Behind(k) /\ k < Len(frames) /\ committed = rd
    /\ pollStep = "commit header" => AtData(k)
    /\ pollStep = "data" => AtData(k) /\ ~TooLong
    /\ pollStep = "commit data" => PastData(k) /\ ~TooLong /\ dataAt = Bytes(frames)[k] + 2
    /\ pollStep = "ignore" => AtData(k) /\ TooLong
    /\ pollStep = "commit ignored" => PastData(k) /\ TooLong

FrameInv == FrameTypes /\ (~outOfStep => \E k \in 0 .. Len(frames) : Position(k))

-----------------------------------------------------------------------------
(* The invariant is inductive. *)

\* The frame after the first k.
LEMMA FrameAfter ==
    ASSUME FrameTypes, NEW k \in 0 .. Len(frames)
    PROVE  /\ Len(frames) \in Nat /\ Bytes(frames)[k] \in Nat
           /\ k < Len(frames) =>
                 /\ k + 1 \in 0 .. Len(frames) /\ frames[k + 1] \in Nat
                 /\ Bytes(frames)[k + 1] \in Nat
                 /\ (k + 1) - 1 = k /\ k + 1 \in 1 .. Len(frames)
                 /\ Bytes(frames)[k + 1] = (Bytes(frames)[k] + 2) + frames[k + 1]
                 /\ Bytes(frames)[k] + 2 \in Nat
                 /\ Bytes(frames)[k] + 2 < Bytes(frames)[k + 1] + 2
                 /\ Whole(frames, missed)[k + 1]
                       = Up(frames, missed, k + 1, Whole(frames, missed)[k])
<1>1. frames \in Seq(Nat) /\ Len(frames) \in Nat
    BY LenProperties DEF FrameTypes, FrameData
<1>2. Bytes(frames)[k] \in Nat
    BY <1>1, BytesAre
<1>3. ASSUME k < Len(frames)
      PROVE  /\ k + 1 \in 0 .. Len(frames) /\ frames[k + 1] \in Nat
             /\ Bytes(frames)[k + 1] \in Nat
             /\ (k + 1) - 1 = k /\ k + 1 \in 1 .. Len(frames)
             /\ Bytes(frames)[k + 1] = (Bytes(frames)[k] + 2) + frames[k + 1]
             /\ Bytes(frames)[k] + 2 \in Nat
             /\ Bytes(frames)[k] + 2 < Bytes(frames)[k + 1] + 2
             /\ Whole(frames, missed)[k + 1]
                   = Up(frames, missed, k + 1, Whole(frames, missed)[k])
  <2>1. k + 1 \in 1 .. Len(frames) /\ k + 1 \in 0 .. Len(frames) /\ (k + 1) - 1 = k
      BY <1>1, <1>3
  <2>2. frames[k + 1] \in Nat
      BY <1>1, <2>1, ElementOfSeq
  <2>3. /\ Bytes(frames)[k + 1] \in Nat
        /\ Bytes(frames)[k + 1] = Bytes(frames)[(k + 1) - 1] + frames[k + 1] + 2
      BY <1>1, <2>1, BytesAre
  <2>4. Whole(frames, missed)[k + 1]
            = Up(frames, missed, k + 1, Whole(frames, missed)[(k + 1) - 1])
      BY <1>1, <2>1, WholeAre
  <2>5. \A x, y \in Nat : /\ (x + 2) + y = x + y + 2 /\ x + 2 \in Nat
                           /\ x + 2 < x + y + 2 + 2
      OBVIOUS
  <2>6. QED
      BY <1>2, <2>1, <2>2, <2>3, <2>4, <2>5
<1>4. QED
    BY <1>1, <1>2, <1>3

\* The length at the start of a frame is that of the frame.
LEMMA LengthThere ==
    ASSUME FrameTypes, NEW k \in 0 .. Len(frames), k < Len(frames)
    PROVE  LengthsAt(Bytes(frames)[k]) = {frames[k + 1]}
<1> DEFINE b == Bytes(frames)
           here == {i \in DOMAIN frames : FrameStart(i) = b[k]}
<1>1. /\ frames \in Seq(Nat) /\ Len(frames) \in Nat
      /\ DOMAIN frames = 1 .. Len(frames)
      /\ \A i \in 0 .. Len(frames) : b[i] \in Nat
    BY LenProperties, BytesAre DEF FrameTypes, FrameData
<1>2. \A i \in 0 .. Len(frames) : /\ k < i => b[k] + 2 <= b[i]
                                  /\ i < k => b[i] + 2 <= b[k]
    BY <1>1, BytesGrow
<1>3. \A i \in DOMAIN frames : FrameStart(i) = b[i - 1]
    BY DEF FrameStart
<1> HIDE DEF b
<1>4. \A i \in DOMAIN frames : FrameStart(i) = b[k] <=> i = k + 1
  <2> SUFFICES ASSUME NEW i \in DOMAIN frames
               PROVE  b[i - 1] = b[k] <=> i = k + 1
      BY <1>3
  <2>1. i - 1 \in 0 .. Len(frames) /\ b[k] \in Nat
      BY <1>1
  <2>2. b[i - 1] \in Nat
      BY <1>1, <2>1
  <2>3. k < i - 1 => b[k] # b[i - 1]
      BY <1>2, <2>1, <2>2
  <2>4. i - 1 < k => b[k] # b[i - 1]
      BY <1>2, <2>1, <2>2
  <2>5. k < i - 1 \/ i - 1 < k \/ i = k + 1
      BY <1>1, <2>1
  <2>6. i = k + 1 => i - 1 = k
      BY <1>1
  <2>7. QED
      BY <1>1, <2>3, <2>4, <2>5, <2>6
<1>5. k + 1 \in DOMAIN frames
    BY <1>1
<1>6. here = {k + 1}
    BY <1>4, <1>5
<1>7. LengthsAt(b[k]) = {frames[i] : i \in here}
    BY <1>6 DEF LengthsAt
<1>8. QED
    BY <1>6, <1>7 DEF b

\* The next frames do not disturb it.
LEMMA ArriveStep ==
    ASSUME FrameInv, Arrive
    PROVE  FrameInv'
<1>1. /\ frames \in Seq(Nat) /\ Len(frames) \in Nat
      /\ UNCHANGED <<rd, committed, pollStep, len, dataLen, dataAt, handedUp, missed, outOfStep>>
    BY LenProperties DEF FrameInv, FrameTypes, FrameData, Arrive
<1>2. PICK x \in Nat : frames' = Append(frames, x)
    BY FramesAssumption DEF Arrive
<1>3. /\ frames' \in Seq(Nat) /\ Len(frames') = Len(frames) + 1
      /\ \A i \in 1 .. Len(frames) : frames'[i] = frames[i]
    BY <1>1, <1>2, AppendProperties
<1>4. \A n \in 0 .. Len(frames) : Bytes(frames')[n] = Bytes(frames)[n]
    BY <1>1, <1>2, BytesKept
<1>5. FrameTypes'
    BY <1>1, <1>3 DEF FrameInv, FrameTypes, FrameData
<1>6. ASSUME ~outOfStep PROVE \E k \in 0 .. Len(frames') : Position(k)'
  <2>1. PICK k \in 0 .. Len(frames) : Position(k)
      BY <1>6 DEF FrameInv
  <2>2. /\ k \in 0 .. Len(frames') /\ k <= Len(frames')
        /\ \A n \in 1 .. k : n \in 1 .. Len(frames) /\ n - 1 \in 0 .. Len(frames)
      BY <1>1, <1>3
  <2>3. \A n \in 1 .. k : /\ frames'[n] = frames[n]
                          /\ Bytes(frames')[n - 1] = Bytes(frames)[n - 1]
      BY <1>3, <1>4, <2>2
  <2>4. Whole(frames', missed)[k] = Whole(frames, missed)[k]
    <3>1. frames \in Seq(Nat) /\ frames' \in Seq(Nat)
        BY <1>1, <1>3
    <3>2. SameUpTo(frames, missed, frames', missed, k)
        BY <2>3 DEF SameUpTo
    <3>3. QED
        BY <2>2, <3>1, <3>2, WholeKept
  <2>5. Bytes(frames')[k] = Bytes(frames)[k]
      BY <1>4
  <2>6. k < Len(frames) => /\ k < Len(frames')
                           /\ frames'[k + 1] = frames[k + 1]
                           /\ Bytes(frames')[k + 1] = Bytes(frames)[k + 1]
    <3>1. k < Len(frames) => k + 1 \in 1 .. Len(frames) /\ k + 1 \in 0 .. Len(frames)
        BY <1>1
    <3>2. QED
        BY <1>1, <1>3, <1>4, <3>1
  <2>7. /\ Behind(k) => Behind(k)'
        /\ AtData(k) => AtData(k)'
        /\ PastData(k) => PastData(k)'
        /\ TooLong' <=> TooLong
      BY <1>1, <2>5, <2>6 DEF Behind, InFrame, AtData, PastData, TooLong
  <2>8. Position(k)'
      BY <1>1, <2>1, <2>4, <2>5, <2>6, <2>7 DEF Position
  <2>9. QED
      BY <2>2, <2>8
<1>7. QED
    BY <1>1, <1>5, <1>6 DEF FrameInv

\* Which failures put poll out of step.
LEMMA Blamed ==
    ASSUME outOfStep \in BOOLEAN, NEW P \in BOOLEAN, outOfStep' = (outOfStep \/ P)
    PROVE  outOfStep' \in BOOLEAN /\ (outOfStep => outOfStep') /\ (P => outOfStep')
OBVIOUS

LEMMA FailureBlamed ==
    ASSUME FrameTypes
    PROVE  /\ ReadSizeFails \/ ReadHeaderFails \/ CommitFails =>
                 outOfStep' \in BOOLEAN /\ (outOfStep => outOfStep')
           /\ ReadSizeFails => (rd = EndOfData => outOfStep')
           /\ ReadHeaderFails => (rd' # rd => outOfStep')
           /\ CommitFails =>
                 (committed' # rd \/ pollStep = "commit header" => outOfStep')
<1>1. outOfStep \in BOOLEAN
    BY DEF FrameTypes, FrameData
<1>2. ReadSizeFails => outOfStep' = (outOfStep \/ (rd = EndOfData))
    BY DEF ReadSizeFails
<1>3. ReadHeaderFails => outOfStep' = (outOfStep \/ (rd' # rd))
    BY DEF ReadHeaderFails
<1>4. CommitFails =>
          outOfStep' = (outOfStep \/ (committed' # rd \/ pollStep = "commit header"))
    BY Zenon DEF CommitFails
<1>5. /\ (rd = EndOfData) \in BOOLEAN /\ (rd' # rd) \in BOOLEAN
      /\ (committed' # rd \/ pollStep = "commit header") \in BOOLEAN
    OBVIOUS
<1>6. QED
    BY <1>1, <1>2, <1>3, <1>4, <1>5, Blamed, Zenon

\* The steps of poll keep the types.
LEMMA PollTypes ==
    ASSUME FrameTypes, FrameNext, UNCHANGED frames
    PROVE  FrameTypes' /\ (outOfStep => outOfStep')
<1>1. FrameData
    BY DEF FrameTypes
<1>2. outOfStep \in BOOLEAN
    BY DEF FrameTypes
<1>3. \A pos : LengthsAt(pos) \subseteq Nat
  <2>1. \A i \in DOMAIN frames : frames[i] \in Nat
      BY <1>1, LenProperties, ElementOfSeq DEF FrameData
  <2>2. QED
      BY <2>1, FramesAssumption DEF LengthsAt
<1>4. ASSUME Arrive \/ ReadSize \/ CommitHeader \/ CommitData \/ CommitIgnored
             \/ ReadHeader \/ ReadData \/ Ignore
      PROVE  outOfStep' = outOfStep
    BY <1>4, Zenon DEF Arrive, ReadSize, CommitHeader, CommitData, CommitIgnored,
                       ReadHeader, ReadData, Ignore
<1>5. outOfStep' \in BOOLEAN /\ (outOfStep => outOfStep')
  <2>1. CASE ReadSizeFails \/ ReadHeaderFails \/ CommitFails
      BY <2>1, FailureBlamed, Zenon
  <2>2. CASE MoveFails
      BY <2>2, Zenon DEF MoveFails
  <2>3. QED
      BY <1>2, <1>4, <2>1, <2>2, Zenon DEF FrameNext
<1>6. FrameData'
  <2>1. rd \in Nat /\ dataLen \in Nat
      BY <1>1 DEF FrameData
  <2>2. rd + 2 \in Nat /\ rd + dataLen \in Nat
      BY <2>1
  <2>3. rd' \in {rd, rd + 2, rd + dataLen}
    <3>1. CASE Arrive \/ ReadSize \/ CommitHeader \/ CommitData \/ CommitIgnored
        BY <3>1, Zenon DEF Arrive, ReadSize, CommitHeader, CommitData, CommitIgnored
    <3>2. CASE ReadHeader \/ ReadData \/ Ignore
        BY <3>2, Zenon DEF ReadHeader, ReadData, Ignore
    <3>3. CASE ReadSizeFails \/ ReadHeaderFails \/ MoveFails \/ CommitFails
        BY <3>3, Zenon DEF ReadSizeFails, ReadHeaderFails, MoveFails, CommitFails
    <3>4. QED
        BY <3>1, <3>2, <3>3, Zenon DEF FrameNext
  <2>4. rd' \in Nat
      BY <2>1, <2>2, <2>3, Zenon
  <2>5. dataLen' \in Nat
    <3>1. CASE ReadHeader
        BY <1>3, <3>1, Zenon DEF ReadHeader
    <3>2. CASE ~ReadHeader
      <4>1. dataLen' = dataLen
          BY <3>2, Zenon DEF FrameNext, Arrive, ReadSize, CommitHeader, CommitData,
             CommitIgnored, ReadData, Ignore, ReadSizeFails, ReadHeaderFails, MoveFails,
             CommitFails
      <4>2. QED
          BY <2>1, <4>1, Zenon
    <3>3. QED
        BY <3>1, <3>2, Zenon
  <2>6. pollStep' \in {"size", "header", "commit header", "data", "commit data",
                       "ignore", "commit ignored"}
    <3>1. CASE Arrive
        BY <1>1, <3>1, Zenon DEF FrameData, Arrive
    <3>2. CASE ReadSize \/ ReadSizeFails \/ ReadHeader \/ ReadHeaderFails \/ MoveFails
               \/ CommitFails
        BY <3>2, Zenon DEF ReadSize, ReadSizeFails, ReadHeader, ReadHeaderFails, MoveFails,
                           CommitFails
    <3>3. CASE CommitHeader \/ ReadData \/ CommitData \/ Ignore \/ CommitIgnored
        BY <3>3, Zenon DEF CommitHeader, ReadData, CommitData, Ignore, CommitIgnored
    <3>4. QED
        BY <3>1, <3>2, <3>3, Zenon DEF FrameNext
  <2>7. frames' \in Seq(Nat)
      BY <1>1, Zenon DEF FrameData
  <2>8. QED
      BY <2>4, <2>5, <2>6, <2>7, Zenon DEF FrameData
<1>7. QED
    BY <1>5, <1>6, Zenon DEF FrameTypes

\* What was read before does not depend on the frame that is read.
LEMMA MissedLater ==
    ASSUME FrameTypes, NEW k \in 0 .. Len(frames),
           NEW gone, \A at \in missed : at \in gone,
           \A at \in gone : at \notin missed => at = Bytes(frames)[k] + 2
    PROVE  Whole(frames, gone)[k] = Whole(frames, missed)[k]
<1>1. frames \in Seq(Nat) /\ Len(frames) \in Nat
    BY LenProperties DEF FrameTypes, FrameData
<1>2. ASSUME NEW n \in 1 .. k
      PROVE  Bytes(frames)[n - 1] + 2 # Bytes(frames)[k] + 2
  <2>1. n - 1 \in 0 .. Len(frames) /\ n - 1 < k
      BY <1>1
  <2>2. Bytes(frames)[n - 1] \in Nat /\ Bytes(frames)[k] \in Nat
      BY <1>1, <2>1, BytesAre
  <2>3. Bytes(frames)[n - 1] + 2 <= Bytes(frames)[k]
      BY <1>1, <2>1, BytesGrow
  <2>4. QED
      BY <2>2, <2>3
<1>3. \A n \in 1 .. k : Bytes(frames)[n - 1] + 2 \in missed
                            <=> Bytes(frames)[n - 1] + 2 \in gone
    BY <1>2
<1>4. k <= Len(frames)
    BY <1>1
<1>5. SameUpTo(frames, missed, frames, gone, k)
    BY <1>3 DEF SameUpTo
<1>6. QED
    BY <1>1, <1>4, <1>5, WholeKept

LEMMA PollStep ==
    ASSUME FrameInv, FrameNext, UNCHANGED frames
    PROVE  FrameInv'
<1>1. FrameTypes /\ FrameTypes' /\ (outOfStep => outOfStep')
    BY PollTypes DEF FrameInv
<1>2. SUFFICES ASSUME ~outOfStep' PROVE \E k \in 0 .. Len(frames) : Position(k)'
    BY <1>1 DEF FrameInv
<1>0. \A x \in Nat : x > Capacity <=> ~(x <= Capacity)
    BY FramesAssumption
<1>3. PICK k \in 0 .. Len(frames) : Position(k)
    BY <1>1, <1>2 DEF FrameInv
<1> DEFINE b == Bytes(frames)
           w == Whole(frames, missed)
<1>4. /\ Len(frames) \in Nat /\ b[k] \in Nat
      /\ k < Len(frames) => /\ k + 1 \in 0 .. Len(frames) /\ frames[k + 1] \in Nat
                            /\ b[k + 1] \in Nat
                            /\ (k + 1) - 1 = k /\ k + 1 \in 1 .. Len(frames)
                            /\ b[k + 1] = (b[k] + 2) + frames[k + 1]
                            /\ b[k] + 2 \in Nat /\ b[k] + 2 < b[k + 1] + 2
                            /\ w[k + 1] = Up(frames, missed, k + 1, w[k])
    BY <1>1, FrameAfter
<1>5. /\ handedUp = w[k]
      /\ \A at \in missed : at \in Nat /\ at < b[k] + 2
    BY <1>3 DEF Position
<1> DEFINE NextFrame ==
               /\ handedUp' = Whole(frames, missed')[k + 1]
               /\ \A at \in missed' : at \in Nat /\ at < b[k + 1] + 2
               /\ pollStep' = "size" /\ rd' = b[k + 1] /\ committed' = rd'
<1>6. ASSUME NextFrame, k < Len(frames) PROVE \E n \in 0 .. Len(frames) : Position(n)'
  <2>1. Position(k + 1)'
      BY <1>6 DEF Position, Behind
  <2>2. QED
      BY <1>4, <1>6, <2>1
<1>7. \A at : at \in Nat /\ at < b[k] + 2 /\ k < Len(frames) => at < b[k + 1] + 2
  <2>1. \A x, y, z \in Nat : z < x + 2 /\ x + 2 < y + 2 => z < y + 2
      OBVIOUS
  <2> HIDE DEF b, w
  <2>2. QED
      BY <1>4, <2>1
<1>8. CASE ReadSize
  <2>1. rd = b[k] /\ committed = rd /\ EndOfData > committed
      BY <1>3, <1>8 DEF ReadSize, Position, Behind
  <2>2. k < Len(frames)
      BY <1>4, <2>1 DEF EndOfData
  <2>3. Position(k)'
      BY <1>5, <1>8, <2>1, <2>2 DEF ReadSize, Position, Behind
  <2>4. QED
      BY <2>3
<1>9. CASE ReadSizeFails
  <2>1. rd = b[k] /\ rd # EndOfData
      BY <1>1, <1>2, <1>3, <1>9, FailureBlamed DEF ReadSizeFails, Position, Behind
  <2>2. k < Len(frames)
      BY <1>4, <2>1 DEF EndOfData
  <2>3. /\ pollStep = "size" /\ pollStep' = "header"
        /\ UNCHANGED <<frames, rd, committed, handedUp, missed>>
      BY <1>9, Zenon DEF ReadSizeFails
  <2>4. Position(k)'
      BY <1>3, <1>5, <2>1, <2>2, <2>3 DEF Position, Behind
  <2>5. QED
      BY <2>4
<1>10. CASE ReadHeader
  <2>1. rd = b[k] /\ k < Len(frames)
      BY <1>3, <1>10 DEF ReadHeader, Position, Behind
  <2>2. LengthsAt(rd) = {frames[k + 1]}
      BY <1>1, <2>1, LengthThere
  <2>3. /\ dataLen' = frames[k + 1] /\ rd' = b[k] + 2 /\ pollStep' = "commit header"
        /\ UNCHANGED <<frames, handedUp, missed>>
      BY <1>10, <2>1, <2>2 DEF ReadHeader
  <2>4. Position(k)'
      BY <1>5, <2>1, <2>3 DEF Position, AtData, InFrame
  <2>5. QED
      BY <2>4
<1>11. CASE ReadHeaderFails
  <2>1. rd' = rd /\ pollStep' = "size" /\ UNCHANGED <<committed, handedUp, missed>>
    <3>1. rd' = rd
        BY <1>1, <1>2, <1>11, FailureBlamed
    <3>2. pollStep' = "size" /\ UNCHANGED <<committed, handedUp, missed>>
        BY <1>11 DEF ReadHeaderFails
    <3>3. QED
        BY <3>1, <3>2
  <2>2. rd = b[k] /\ committed = rd
    <3>1. pollStep = "header"
        BY <1>11 DEF ReadHeaderFails
    <3>2. QED
        BY <1>3, <3>1 DEF Position, Behind
  <2>3. Position(k)'
      BY <1>5, <2>1, <2>2 DEF Position, Behind
  <2>4. QED
      BY <2>3
<1>12. CASE CommitHeader
  <2>1. AtData(k) /\ UNCHANGED <<rd, dataLen, handedUp, missed>>
      BY <1>3, <1>12 DEF CommitHeader, Position
  <2>2. pollStep' = IF TooLong THEN "ignore" ELSE "data"
      BY <1>12 DEF CommitHeader
  <2>3. Position(k)'
      BY <1>5, <2>1, <2>2 DEF Position, AtData, InFrame, TooLong
  <2>4. QED
      BY <2>3
<1>13. CASE ReadData
  <2>1. AtData(k) /\ ~TooLong /\ UNCHANGED <<dataLen, handedUp, missed>>
      BY <1>3, <1>13 DEF ReadData, Position
  <2>2. rd' = b[k + 1] /\ dataAt' = b[k] + 2 /\ pollStep' = "commit data"
      BY <1>4, <1>13, <2>1 DEF ReadData, AtData, InFrame
  <2>3. Position(k)'
      BY <1>5, <2>1, <2>2 DEF Position, AtData, PastData, InFrame, TooLong
  <2>4. QED
      BY <2>3
<1>14. CASE Ignore
  <2>1. AtData(k) /\ TooLong /\ UNCHANGED <<dataLen, handedUp, missed>>
      BY <1>3, <1>14 DEF Ignore, Position
  <2>2. rd' = b[k + 1] /\ pollStep' = "commit ignored"
      BY <1>4, <1>14, <2>1 DEF Ignore, AtData, InFrame
  <2>3. Position(k)'
      BY <1>5, <2>1, <2>2 DEF Position, AtData, PastData, InFrame, TooLong
  <2>4. QED
      BY <2>3
<1>15. CASE CommitData
  <2>1. /\ k < Len(frames) /\ dataLen = frames[k + 1] /\ rd = b[k + 1]
        /\ ~(dataLen > Capacity) /\ dataAt = b[k] + 2
      BY <1>3, <1>15 DEF CommitData, Position, PastData, InFrame, TooLong
  <2>2. dataLen <= Capacity
      BY <1>4, <2>1, FramesAssumption
  <2>3. dataAt \notin missed
      BY <1>4, <1>5, <2>1
  <2>4. w[k + 1] = Append(w[k], [at |-> dataAt, len |-> dataLen])
    <3>1. (k + 1) - 1 = k
        BY <1>4
    <3>2. QED
        BY <1>4, <2>1, <2>2, <2>3, <3>1 DEF Up
  <2>5. /\ handedUp' = w[k + 1] /\ missed' = missed /\ pollStep' = "size"
        /\ rd' = rd /\ committed' = rd
      BY <1>5, <1>15, <2>4 DEF CommitData
  <2>6. NextFrame
      BY <1>5, <1>7, <2>1, <2>5
  <2>7. QED
      BY <1>6, <2>1, <2>6
<1>16. CASE CommitIgnored
  <2>1. /\ k < Len(frames) /\ dataLen = frames[k + 1] /\ rd = b[k + 1]
        /\ dataLen > Capacity
      BY <1>3, <1>16 DEF CommitIgnored, Position, PastData, InFrame, TooLong
  <2>2. w[k + 1] = w[k]
    <3>1. ~(frames[k + 1] <= Capacity)
        BY <1>4, <2>1, FramesAssumption
    <3>2. QED
        BY <1>4, <2>1, <3>1 DEF Up
  <2>3. /\ handedUp' = w[k + 1] /\ missed' = missed /\ pollStep' = "size"
        /\ rd' = rd /\ committed' = rd
      BY <1>5, <1>16, <2>2 DEF CommitIgnored
  <2>4. NextFrame
      BY <1>5, <1>7, <2>1, <2>3
  <2>5. QED
      BY <1>6, <2>1, <2>4
<1>17. CASE MoveFails
    BY <1>2, <1>17 DEF MoveFails
<1>18. CASE CommitFails
  <2>1. /\ pollStep \in {"commit data", "commit ignored"}
        /\ committed' = rd /\ rd' = rd /\ pollStep' = "size" /\ handedUp' = handedUp
        /\ missed' = IF pollStep = "commit data" THEN missed \cup {dataAt} ELSE missed
    <3>1. committed' = rd /\ pollStep # "commit header"
        BY <1>1, <1>2, <1>18, FailureBlamed
    <3>2. QED
        BY <1>18, <3>1 DEF CommitFails
  <2>2. /\ k < Len(frames) /\ dataLen = frames[k + 1] /\ rd = b[k + 1]
        /\ pollStep = "commit data" => dataAt = b[k] + 2
        /\ pollStep = "commit ignored" => dataLen > Capacity
      BY <1>3, <2>1 DEF Position, PastData, InFrame, TooLong
  <2>3. Whole(frames, missed')[k] = w[k]
    <3>1. \A at \in missed' : at \notin missed => at = b[k] + 2
        BY <2>1, <2>2
    <3>2. \A at \in missed : at \in missed'
        BY <2>1
    <3>3. QED
        BY <1>1, <3>1, <3>2, MissedLater
  <2>4. Whole(frames, missed')[k + 1] = Whole(frames, missed')[k]
    <3>1. k + 1 \in 1 .. Len(frames) /\ (k + 1) - 1 = k /\ frames \in Seq(Nat)
        BY <1>1, <1>4, <2>2 DEF FrameTypes, FrameData
    <3>2. Whole(frames, missed')[k + 1]
              = Up(frames, missed', k + 1, Whole(frames, missed')[(k + 1) - 1])
        BY <3>1, WholeAre
    <3>3. frames[k + 1] > Capacity \/ b[k] + 2 \in missed'
        BY <2>1, <2>2
    <3>4. frames[k + 1] > Capacity => ~(frames[k + 1] <= Capacity)
        BY <1>0, <1>4, <2>2
    <3>5. QED
        BY <3>1, <3>2, <3>3, <3>4 DEF Up
  <2>5. \A at \in missed' : at \in Nat /\ at < b[k + 1] + 2
    <3>1. b[k] + 2 \in Nat /\ b[k] + 2 < b[k + 1] + 2
        BY <1>4, <2>2
    <3>2. QED
        BY <1>5, <1>7, <2>1, <2>2, <3>1
  <2>6. NextFrame
      BY <1>5, <2>1, <2>2, <2>3, <2>4, <2>5
  <2>7. QED
      BY <1>6, <2>2, <2>6
<1>19. CASE Arrive
  <2>1. FALSE
    <3>1. PICK x \in Nat : frames' = Append(frames, x)
        BY <1>19, FramesAssumption DEF Arrive
    <3>2. frames \in Seq(Nat) /\ Len(frames) \in Nat
        BY <1>1, LenProperties DEF FrameTypes, FrameData
    <3>3. Len(frames') = Len(frames) + 1
        BY <3>1, <3>2, AppendProperties
    <3>4. QED
        BY <1>4, <3>2, <3>3
  <2>2. QED
      BY <2>1
<1>20. QED
    BY <1>8, <1>9, <1>10, <1>11, <1>12, <1>13, <1>14, <1>15, <1>16, <1>17, <1>18, <1>19
       DEF FrameNext

\* With frames of any sizes and a packet of any capacity, between two polls the
\* read pointer stands at the start of a frame, and the frames before it were
\* handed up whole and in order (Wiznet::poll), unless one was left half read.
THEOREM FramesStayInStep == FrameSpec => []FramesInStep
<1>1. FrameInit => FrameInv
  <2> SUFFICES ASSUME FrameInit PROVE FrameInv
      OBVIOUS
  <2>1. frames = << >> /\ frames \in Seq(Nat) /\ Len(frames) = 0 /\ 0 \in 0 .. Len(frames)
      BY DEF FrameInit
  <2>2. FrameTypes
      BY <2>1 DEF FrameInit, FrameTypes, FrameData
  <2>3. Bytes(frames)[0] = 0 /\ Whole(frames, missed)[0] = << >>
      BY <2>1, BytesAre, WholeAre
  <2>4. Position(0)
      BY <2>3 DEF FrameInit, Position, Behind
  <2>5. QED
      BY <2>1, <2>2, <2>4 DEF FrameInv
<1>2. ASSUME FrameInv, [FrameNext]_frameVars PROVE FrameInv'
  <2>1. CASE Arrive
      BY <1>2, <2>1, ArriveStep
  <2>2. CASE FrameNext /\ ~Arrive
    <3>1. UNCHANGED frames
        BY <2>2 DEF FrameNext, ReadSize, ReadSizeFails, ReadHeader, ReadHeaderFails,
                    CommitHeader, ReadData, CommitData, Ignore, CommitIgnored,
                    MoveFails, CommitFails
    <3>2. QED
        BY <1>2, <2>2, <3>1, PollStep
  <2>3. CASE UNCHANGED frameVars
      BY <1>2, <2>3 DEF frameVars, FrameInv, FrameTypes, FrameData, Position, Behind, InFrame,
                        AtData, PastData, TooLong
  <2>4. QED
      BY <1>2, <2>1, <2>2, <2>3
<1>3. FrameInv => FramesInStep
    BY DEF FrameInv, Position, Behind, FramesInStep
<1>4. QED
    BY <1>1, <1>2, <1>3, PTL DEF FrameSpec

-----------------------------------------------------------------------------
(***************************************************************************)
(* The ports of UDP.                                                       *)
(***************************************************************************)

Slots(V) == [used : BOOLEAN, val : V]
Maps(Keys, V) == [Keys -> [1 .. MapRoom -> Slots(V)]]

PortTypes ==
    /\ port_bindings \in Maps(Ports, Layers \cup {Junk})
    /\ layer_bindings \in Maps(Layers, Ports \cup {0})
    /\ addr \in [Layers -> Ports \cup {0}]

PortInv == PortTypes /\ BindingsPaired

-----------------------------------------------------------------------------
(* The maps. *)

\* A bucket that has such a slot has a first one.
LEMMA FirstSlotFound ==
    ASSUME NEW V, NEW bucket \in [1 .. MapRoom -> Slots(V)], NEW u,
           HasSlot(bucket, u)
    PROVE  FirstSlot(bucket, u) \in 1 .. MapRoom /\ bucket[FirstSlot(bucket, u)].used = u
<1> DEFINE T == {i \in 1 .. MapRoom : bucket[i].used = u}
<1>1. T # {} /\ T \subseteq Nat
    BY DEF HasSlot
<1>2. PICK i \in T : \A j \in T : <<j, i>> \notin OpToRel(<, Nat)
    BY <1>1, NatLessThanWellFounded, WFMin, Zenon
<1>3. \A j \in T : ~(j < i)
    BY <1>1, <1>2 DEF OpToRel
<1>4. i \in DOMAIN bucket /\ bucket[i].used = u
    BY <1>2
<1>5. \A j \in 1 .. i - 1 : bucket[j].used # u
  <2> SUFFICES ASSUME NEW j \in 1 .. i - 1, bucket[j].used = u PROVE FALSE
      OBVIOUS
  <2>1. j \in T /\ j < i
      BY <1>4, PortsAssumption
  <2>2. QED
      BY <1>3, <2>1
<1>6. QED
    BY <1>4, <1>5 DEF FirstSlot

\* Only the slot i of k differs between two maps.
OnlySlot(m, n, k, i) ==
    \A l \in DOMAIN m, j \in 1 .. MapRoom : l # k \/ j # i => n[l][j] = m[l][j]

LEMMA AddedAndStored ==
    ASSUME NEW Keys, NEW V, NEW m \in Maps(Keys, V), NEW k \in Keys, NEW v \in V,
           AddSlot(m, k) # 0
    PROVE  LET i == AddSlot(m, k)
               n == Store(Added(m, k), k, i, v)
           IN  /\ i \in 1 .. MapRoom /\ ~m[k][i].used
               /\ n \in Maps(Keys, V) /\ OnlySlot(m, n, k, i)
               /\ n[k][i].used /\ n[k][i].val = v
<1> DEFINE i == AddSlot(m, k)
           b == m[k]
           t == [b[i] EXCEPT !.used = TRUE]
           a == [m EXCEPT ![k] = [b EXCEPT ![i] = t]]
           n == Store(Added(m, k), k, i, v)
<1>1. b \in [1 .. MapRoom -> Slots(V)]
    BY DEF Maps
<1>2. i \in 1 .. MapRoom /\ b[i].used = FALSE
  <2>1. HasSlot(b, FALSE) /\ i = FirstSlot(b, FALSE)
      BY DEF AddSlot
  <2>2. QED
      BY <1>1, <2>1, FirstSlotFound
<1>3. Added(m, k) = a
    BY DEF Added
<1> HIDE DEF i
<1>4. t \in Slots(V) /\ t.used = TRUE
    BY <1>1, <1>2 DEF Slots
<1> HIDE DEF t
<1>5. a \in Maps(Keys, V) /\ a[k] = [b EXCEPT ![i] = t]
    BY <1>1, <1>2, <1>4 DEF Maps
<1>6. a[k] \in [1 .. MapRoom -> Slots(V)] /\ a[k][i] = t
    BY <1>1, <1>2, <1>4, <1>5
<1>7. \A l \in Keys, j \in 1 .. MapRoom : l # k \/ j # i => a[l][j] = m[l][j]
    BY <1>1, <1>5 DEF Maps
<1> HIDE DEF a
<1> DEFINE r == [t EXCEPT !.val = v]
<1>8. r \in Slots(V) /\ r.used = TRUE /\ r.val = v
    BY <1>4 DEF Slots
<1>9. n = [a EXCEPT ![k] = [a[k] EXCEPT ![i] = r]]
    BY <1>3, <1>6 DEF Store
<1> HIDE DEF r, n
<1>10. n \in Maps(Keys, V) /\ n[k] = [a[k] EXCEPT ![i] = r]
    BY <1>5, <1>6, <1>8, <1>9 DEF Maps
<1>11. n[k][i] = r
    BY <1>2, <1>6, <1>10
<1>12. \A l \in Keys, j \in 1 .. MapRoom : l # k \/ j # i => n[l][j] = a[l][j]
    BY <1>5, <1>6, <1>9, <1>10 DEF Maps
<1>13. OnlySlot(m, n, k, i)
    BY <1>7, <1>12 DEF OnlySlot, Maps
<1>14. QED
    BY <1>2, <1>8, <1>10, <1>11, <1>13 DEF i, n

LEMMA AddedOnly ==
    ASSUME NEW Keys, NEW V, NEW m \in Maps(Keys, V), NEW k \in Keys,
           AddSlot(m, k) # 0
    PROVE  Added(m, k) \in Maps(Keys, V)
<1> DEFINE i == AddSlot(m, k)
           b == m[k]
           t == [b[i] EXCEPT !.used = TRUE]
<1>1. b \in [1 .. MapRoom -> Slots(V)]
    BY DEF Maps
<1>2. i \in 1 .. MapRoom
  <2>1. HasSlot(b, FALSE) /\ i = FirstSlot(b, FALSE)
      BY DEF AddSlot
  <2>2. QED
      BY <1>1, <2>1, FirstSlotFound
<1>3. Added(m, k) = [m EXCEPT ![k] = [b EXCEPT ![i] = t]]
    BY DEF Added
<1> HIDE DEF i
<1>4. t \in Slots(V)
    BY <1>1, <1>2 DEF Slots
<1> HIDE DEF t
<1>5. QED
    BY <1>1, <1>2, <1>3, <1>4 DEF Maps

LEMMA RemovedSlot ==
    ASSUME NEW Keys, NEW V, NEW m \in Maps(Keys, V), NEW k \in Keys,
           GetSlot(m, k) # 0
    PROVE  LET i == GetSlot(m, k)
               n == Removed(m, k)
           IN  /\ i \in 1 .. MapRoom /\ m[k][i].used
               /\ n \in Maps(Keys, V) /\ OnlySlot(m, n, k, i)
               /\ ~n[k][i].used
<1> DEFINE i == GetSlot(m, k)
           b == m[k]
           t == [b[i] EXCEPT !.used = FALSE]
           n == Removed(m, k)
<1>1. b \in [1 .. MapRoom -> Slots(V)]
    BY DEF Maps
<1>2. i \in 1 .. MapRoom /\ b[i].used = TRUE
  <2>1. HasSlot(b, TRUE) /\ i = FirstSlot(b, TRUE)
      BY DEF GetSlot
  <2>2. QED
      BY <1>1, <2>1, FirstSlotFound
<1>3. n = [m EXCEPT ![k] = [b EXCEPT ![i] = t]]
    BY DEF Removed
<1> HIDE DEF i, n
<1>4. t \in Slots(V) /\ t.used = FALSE
    BY <1>1, <1>2 DEF Slots
<1> HIDE DEF t
<1>5. n \in Maps(Keys, V) /\ n[k] = [b EXCEPT ![i] = t]
    BY <1>1, <1>2, <1>3, <1>4 DEF Maps
<1>6. n[k][i] = t
    BY <1>1, <1>2, <1>5
<1>7. OnlySlot(m, n, k, i)
    BY <1>1, <1>3, <1>5 DEF OnlySlot, Maps
<1>8. QED
    BY <1>2, <1>4, <1>5, <1>6, <1>7 DEF i, n

\* A key has a used slot as soon as it has one.
LEMMA GetSlotFound ==
    ASSUME NEW Keys, NEW V, NEW m \in Maps(Keys, V), NEW k \in Keys,
           UsedSlots(m, k) # {}
    PROVE  GetSlot(m, k) # 0
<1>1. m[k] \in [1 .. MapRoom -> Slots(V)]
    BY DEF Maps
<1>2. HasSlot(m[k], TRUE)
    BY <1>1 DEF UsedSlots, HasSlot, Slots
<1>3. FirstSlot(m[k], TRUE) \in 1 .. MapRoom
    BY <1>1, <1>2, FirstSlotFound
<1>4. GetSlot(m, k) = FirstSlot(m[k], TRUE)
    BY <1>2, Zenon DEF GetSlot
<1>5. 0 \notin 1 .. MapRoom
    BY PortsAssumption
<1>6. QED
    BY <1>3, <1>4, <1>5, Zenon

-----------------------------------------------------------------------------
(* The numbers of entries. *)

\* Both numbers are of finite sets.
LEMMA EntriesFinite ==
    ASSUME PortTypes, NEW s \in Layers
    PROVE  /\ IsFiniteSet(Leads(s)) /\ Cardinality(Leads(s)) \in Nat
           /\ IsFiniteSet(UsedSlots(layer_bindings, s))
           /\ Cardinality(UsedSlots(layer_bindings, s)) \in Nat
<1> DEFINE R == 1 .. MapRoom
<1>1. IsFiniteSet(R) /\ IsFiniteSet(Ports)
    BY PortsAssumption, FS_Interval
<1> HIDE DEF R
<1>2. IsFiniteSet(Ports \X R)
    BY <1>1, FS_Product
<1>3. Leads(s) \subseteq Ports \X R
    BY DEF Leads, R
<1>4. UsedSlots(layer_bindings, s) \subseteq R
    BY DEF UsedSlots, PortTypes, Maps, R
<1>5. IsFiniteSet(Leads(s)) /\ IsFiniteSet(UsedSlots(layer_bindings, s))
    BY <1>1, <1>2, <1>3, <1>4, FS_Subset
<1>6. QED
    BY <1>5, FS_CardinalityType

\* A bind that succeeds adds an entry to both maps.
LEMMA BindPairs ==
    ASSUME PortTypes, PortTypes', NEW s \in Layers, NEW p \in Ports,
           NEW i \in 1 .. MapRoom, NEW j \in 1 .. MapRoom,
           ~port_bindings[p][i].used, ~layer_bindings[s][j].used,
           OnlySlot(port_bindings, port_bindings', p, i),
           OnlySlot(layer_bindings, layer_bindings', s, j),
           port_bindings'[p][i].used, port_bindings'[p][i].val = s,
           layer_bindings'[s][j].used,
           NEW u \in Layers,
           Cardinality(Leads(u)) = Cardinality(UsedSlots(layer_bindings, u))
    PROVE  Cardinality(Leads(u)') = Cardinality(UsedSlots(layer_bindings', u))
<1>1. DOMAIN port_bindings = Ports /\ DOMAIN layer_bindings = Layers
    BY DEF PortTypes, Maps
<1>2. DOMAIN layer_bindings[u] = 1 .. MapRoom /\ DOMAIN layer_bindings'[u] = 1 .. MapRoom
    BY DEF PortTypes, Maps
<1>3. CASE u = s
  <2>1. Leads(u)' = Leads(u) \cup {<<p, i>>}
    <3>1. ASSUME NEW e \in Ports \X (1 .. MapRoom)
          PROVE  e \in Leads(u)' <=> e \in Leads(u) \/ e = <<p, i>>
      <4>1. CASE e = <<p, i>>
          BY <1>3, <4>1 DEF Leads
      <4>2. CASE e # <<p, i>>
        <5>1. e[1] \in Ports /\ e[2] \in 1 .. MapRoom /\ (e[1] # p \/ e[2] # i)
            BY <4>2
        <5>2. port_bindings'[e[1]][e[2]] = port_bindings[e[1]][e[2]]
            BY <1>1, <5>1 DEF OnlySlot
        <5>3. QED
            BY <4>2, <5>2 DEF Leads
      <4>3. QED
          BY <4>1, <4>2
    <3>2. Leads(u)' \subseteq Ports \X (1 .. MapRoom) /\ Leads(u) \subseteq Ports \X (1 .. MapRoom)
        BY DEF Leads
    <3>3. <<p, i>> \in Ports \X (1 .. MapRoom)
        OBVIOUS
    <3>4. QED
        BY <3>1, <3>2, <3>3
  <2>2. <<p, i>> \notin Leads(u)
      BY DEF Leads
  <2>3. UsedSlots(layer_bindings', u) = UsedSlots(layer_bindings, u) \cup {j}
    <3>1. \A l \in 1 .. MapRoom :
              l # j => layer_bindings'[u][l] = layer_bindings[u][l]
        BY <1>1 DEF OnlySlot
    <3>2. \A l \in 1 .. MapRoom : l \in UsedSlots(layer_bindings', u)
              <=> l \in UsedSlots(layer_bindings, u) \cup {j}
        BY <1>2, <1>3, <3>1 DEF UsedSlots
    <3>3. /\ UsedSlots(layer_bindings', u) \subseteq 1 .. MapRoom
          /\ UsedSlots(layer_bindings, u) \subseteq 1 .. MapRoom
        BY <1>2 DEF UsedSlots
    <3>4. QED
        BY <3>2, <3>3
  <2>4. j \notin UsedSlots(layer_bindings, u)
      BY <1>3 DEF UsedSlots
  <2>5. /\ Cardinality(Leads(u)') = Cardinality(Leads(u)) + 1
        /\ Cardinality(UsedSlots(layer_bindings', u)) = Cardinality(UsedSlots(layer_bindings, u)) + 1
      BY <2>1, <2>2, <2>3, <2>4, EntriesFinite, FS_AddElement
  <2>6. QED
      BY <2>5
<1>4. CASE u # s
  <2>1. Leads(u)' = Leads(u)
    <3>1. ASSUME NEW e \in Ports \X (1 .. MapRoom)
          PROVE  e \in Leads(u)' <=> e \in Leads(u)
      <4>1. CASE e = <<p, i>>
          BY <1>4, <4>1 DEF Leads
      <4>2. CASE e # <<p, i>>
        <5>1. e[1] \in Ports /\ e[2] \in 1 .. MapRoom /\ (e[1] # p \/ e[2] # i)
            BY <4>2
        <5>2. port_bindings'[e[1]][e[2]] = port_bindings[e[1]][e[2]]
            BY <1>1, <5>1 DEF OnlySlot
        <5>3. QED
            BY <5>2 DEF Leads
      <4>3. QED
          BY <4>1, <4>2
    <3>2. Leads(u)' \subseteq Ports \X (1 .. MapRoom) /\ Leads(u) \subseteq Ports \X (1 .. MapRoom)
        BY DEF Leads
    <3>3. QED
        BY <3>1, <3>2
  <2>2. UsedSlots(layer_bindings', u) = UsedSlots(layer_bindings, u)
    <3>1. \A l \in 1 .. MapRoom : layer_bindings'[u][l] = layer_bindings[u][l]
        BY <1>1, <1>4 DEF OnlySlot
    <3>2. QED
        BY <1>2, <3>1 DEF UsedSlots
  <2>3. QED
      BY <2>1, <2>2
<1>5. QED
    BY <1>3, <1>4

\* To take an entry out of both maps takes it from one socket.
LEMMA UnsubscribePairs ==
    ASSUME PortTypes, PortTypes', NEW s \in Layers, NEW p \in Ports,
           NEW i \in 1 .. MapRoom, NEW j \in 1 .. MapRoom,
           port_bindings[p][i].used, port_bindings[p][i].val = s,
           layer_bindings[s][j].used,
           OnlySlot(port_bindings, port_bindings', p, i),
           OnlySlot(layer_bindings, layer_bindings', s, j),
           ~port_bindings'[p][i].used, ~layer_bindings'[s][j].used,
           NEW u \in Layers,
           Cardinality(Leads(u)) = Cardinality(UsedSlots(layer_bindings, u))
    PROVE  Cardinality(Leads(u)') = Cardinality(UsedSlots(layer_bindings', u))
<1>1. DOMAIN port_bindings = Ports /\ DOMAIN layer_bindings = Layers
    BY DEF PortTypes, Maps
<1>2. DOMAIN layer_bindings[u] = 1 .. MapRoom /\ DOMAIN layer_bindings'[u] = 1 .. MapRoom
    BY DEF PortTypes, Maps
<1>3. Leads(u)' = Leads(u) \ {<<p, i>>}
  <2>1. ASSUME NEW e \in Ports \X (1 .. MapRoom)
        PROVE  e \in Leads(u)' <=> e \in Leads(u) /\ e # <<p, i>>
    <3>1. CASE e = <<p, i>>
        BY <3>1 DEF Leads
    <3>2. CASE e # <<p, i>>
      <4>1. e[1] \in Ports /\ e[2] \in 1 .. MapRoom /\ (e[1] # p \/ e[2] # i)
          BY <3>2
      <4>2. port_bindings'[e[1]][e[2]] = port_bindings[e[1]][e[2]]
          BY <1>1, <4>1 DEF OnlySlot
      <4>3. QED
          BY <3>2, <4>2 DEF Leads
    <3>3. QED
        BY <3>1, <3>2
  <2>2. Leads(u)' \subseteq Ports \X (1 .. MapRoom) /\ Leads(u) \subseteq Ports \X (1 .. MapRoom)
      BY DEF Leads
  <2>3. QED
      BY <2>1, <2>2
<1>4. <<p, i>> \in Leads(u) <=> u = s
    BY DEF Leads
<1>5. UsedSlots(layer_bindings', u) = IF u = s THEN UsedSlots(layer_bindings, u) \ {j}
                                      ELSE UsedSlots(layer_bindings, u)
  <2>1. \A l \in 1 .. MapRoom :
            u # s \/ l # j => layer_bindings'[u][l] = layer_bindings[u][l]
      BY <1>1 DEF OnlySlot
  <2>2. \A l \in 1 .. MapRoom : l \in UsedSlots(layer_bindings', u)
            <=> l \in UsedSlots(layer_bindings, u) /\ (u # s \/ l # j)
      BY <1>2, <2>1 DEF UsedSlots
  <2>3. /\ UsedSlots(layer_bindings', u) \subseteq 1 .. MapRoom
        /\ UsedSlots(layer_bindings, u) \subseteq 1 .. MapRoom
      BY <1>2 DEF UsedSlots
  <2>4. QED
      BY <2>2, <2>3
<1>6. u = s => j \in UsedSlots(layer_bindings, u)
    BY <1>2 DEF UsedSlots
<1>7. CASE u = s
  <2>1. IsFiniteSet(Leads(u)) /\ IsFiniteSet(UsedSlots(layer_bindings, u))
      BY EntriesFinite
  <2>2. Cardinality(Leads(u) \ {<<p, i>>}) = Cardinality(Leads(u)) - 1
      BY <1>4, <1>7, <2>1, FS_RemoveElement
  <2>3. Cardinality(UsedSlots(layer_bindings, u) \ {j}) = Cardinality(UsedSlots(layer_bindings, u)) - 1
      BY <1>6, <1>7, <2>1, FS_RemoveElement
  <2>4. Cardinality(Leads(u)') = Cardinality(Leads(u)) - 1
      BY <1>3, <2>2
  <2>5. Cardinality(UsedSlots(layer_bindings', u)) = Cardinality(UsedSlots(layer_bindings, u)) - 1
      BY <1>5, <1>7, <2>3
  <2>6. QED
      BY <2>4, <2>5
<1>8. CASE u # s
  <2>1. Leads(u)' = Leads(u) /\ UsedSlots(layer_bindings', u) = UsedSlots(layer_bindings, u)
      BY <1>3, <1>4, <1>5, <1>8
  <2>2. QED
      BY <2>1
<1>9. QED
    BY <1>7, <1>8

-----------------------------------------------------------------------------
(* The invariant is inductive. *)

LEMMA BindStep ==
    ASSUME PortInv, ~halfBound, NEW s \in Layers, NEW p \in Ports, Bind(s, p)
    PROVE  PortInv'
<1> DEFINE i == AddSlot(port_bindings, p)
           j == AddSlot(layer_bindings, s)
<1>1. /\ port_bindings \in Maps(Ports, Layers \cup {Junk})
      /\ layer_bindings \in Maps(Layers, Ports \cup {0})
      /\ addr' \in [Layers -> Ports \cup {0}]
    BY DEF PortInv, PortTypes, Bind
<1>2. CASE i = 0
  <2>1. UNCHANGED <<port_bindings, layer_bindings, halfBound>>
      BY <1>2 DEF Bind
  <2>2. QED
      BY <1>1, <2>1 DEF PortInv, PortTypes, BindingsPaired, Leads
<1>3. CASE i # 0 /\ j = 0
  <2>1. port_bindings' = Added(port_bindings, p) /\ halfBound' /\ layer_bindings' = layer_bindings
      BY <1>3 DEF Bind
  <2>2. port_bindings' \in Maps(Ports, Layers \cup {Junk})
      BY <1>1, <1>3, <2>1, AddedOnly
  <2>3. QED
      BY <1>1, <2>1, <2>2 DEF PortInv, PortTypes, BindingsPaired
<1>4. CASE i # 0 /\ j # 0
  <2>1. /\ port_bindings' = Store(Added(port_bindings, p), p, i, s)
        /\ layer_bindings' = Store(Added(layer_bindings, s), s, j, p)
      BY <1>4 DEF Bind
  <2>2. /\ i \in 1 .. MapRoom /\ ~port_bindings[p][i].used
        /\ port_bindings' \in Maps(Ports, Layers \cup {Junk})
        /\ OnlySlot(port_bindings, port_bindings', p, i)
        /\ port_bindings'[p][i].used /\ port_bindings'[p][i].val = s
      BY <1>1, <1>4, <2>1, AddedAndStored
  <2>3. /\ j \in 1 .. MapRoom /\ ~layer_bindings[s][j].used
        /\ layer_bindings' \in Maps(Layers, Ports \cup {0})
        /\ OnlySlot(layer_bindings, layer_bindings', s, j)
        /\ layer_bindings'[s][j].used
      BY <1>1, <1>4, <2>1, AddedAndStored
  <2> HIDE DEF i, j
  <2>4. PortTypes /\ PortTypes'
      BY <1>1, <2>2, <2>3 DEF PortInv, PortTypes
  <2>5. \A u \in Layers : Cardinality(Leads(u)) = Cardinality(UsedSlots(layer_bindings, u))
      BY DEF PortInv, BindingsPaired
  <2>6. \A u \in Layers : Cardinality(Leads(u)') = Cardinality(UsedSlots(layer_bindings', u))
      BY <2>2, <2>3, <2>4, <2>5, BindPairs
  <2>7. QED
      BY <2>4, <2>6 DEF PortInv, BindingsPaired
<1>5. QED
    BY <1>2, <1>3, <1>4

LEMMA UnsubscribeStep ==
    ASSUME PortInv, ~halfBound, NEW p \in Ports, UnsubscribePort(p),
           UNCHANGED <<addr, halfBound>>
    PROVE  PortInv'
<1> DEFINE i == GetSlot(port_bindings, p)
           s == port_bindings[p][i].val
           j == GetSlot(layer_bindings, s)
<1>1. /\ port_bindings \in Maps(Ports, Layers \cup {Junk})
      /\ layer_bindings \in Maps(Layers, Ports \cup {0})
      /\ addr' \in [Layers -> Ports \cup {0}]
    BY DEF PortInv, PortTypes
<1>2. CASE i = 0
  <2>1. UNCHANGED <<port_bindings, layer_bindings>>
      BY <1>2 DEF UnsubscribePort
  <2>2. QED
      BY <1>1, <2>1 DEF PortInv, PortTypes, BindingsPaired, Leads
<1>3. CASE i # 0
  <2>1. /\ port_bindings' = Removed(port_bindings, p)
        /\ layer_bindings' = IF s = Junk THEN layer_bindings ELSE Removed(layer_bindings, s)
      BY <1>3 DEF UnsubscribePort
  <2>2. /\ i \in 1 .. MapRoom /\ port_bindings[p][i].used
        /\ port_bindings' \in Maps(Ports, Layers \cup {Junk})
        /\ OnlySlot(port_bindings, port_bindings', p, i)
        /\ ~port_bindings'[p][i].used
      BY <1>1, <1>3, <2>1, RemovedSlot
  <2> HIDE DEF i
  <2>3. s \in Layers \cup {Junk}
    <3>1. port_bindings[p][i] \in Slots(Layers \cup {Junk})
        BY <1>1, <2>2 DEF Maps
    <3>2. QED
        BY <3>1 DEF Slots
  <2>4. \A u \in Layers : Cardinality(Leads(u)) = Cardinality(UsedSlots(layer_bindings, u))
      BY DEF PortInv, BindingsPaired
  <2>5. CASE s = Junk
    <3>1. layer_bindings' = layer_bindings
        BY <2>1, <2>5
    <3>2. ASSUME NEW u \in Layers PROVE Leads(u)' = Leads(u)
      <4>1. ASSUME NEW e \in Ports \X (1 .. MapRoom)
            PROVE  e \in Leads(u)' <=> e \in Leads(u)
        <5>1. CASE e = <<p, i>>
            BY <2>2, <2>5, <5>1, LayersAssumption DEF Leads
        <5>2. CASE e # <<p, i>>
          <6>1. e[1] \in Ports /\ e[2] \in 1 .. MapRoom /\ (e[1] # p \/ e[2] # i)
              BY <5>2
          <6>2. port_bindings'[e[1]][e[2]] = port_bindings[e[1]][e[2]]
              BY <1>1, <2>2, <6>1 DEF OnlySlot, Maps
          <6>3. QED
              BY <6>2 DEF Leads
        <5>3. QED
            BY <5>1, <5>2
      <4>2. Leads(u)' \subseteq Ports \X (1 .. MapRoom) /\ Leads(u) \subseteq Ports \X (1 .. MapRoom)
          BY DEF Leads
      <4>3. QED
          BY <4>1, <4>2
    <3>3. QED
        BY <1>1, <2>2, <2>4, <3>1, <3>2 DEF PortInv, PortTypes, BindingsPaired
  <2>6. CASE s # Junk
    <3>1. s \in Layers /\ layer_bindings' = Removed(layer_bindings, s)
        BY <2>1, <2>3, <2>6
    <3>2. <<p, i>> \in Leads(s)
        BY <2>2 DEF Leads
    <3>3. UsedSlots(layer_bindings, s) # {}
      <4>1. Leads(s) # {}
          BY <3>2
      <4>2. PortTypes
          BY DEF PortInv
      <4>3. Cardinality(Leads(s)) # 0
          BY <3>1, <4>1, <4>2, EntriesFinite, FS_EmptySet
      <4>4. QED
          BY <2>4, <3>1, <4>3, FS_EmptySet
    <3>4. j # 0
        BY <1>1, <3>1, <3>3, GetSlotFound
    <3>5. /\ j \in 1 .. MapRoom /\ layer_bindings[s][j].used
          /\ layer_bindings' \in Maps(Layers, Ports \cup {0})
          /\ OnlySlot(layer_bindings, layer_bindings', s, j)
          /\ ~layer_bindings'[s][j].used
        BY <1>1, <3>1, <3>4, RemovedSlot
    <3> HIDE DEF j
    <3>6. PortTypes /\ PortTypes'
        BY <1>1, <2>2, <3>5 DEF PortInv, PortTypes
    <3>7. port_bindings[p][i].val = s
        OBVIOUS
    <3> HIDE DEF s
    <3>8. \A u \in Layers : Cardinality(Leads(u)') = Cardinality(UsedSlots(layer_bindings', u))
        BY <2>2, <2>4, <3>1, <3>5, <3>6, <3>7, UnsubscribePairs
    <3>9. QED
        BY <3>6, <3>8 DEF PortInv, BindingsPaired
  <2>7. QED
      BY <2>5, <2>6
<1>4. QED
    BY <1>2, <1>3

LEMMA UnbindStep ==
    ASSUME PortInv, ~halfBound, NEW s \in Layers, UnbindPort(s),
           UNCHANGED <<addr, halfBound>>
    PROVE  PortInv'
<1>1. CASE addr[s] = 0
  <2>1. UNCHANGED <<port_bindings, layer_bindings, addr, halfBound>>
      BY <1>1 DEF UnbindPort
  <2>2. QED
      BY <2>1 DEF PortInv, PortTypes, BindingsPaired, Leads
<1>2. CASE addr[s] # 0
  <2>1. addr[s] \in Ports /\ UnsubscribePort(addr[s])
      BY <1>2 DEF UnbindPort, PortInv, PortTypes
  <2>2. QED
      BY <2>1, UnsubscribeStep
<1>3. QED
    BY <1>1, <1>2

\* For any number of sockets, ports and slots, every entry that leads packets
\* to a socket has one that lets it send (subscribe_port, unsubscribePort), as
\* long as no bind failed halfway.
THEOREM BindingsStayPaired == PortSpec => []BindingsPaired
<1>1. PortInit => PortInv
  <2> SUFFICES ASSUME PortInit PROVE PortInv
      OBVIOUS
  <2>1. PortTypes
      BY DEF PortInit, PortTypes, EmptyMap, Maps, Slots
  <2>2. ASSUME NEW s \in Layers PROVE Leads(s) = {} /\ UsedSlots(layer_bindings, s) = {}
      BY DEF PortInit, EmptyMap, Leads, UsedSlots
  <2>3. QED
      BY <2>1, <2>2 DEF PortInv, BindingsPaired
<1>2. ASSUME PortInv, [PortNext]_portVars PROVE PortInv'
  <2>1. CASE PortNext
    <3>1. ~halfBound
        BY <2>1 DEF PortNext
    <3>2. PICK s \in Layers : \/ GetSocket(s) \/ Unbind(s) \/ FreeSocket(s)
                              \/ \E p \in Ports : Bind(s, p)
        BY <2>1 DEF PortNext
    <3>3. CASE GetSocket(s)
        BY <1>2, <3>3 DEF GetSocket, PortInv, PortTypes, BindingsPaired, Leads
    <3>4. CASE Unbind(s) \/ FreeSocket(s)
        BY <1>2, <3>1, <3>4, UnbindStep DEF Unbind, FreeSocket
    <3>5. CASE \E p \in Ports : Bind(s, p)
        BY <1>2, <3>1, <3>5, BindStep
    <3>6. QED
        BY <3>2, <3>3, <3>4, <3>5
  <2>2. CASE UNCHANGED portVars
      BY <1>2, <2>2 DEF portVars, PortInv, PortTypes, BindingsPaired, Leads
  <2>3. QED
      BY <1>2, <2>1, <2>2
<1>3. PortInv => BindingsPaired
    BY DEF PortInv
<1>4. QED
    BY <1>1, <1>2, <1>3, PTL DEF PortSpec

-----------------------------------------------------------------------------
(***************************************************************************)
(* The sockets of UDP.                                                     *)
(***************************************************************************)

SockTypes ==
    /\ state \in [Tid -> {"UNALLOCATED", "ACTIVE", "SLEEPING", "BLOCKED"}]
    /\ rx \in [Sockets -> Seq(Nat)]
    /\ buffers \in [Sockets -> Nat] /\ arrived \in [Sockets -> Nat]
    /\ waiter \in [Sockets -> Tid \cup {NoTask}]
    /\ reading \in [Tid -> Sockets \cup {"none"}]
    /\ DOMAIN got = Sockets
    /\ used \subseteq Tid \X Sockets
    /\ nullRead \in BOOLEAN

\* The packets that are no longer in the queue of s.
Gone(s) == arrived[s] - Len(rx[s])

\* What NewestKept says of a socket.
SocketKept(s) ==
    /\ Len(rx[s]) <= arrived[s]
    /\ \A i \in 1 .. Len(rx[s]) : rx[s][i] = Gone(s) + i
    /\ buffers[s] + Len(rx[s]) = RxSize
    /\ \A p \in 1 .. Gone(s) : p \in got[s] \/ p + RxSize <= arrived[s]

\* A task in recv() is the one that its socket wakes, and when it may run again
\* there is a packet.
ReaderServed ==
    /\ \A s \in Sockets : waiter[s] # NoTask => <<waiter[s], s>> \in used
    /\ \A t \in Tid : reading[t] # "none" =>
          /\ <<t, reading[t]>> \in used
          /\ state[t] = "BLOCKED"
                \/ (state[t] = "ACTIVE" /\ rx[reading[t]] # << >>)
    /\ ~nullRead

SockInv ==
    /\ SockTypes
    /\ \A s \in Sockets : SocketKept(s)
    /\ OneToOne => ReaderServed

-----------------------------------------------------------------------------
(* The effect on a socket. *)

\* What happens to another socket does not matter.
LEMMA SocketSame ==
    ASSUME NEW u \in Sockets, SocketKept(u),
           rx'[u] = rx[u], buffers'[u] = buffers[u], got'[u] = got[u],
           arrived'[u] = arrived[u]
    PROVE  SocketKept(u)'
BY DEF SocketKept, Gone

\* recv takes the oldest packet.
LEMMA TakePacketKeeps ==
    ASSUME SockTypes, NEW s \in Sockets, \A u \in Sockets : SocketKept(u),
           TakePacket(s), UNCHANGED arrived
    PROVE  /\ rx' \in [Sockets -> Seq(Nat)] /\ buffers' \in [Sockets -> Nat]
           /\ DOMAIN got' = Sockets
           /\ \A u \in Sockets : SocketKept(u)'
           /\ \A u \in Sockets : u # s => rx'[u] = rx[u]
<1>1. /\ rx[s] \in Seq(Nat) /\ rx[s] # << >> /\ Len(rx[s]) \in Nat \ {0}
      /\ arrived[s] \in Nat /\ buffers[s] \in Nat /\ RxSize \in Nat
    BY LenProperties, EmptySeq, SocketAssumption DEF SockTypes, TakePacket
<1>2. /\ Tail(rx[s]) \in Seq(Nat) /\ Len(Tail(rx[s])) = Len(rx[s]) - 1
      /\ \A i \in 1 .. Len(rx[s]) - 1 : Tail(rx[s])[i] = rx[s][i + 1]
      /\ Head(rx[s]) = rx[s][1]
    BY <1>1, HeadTailProperties
<1>3. /\ rx' = [rx EXCEPT ![s] = Tail(rx[s])]
      /\ buffers' = [buffers EXCEPT ![s] = buffers[s] + 1]
      /\ got' = [got EXCEPT ![s] = got[s] \cup {Head(rx[s])}]
    BY DEF TakePacket
<1>4. /\ rx' \in [Sockets -> Seq(Nat)] /\ buffers' \in [Sockets -> Nat]
      /\ DOMAIN got' = Sockets
      /\ rx'[s] = Tail(rx[s]) /\ buffers'[s] = buffers[s] + 1
      /\ got'[s] = got[s] \cup {Head(rx[s])}
      /\ \A u \in Sockets : u # s => rx'[u] = rx[u] /\ buffers'[u] = buffers[u]
                                     /\ got'[u] = got[u]
    BY <1>1, <1>2, <1>3 DEF SockTypes
<1>5. \A u \in Sockets : u # s => SocketKept(u)'
    BY <1>4, SocketSame
<1>6. SocketKept(s)'
  <2> DEFINE n == Len(rx[s])
             a == arrived[s]
             b == buffers[s]
  <2>1. /\ n <= a /\ \A i \in 1 .. n : rx[s][i] = a - n + i
        /\ b + n = RxSize
        /\ \A p \in 1 .. a - n : p \in got[s] \/ p + RxSize <= a
      BY DEF SocketKept, Gone
  <2>2. /\ Len(rx'[s]) = n - 1 /\ arrived'[s] = a /\ buffers'[s] = b + 1
        /\ \A i \in 1 .. n - 1 : rx'[s][i] = rx[s][i + 1]
        /\ Head(rx[s]) = rx[s][1]
      BY <1>2, <1>4
  <2>3. n \in Nat \ {0} /\ a \in Nat /\ b \in Nat /\ RxSize \in Nat
      BY <1>1
  <2> HIDE DEF n, a, b
  <2>4. \A i \in 1 .. n - 1 : rx'[s][i] = a - (n - 1) + i
    <3> TAKE i \in 1 .. n - 1
    <3>1. i + 1 \in 1 .. n
        BY <2>3
    <3>2. rx'[s][i] = a - n + (i + 1)
        BY <2>1, <2>2, <3>1
    <3>3. QED
        BY <2>3, <3>2
  <2>5. \A p \in 1 .. a - (n - 1) : p \in got'[s] \/ p + RxSize <= a
    <3>1. \A p \in 1 .. a - (n - 1) : p \in 1 .. a - n \/ p = a - n + 1
        BY <2>1, <2>3
    <3>2. Head(rx[s]) = a - n + 1
      <4>1. 1 \in 1 .. n
          BY <2>3
      <4>2. QED
          BY <2>1, <2>2, <4>1
    <3>3. got'[s] = got[s] \cup {Head(rx[s])}
        BY <1>4
    <3>4. QED
        BY <2>1, <3>1, <3>2, <3>3
  <2>6. (b + 1) + (n - 1) = RxSize /\ n - 1 <= a
      BY <2>1, <2>3
  <2>7. QED
      BY <2>2, <2>4, <2>5, <2>6 DEF SocketKept, Gone
<1>7. QED
    BY <1>4, <1>5, <1>6

\* receive() adds a packet, in a free buffer or in that of the oldest one.
LEMMA DeliverKeeps ==
    ASSUME SockTypes, NEW s \in Sockets, \A u \in Sockets : SocketKept(u), Deliver(s)
    PROVE  /\ rx' \in [Sockets -> Seq(Nat)] /\ buffers' \in [Sockets -> Nat]
           /\ arrived' \in [Sockets -> Nat]
           /\ \A u \in Sockets : SocketKept(u)'
           /\ rx'[s] # << >>
           /\ \A u \in Sockets : u # s => rx'[u] = rx[u]
<1> DEFINE n == Len(rx[s])
           a == arrived[s]
           b == buffers[s]
<1>1. /\ rx[s] \in Seq(Nat) /\ n \in Nat /\ a \in Nat /\ b \in Nat
      /\ RxSize \in Nat \ {0}
    BY LenProperties, SocketAssumption DEF SockTypes
<1>2. /\ n <= a /\ \A i \in 1 .. n : rx[s][i] = a - n + i
      /\ b + n = RxSize
      /\ \A p \in 1 .. a - n : p \in got[s] \/ p + RxSize <= a
    BY DEF SocketKept, Gone
<1>3. /\ arrived' = [arrived EXCEPT ![s] = a + 1] /\ got' = got
      /\ arrived' \in [Sockets -> Nat] /\ arrived'[s] = a + 1
      /\ \A u \in Sockets : u # s => arrived'[u] = arrived[u]
    BY <1>1 DEF Deliver, SockTypes
<1> HIDE DEF n, a, b
<1>4. CASE b > 0
  <2> DEFINE r == Append(rx[s], a + 1)
  <2>1. /\ buffers' = [buffers EXCEPT ![s] = b - 1]
        /\ rx' = [rx EXCEPT ![s] = r]
      BY <1>3, <1>4 DEF Deliver, b
  <2>2. /\ r \in Seq(Nat) /\ Len(r) = n + 1
        /\ \A i \in 1 .. n : r[i] = rx[s][i]
        /\ r[n + 1] = a + 1
    <3>1. a + 1 \in Nat
        BY <1>1
    <3>2. QED
        BY <1>1, <3>1, AppendProperties DEF n
  <2> HIDE DEF r
  <2>3. /\ rx' \in [Sockets -> Seq(Nat)] /\ buffers' \in [Sockets -> Nat]
        /\ rx'[s] = r /\ buffers'[s] = b - 1
        /\ \A u \in Sockets : u # s => rx'[u] = rx[u] /\ buffers'[u] = buffers[u]
      BY <1>1, <1>4, <2>1, <2>2 DEF SockTypes
  <2>4. \A u \in Sockets : u # s => SocketKept(u)'
      BY <1>3, <2>3, SocketSame
  <2>5. \A i \in 1 .. n + 1 : r[i] = (a + 1) - (n + 1) + i
    <3> TAKE i \in 1 .. n + 1
    <3>1. CASE i = n + 1
        BY <1>1, <2>2, <3>1
    <3>2. CASE i # n + 1
      <4>1. i \in 1 .. n
          BY <1>1, <3>2
      <4>2. r[i] = a - n + i
          BY <1>2, <2>2, <4>1
      <4>3. QED
          BY <1>1, <4>2
    <3>3. QED
        BY <3>1, <3>2
  <2>6. \A p \in 1 .. (a + 1) - (n + 1) : p \in got'[s] \/ p + RxSize <= a + 1
    <3>1. (a + 1) - (n + 1) = a - n
        BY <1>1
    <3>2. QED
        BY <1>1, <1>2, <1>3, <3>1
  <2>7. n + 1 <= a + 1 /\ (b - 1) + (n + 1) = RxSize
      BY <1>1, <1>2
  <2>8. SocketKept(s)'
      BY <1>3, <2>2, <2>3, <2>5, <2>6, <2>7 DEF SocketKept, Gone
  <2>9. r # << >>
      BY <1>1, <2>2, EmptySeq
  <2>10. QED
      BY <1>3, <2>3, <2>4, <2>8, <2>9
<1>5. CASE ~(b > 0)
  <2> DEFINE q == Tail(rx[s])
             r == Append(q, a + 1)
  <2>1. buffers' = buffers /\ rx' = [rx EXCEPT ![s] = r]
      BY <1>3, <1>5 DEF Deliver, b
  <2>2. n = RxSize /\ n \in Nat \ {0} /\ b = 0
      BY <1>1, <1>2, <1>5
  <2>3. rx[s] # << >>
      BY <1>1, <2>2, EmptySeq DEF n
  <2>4. /\ q \in Seq(Nat) /\ Len(q) = n - 1
        /\ \A i \in 1 .. n - 1 : q[i] = rx[s][i + 1]
      BY <1>1, <2>3, HeadTailProperties DEF n
  <2> HIDE DEF q
  <2>5. /\ r \in Seq(Nat) /\ Len(r) = n
        /\ \A i \in 1 .. n - 1 : r[i] = q[i]
        /\ r[n] = a + 1
    <3>1. a + 1 \in Nat /\ (n - 1) + 1 = n
        BY <1>1
    <3>2. QED
        BY <2>4, <3>1, AppendProperties
  <2> HIDE DEF r
  <2>6. /\ rx' \in [Sockets -> Seq(Nat)] /\ buffers' \in [Sockets -> Nat]
        /\ rx'[s] = r /\ buffers'[s] = b
        /\ \A u \in Sockets : u # s => rx'[u] = rx[u] /\ buffers'[u] = buffers[u]
      BY <2>1, <2>5 DEF SockTypes, b
  <2>7. \A u \in Sockets : u # s => SocketKept(u)'
      BY <1>3, <2>6, SocketSame
  <2>8. \A i \in 1 .. n : r[i] = (a + 1) - n + i
    <3> TAKE i \in 1 .. n
    <3>1. CASE i = n
        BY <1>1, <2>5, <3>1
    <3>2. CASE i # n
      <4>1. i \in 1 .. n - 1 /\ i + 1 \in 1 .. n
          BY <1>1, <3>2
      <4>2. r[i] = a - n + (i + 1)
          BY <1>2, <2>4, <2>5, <4>1
      <4>3. QED
          BY <1>1, <4>2
    <3>3. QED
        BY <3>1, <3>2
  <2>9. \A p \in 1 .. (a + 1) - n : p \in got'[s] \/ p + RxSize <= a + 1
    <3>1. \A p \in 1 .. (a + 1) - n : p \in 1 .. a - n \/ p = (a + 1) - n
        BY <1>1, <1>2, <2>2
    <3>2. ((a + 1) - n) + RxSize <= a + 1
        BY <1>1, <2>2
    <3>3. \A p \in 1 .. a - n : p \in got'[s] \/ p + RxSize <= a + 1
        BY <1>1, <1>2, <1>3
    <3>4. QED
        BY <3>1, <3>2, <3>3
  <2>10. n <= a + 1 /\ b + n = RxSize
      BY <1>1, <1>2
  <2>11. SocketKept(s)'
      BY <1>3, <2>5, <2>6, <2>8, <2>9, <2>10 DEF SocketKept, Gone
  <2>12. r # << >>
      BY <2>2, <2>5, EmptySeq
  <2>13. QED
      BY <1>3, <2>6, <2>7, <2>11, <2>12
<1>6. QED
    BY <1>4, <1>5

-----------------------------------------------------------------------------
(* The invariant is inductive. *)

LEMMA RecvNowStep ==
    ASSUME SockInv, NEW t \in Tid, NEW s \in Sockets, RecvNow(t, s)
    PROVE  SockInv'
<1>1. /\ rx' \in [Sockets -> Seq(Nat)] /\ buffers' \in [Sockets -> Nat]
      /\ DOMAIN got' = Sockets
      /\ \A u \in Sockets : SocketKept(u)'
      /\ \A u \in Sockets : u # s => rx'[u] = rx[u]
    BY TakePacketKeeps DEF SockInv, RecvNow
<1>2. /\ reading[t] = "none" /\ used' = used \cup {<<t, s>>}
      /\ UNCHANGED <<taskVars, waiter, reading, arrived, nullRead>>
    BY DEF RecvNow
<1>3. SockTypes'
    BY <1>1, <1>2 DEF SockInv, SockTypes, taskVars
<1>4. ASSUME OneToOne' PROVE ReaderServed'
  <2>1. OneToOne
      BY <1>2, <1>4 DEF OneToOne
  <2>2. ReaderServed
      BY <2>1 DEF SockInv
  <2>3. ASSUME NEW u \in Tid, reading[u] # "none" PROVE reading[u] # s
    <3>1. <<u, reading[u]>> \in used' /\ <<t, s>> \in used'
        BY <1>2, <2>2, <2>3 DEF ReaderServed
    <3>2. <<u, reading[u]>>[1] = <<t, s>>[1] <=> <<u, reading[u]>>[2] = <<t, s>>[2]
        BY <1>4, <3>1 DEF OneToOne
    <3>3. QED
        BY <1>2, <2>3, <3>2
  <2>4. \A u \in Tid : reading[u] # "none" => rx'[reading[u]] = rx[reading[u]]
      BY <1>1, <2>3 DEF SockInv, SockTypes
  <2>5. QED
      BY <1>2, <2>2, <2>4 DEF ReaderServed, taskVars
<1>5. QED
    BY <1>1, <1>3, <1>4 DEF SockInv

LEMMA RecvBlocksStep ==
    ASSUME SockInv, NEW t \in Tid, NEW s \in Sockets, RecvBlocks(t, s)
    PROVE  SockInv'
<1>1. /\ waiter' = [waiter EXCEPT ![s] = t]
      /\ reading' = [reading EXCEPT ![t] = s]
      /\ used' = used \cup {<<t, s>>}
      /\ state' = [state EXCEPT ![t] = "BLOCKED"]
      /\ UNCHANGED <<rx, buffers, arrived, got, nullRead>>
    BY DEF RecvBlocks, Suspend
<1>2. SockTypes'
    BY <1>1 DEF SockInv, SockTypes
<1>3. \A u \in Sockets : SocketKept(u)'
    BY <1>1 DEF SockInv, SocketKept, Gone
<1>4. ASSUME OneToOne' PROVE ReaderServed'
  <2>1. OneToOne
      BY <1>1, <1>4 DEF OneToOne
  <2>2. ReaderServed
      BY <2>1 DEF SockInv
  <2>3. QED
      BY <1>1, <2>2 DEF ReaderServed, SockInv, SockTypes
<1>5. QED
    BY <1>2, <1>3, <1>4 DEF SockInv

LEMMA RecvResumesStep ==
    ASSUME SockInv, NEW t \in Tid, RecvResumes(t)
    PROVE  SockInv'
<1> DEFINE s == reading[t]
<1>1. /\ s \in Sockets /\ Running(t) /\ s # "none"
      /\ reading' = [reading EXCEPT ![t] = "none"]
      /\ UNCHANGED <<taskVars, waiter, arrived, used>>
      /\ \/ rx[s] = << >> /\ nullRead' = TRUE /\ UNCHANGED <<rx, buffers, got>>
         \/ TakePacket(s) /\ nullRead' = nullRead
    BY DEF RecvResumes, SockInv, SockTypes
<1> HIDE DEF s
<1>2. /\ rx' \in [Sockets -> Seq(Nat)] /\ buffers' \in [Sockets -> Nat]
      /\ DOMAIN got' = Sockets
      /\ \A u \in Sockets : SocketKept(u)'
      /\ \A u \in Sockets : u # s => rx'[u] = rx[u]
  <2>1. CASE TakePacket(s)
      BY <1>1, <2>1, TakePacketKeeps DEF SockInv
  <2>2. CASE UNCHANGED <<rx, buffers, got>>
      BY <1>1, <2>2 DEF SockInv, SockTypes, SocketKept, Gone
  <2>3. QED
      BY <1>1, <2>1, <2>2
<1>3. SockTypes'
    BY <1>1, <1>2 DEF SockInv, SockTypes, taskVars
<1>4. ASSUME OneToOne' PROVE ReaderServed'
  <2>1. OneToOne
      BY <1>1, <1>4 DEF OneToOne
  <2>2. ReaderServed
      BY <2>1 DEF SockInv
  <2>3. nullRead' = nullRead
      BY <1>1, <2>2 DEF ReaderServed, Running, s
  <2>4. ASSUME NEW u \in Tid, reading[u] # "none", u # t PROVE reading[u] # s
    <3>1. <<u, reading[u]>> \in used /\ <<t, s>> \in used
        BY <1>1, <2>2, <2>4 DEF ReaderServed, s
    <3>2. <<u, reading[u]>>[1] = <<t, s>>[1] <=> <<u, reading[u]>>[2] = <<t, s>>[2]
        BY <2>1, <3>1 DEF OneToOne
    <3>3. QED
        BY <2>4, <3>2
  <2>5. \A u \in Tid : reading'[u] # "none" =>
            /\ reading'[u] = reading[u] /\ u # t
            /\ rx'[reading[u]] = rx[reading[u]]
      BY <1>1, <1>2, <2>4 DEF SockInv, SockTypes
  <2>6. QED
      BY <1>1, <2>2, <2>3, <2>5 DEF ReaderServed, taskVars
<1>5. QED
    BY <1>2, <1>3, <1>4 DEF SockInv

LEMMA DeliverStep ==
    ASSUME SockInv, NEW s \in Sockets, Deliver(s)
    PROVE  SockInv'
<1>1. /\ rx' \in [Sockets -> Seq(Nat)] /\ buffers' \in [Sockets -> Nat]
      /\ arrived' \in [Sockets -> Nat]
      /\ \A u \in Sockets : SocketKept(u)'
      /\ rx'[s] # << >>
      /\ \A u \in Sockets : u # s => rx'[u] = rx[u]
    BY DeliverKeeps DEF SockInv
<1>2. UNCHANGED <<waiter, reading, got, used, nullRead>>
    BY DEF Deliver
<1>3. \/ state' = state
      \/ /\ waiter[s] \in Tid /\ Suspended(waiter[s])
         /\ state' = [state EXCEPT ![waiter[s]] = "ACTIVE"]
    BY DEF Deliver, WakeReader, MakeReady, SockInv, SockTypes
<1>4. SockTypes'
    BY <1>1, <1>2, <1>3 DEF SockInv, SockTypes
<1>5. ASSUME OneToOne' PROVE ReaderServed'
  <2>1. OneToOne
      BY <1>2, <1>5 DEF OneToOne
  <2>2. ReaderServed
      BY <2>1 DEF SockInv
  <2>3. ASSUME NEW u \in Tid, reading[u] # "none", u = waiter[s] PROVE reading[u] = s
    <3>1. <<u, reading[u]>> \in used /\ <<u, s>> \in used
        BY <2>2, <2>3, SocketAssumption DEF ReaderServed
    <3>2. <<u, reading[u]>>[1] = <<u, s>>[1] <=> <<u, reading[u]>>[2] = <<u, s>>[2]
        BY <2>1, <3>1 DEF OneToOne
    <3>3. QED
        BY <3>2
  <2>4. ASSUME NEW u \in Tid, reading[u] # "none"
        PROVE  /\ <<u, reading[u]>> \in used
               /\ state'[u] = "BLOCKED"
                     \/ (state'[u] = "ACTIVE" /\ rx'[reading[u]] # << >>)
    <3>1. /\ <<u, reading[u]>> \in used
          /\ state[u] = "BLOCKED"
                \/ (state[u] = "ACTIVE" /\ rx[reading[u]] # << >>)
        BY <2>2, <2>4 DEF ReaderServed
    <3>2. rx[reading[u]] # << >> => rx'[reading[u]] # << >>
        BY <1>1, <2>4 DEF SockInv, SockTypes
    <3>3. CASE state'[u] = state[u]
        BY <3>1, <3>2, <3>3
    <3>4. CASE state'[u] # state[u]
        BY <1>1, <1>3, <2>3, <2>4, <3>1, <3>4 DEF SockInv, SockTypes
    <3>5. QED
        BY <3>3, <3>4
  <2>5. QED
      BY <1>2, <2>2, <2>4 DEF ReaderServed
<1>6. QED
    BY <1>1, <1>4, <1>5 DEF SockInv

LEMMA SockTaskStepKeeps ==
    ASSUME SockInv, SockTaskStep
    PROVE  SockInv'
<1>1. UNCHANGED sockVars
    BY DEF SockTaskStep
<1>2. \/ state' = state
      \/ \E t \in Tid, st \in {"ACTIVE", "SLEEPING"} :
            reading[t] = "none" /\ state' = [state EXCEPT ![t] = st]
    BY DEF SockTaskStep, Call, Return, Start, Wake, Suspend, MakeReady
<1>3. SockTypes'
    BY <1>1, <1>2 DEF SockInv, SockTypes, sockVars
<1>4. \A s \in Sockets : SocketKept(s)'
    BY <1>1 DEF SockInv, SocketKept, Gone, sockVars
<1>5. ASSUME OneToOne' PROVE ReaderServed'
  <2>1. ReaderServed
      BY <1>1, <1>5 DEF SockInv, OneToOne, sockVars
  <2>2. \A u \in Tid : reading[u] # "none" => state'[u] = state[u]
      BY <1>2 DEF SockInv, SockTypes
  <2>3. QED
      BY <1>1, <2>1, <2>2 DEF ReaderServed, sockVars
<1>6. QED
    BY <1>3, <1>4, <1>5 DEF SockInv

LEMMA SockInvariant == SockSpec => []SockInv
<1>1. SockInit => SockInv
  <2> SUFFICES ASSUME SockInit PROVE SockInv
      OBVIOUS
  <2>1. << >> \in Seq(Nat) /\ Len(<< >>) = 0 /\ RxSize \in Nat
      BY SocketAssumption
  <2>2. SockTypes
      BY <2>1 DEF SockInit, TasksInit, SockTypes
  <2>3. \A s \in Sockets : SocketKept(s)
      BY <2>1 DEF SockInit, SocketKept, Gone
  <2>4. ReaderServed
      BY DEF SockInit, ReaderServed
  <2>5. QED
      BY <2>2, <2>3, <2>4 DEF SockInv
<1>2. ASSUME SockInv, [SockNext]_sockTaskVars PROVE SockInv'
  <2>1. CASE SockNext
    <3>1. CASE \E t \in Tid, s \in Sockets : RecvNow(t, s)
        BY <1>2, <3>1, RecvNowStep
    <3>2. CASE \E t \in Tid, s \in Sockets : RecvBlocks(t, s)
        BY <1>2, <3>2, RecvBlocksStep
    <3>3. CASE \E t \in Tid : RecvResumes(t)
        BY <1>2, <3>3, RecvResumesStep
    <3>4. CASE \E s \in Sockets : Deliver(s)
        BY <1>2, <3>4, DeliverStep
    <3>5. CASE SockTaskStep
        BY <1>2, <3>5, SockTaskStepKeeps
    <3>6. QED
        BY <2>1, <3>1, <3>2, <3>3, <3>4, <3>5 DEF SockNext
  <2>2. CASE UNCHANGED sockTaskVars
      BY <1>2, <2>2 DEF SockInv, SockTypes, SocketKept, Gone, OneToOne, ReaderServed,
                        sockTaskVars, sockVars, taskVars
  <2>3. QED
      BY <1>2, <2>1, <2>2
<1>3. QED
    BY <1>1, <1>2, PTL DEF SockSpec

\* Any number of sockets with any number of buffers keep the newest packets in
\* their order (IPv4UDPSocket.h:238), and lose none before RxSize others came.
THEOREM NewestAlwaysKept == SockSpec => []NewestKept
<1>1. SockInv => NewestKept
  <2> SUFFICES ASSUME SockInv, NEW s \in Sockets
               PROVE  /\ rx[s] = [i \in 1 .. Len(rx[s]) |-> arrived[s] - Len(rx[s]) + i]
                      /\ buffers[s] + Len(rx[s]) = RxSize
                      /\ \A p \in (1 .. arrived[s] - Len(rx[s])) \ got[s] :
                            p + RxSize <= arrived[s]
      BY DEF NewestKept
  <2>1. SocketKept(s)
      BY DEF SockInv
  <2>2. rx[s] = [i \in 1 .. Len(rx[s]) |-> rx[s][i]]
      BY LenProperties DEF SockInv, SockTypes
  <2>3. rx[s] = [i \in 1 .. Len(rx[s]) |-> arrived[s] - Len(rx[s]) + i]
      BY <2>1, <2>2 DEF SocketKept, Gone
  <2>4. QED
      BY <2>1, <2>3 DEF SocketKept, Gone
<1>2. QED
    BY <1>1, SockInvariant, PTL

\* "assuming this is non-NULL as this task has been woken!" (:171) is true for
\* any number of tasks and sockets, one reader to a socket and one socket to a
\* reader.
THEOREM ReaderAlwaysFindsPacket == SockSpec => []ReaderFindsPacket
<1>1. SockInv => ReaderFindsPacket
    BY DEF SockInv, ReaderServed, ReaderFindsPacket
<1>2. QED
    BY <1>1, SockInvariant, PTL


-----------------------------------------------------------------------------
(***************************************************************************)
(* The serial line.                                                        *)
(***************************************************************************)

\* The first n parts lie one behind the other in a sequence of bytes, part k
\* behind the first start[k] of them.
Gathered(whole, start, parts, n) ==
    /\ whole \in Seq(Octets) /\ \A k \in 1 .. n : parts[k] \in Seq(Octets)
    /\ start \in [1 .. n + 1 -> Nat]
    /\ start[1] = 0 /\ start[n + 1] = Len(whole)
    /\ \A k \in 1 .. n : start[k + 1] = start[k] + Len(parts[k])
    /\ \A k, l \in 1 .. n + 1 : k < l => start[k] < start[l]
    /\ \A k \in 1 .. n : \A j \in 1 .. Len(parts[k]) : whole[start[k] + j] = parts[k][j]

LEMMA GatherNone == ASSUME NEW parts PROVE Gathered(<<>>, [k \in 1 .. 1 |-> 0], parts, 0)
<1>1. \A k, l \in 1 .. 0 + 1 : ~(k < l)
    OBVIOUS
<1>2. <<>> \in Seq(Octets) /\ Len(<<>>) = 0
    OBVIOUS
<1>3. QED
    BY <1>1, <1>2 DEF Gathered

\* A part that is put behind the others.
LEMMA GatherOne ==
    ASSUME NEW n \in Nat, NEW whole, NEW start, NEW parts, Gathered(whole, start, parts, n),
           NEW x \in Seq(Octets), x # <<>>,
           NEW more, \A k \in 1 .. n : more[k] = parts[k], more[n + 1] = x
    PROVE  \E s : /\ Gathered(whole \o x, s, more, n + 1)
                  /\ \A k \in 1 .. n + 1 : s[k] = start[k]
<1> DEFINE total == Len(whole) + Len(x)
           s == [k \in 1 .. n + 2 |-> IF k = n + 2 THEN total ELSE start[k]]
           w == whole \o x
<1>1. /\ whole \in Seq(Octets) /\ start \in [1 .. n + 1 -> Nat]
      /\ \A k \in 1 .. n : parts[k] \in Seq(Octets)
      /\ start[1] = 0 /\ start[n + 1] = Len(whole)
      /\ \A k \in 1 .. n : start[k + 1] = start[k] + Len(parts[k])
      /\ \A k, l \in 1 .. n + 1 : k < l => start[k] < start[l]
      /\ \A k \in 1 .. n : \A j \in 1 .. Len(parts[k]) : whole[start[k] + j] = parts[k][j]
    BY DEF Gathered
<1>2. Len(whole) \in Nat /\ Len(x) \in Nat \ {0} /\ total \in Nat /\ total = Len(whole) + Len(x)
    BY <1>1, LenProperties, EmptySeq
<1>3. /\ w \in Seq(Octets) /\ Len(w) = total
      /\ \A i \in 1 .. Len(whole) : w[i] = whole[i]
      /\ \A j \in 1 .. Len(x) : w[Len(whole) + j] = x[j]
  <2>1. /\ w \in Seq(Octets) /\ Len(w) = Len(whole) + Len(x)
        /\ \A i \in 1 .. Len(whole) + Len(x) :
              w[i] = IF i <= Len(whole) THEN whole[i] ELSE x[i - Len(whole)]
      BY <1>1, ConcatProperties
  <2> HIDE DEF w
  <2>2. \A i \in 1 .. Len(whole) : i \in 1 .. Len(whole) + Len(x) /\ i <= Len(whole)
      BY <1>2
  <2>3. \A j \in 1 .. Len(x) : /\ Len(whole) + j \in 1 .. Len(whole) + Len(x)
                               /\ ~(Len(whole) + j <= Len(whole))
                               /\ Len(whole) + j - Len(whole) = j
      BY <1>2
  <2>4. QED
      BY <1>2, <2>1, <2>2, <2>3
<1> HIDE DEF w, total
<1>4. /\ s \in [1 .. n + 2 -> Nat]
      /\ \A k \in 1 .. n + 1 : s[k] = start[k]
      /\ s[n + 2] = total
  <2>1. \A k \in 1 .. n + 2 : k = n + 2 \/ (k \in 1 .. n + 1 /\ k # n + 2)
      OBVIOUS
  <2>2. \A k \in 1 .. n + 1 : k \in 1 .. n + 2 /\ k # n + 2
      OBVIOUS
  <2>3. n + 2 \in 1 .. n + 2
      OBVIOUS
  <2>4. QED
      BY <1>1, <1>2, <2>1, <2>2, <2>3
<1> HIDE DEF s
<1>5. \A k \in 1 .. n + 1 : s[k + 1] = s[k] + Len(more[k])
  <2> SUFFICES ASSUME NEW k \in 1 .. n + 1 PROVE s[k + 1] = s[k] + Len(more[k])
      OBVIOUS
  <2>1. CASE k = n + 1
    <3>1. s[n + 1 + 1] = total
        BY <1>4
    <3>2. s[n + 1] = Len(whole)
        BY <1>1, <1>4
    <3>3. QED
        BY <1>2, <2>1, <3>1, <3>2
  <2>2. CASE k # n + 1
    <3>1. k \in 1 .. n /\ k + 1 \in 1 .. n + 1
        BY <2>2
    <3>2. QED
        BY <1>1, <1>4, <3>1
  <2>3. QED
      BY <2>1, <2>2
<1>6. \A k, l \in 1 .. n + 2 : k < l => s[k] < s[l]
  <2> SUFFICES ASSUME NEW k \in 1 .. n + 2, NEW l \in 1 .. n + 2, k < l PROVE s[k] < s[l]
      OBVIOUS
  <2>1. k \in 1 .. n + 1 /\ s[k] = start[k] /\ start[k] \in Nat
      BY <1>1, <1>4
  <2>2. CASE l = n + 2
    <3>1. start[k] <= start[n + 1]
      <4>1. k = n + 1 \/ k < n + 1
          BY <2>1
      <4>2. start[n + 1] \in Nat /\ n + 1 \in 1 .. n + 1
          BY <1>1
      <4>3. QED
          BY <1>1, <2>1, <4>1, <4>2
    <3>2. QED
        BY <1>1, <1>2, <1>4, <2>1, <2>2, <3>1
  <2>3. CASE l # n + 2
    <3>1. l \in 1 .. n + 1 /\ s[l] = start[l]
        BY <1>4, <2>3
    <3>2. QED
        BY <1>1, <2>1, <3>1
  <2>4. QED
      BY <2>2, <2>3
<1>7. \A k \in 1 .. n + 1 : \A j \in 1 .. Len(more[k]) : w[s[k] + j] = more[k][j]
  <2> SUFFICES ASSUME NEW k \in 1 .. n + 1, NEW j \in 1 .. Len(more[k])
               PROVE  w[s[k] + j] = more[k][j]
      OBVIOUS
  <2>1. CASE k = n + 1
      BY <1>1, <1>3, <1>4, <2>1
  <2>2. CASE k # n + 1
    <3>1. k \in 1 .. n /\ k + 1 \in 1 .. n + 1 /\ k \in 1 .. n + 1 /\ n + 1 \in 1 .. n + 1
        BY <2>2
    <3>2. /\ more[k] = parts[k] /\ s[k] = start[k]
          /\ whole[start[k] + j] = parts[k][j]
          /\ start[k] \in Nat /\ start[k + 1] \in Nat
          /\ start[k + 1] = start[k] + Len(parts[k])
        BY <1>1, <1>4, <3>1
    <3>3. start[k + 1] <= start[n + 1]
      <4>1. k + 1 = n + 1 \/ k + 1 < n + 1
          BY <3>1
      <4>2. CASE k + 1 = n + 1
          BY <1>1, <1>2, <4>2
      <4>3. CASE k + 1 < n + 1
        <5>1. start[k + 1] < start[n + 1]
            BY <1>1, <3>1, <4>3
        <5>2. QED
            BY <1>1, <1>2, <3>2, <5>1
      <4>4. QED
          BY <4>1, <4>2, <4>3
    <3>4. start[k] + j \in 1 .. Len(whole)
      <4>1. j \in Nat /\ j >= 1 /\ j <= Len(parts[k]) /\ Len(parts[k]) \in Int
        <5>1. j \in 1 .. Len(parts[k])
            BY <3>2
        <5>2. parts[k] \in Seq(Octets)
            BY <1>1, <3>1
        <5>3. QED
            BY <5>1, <5>2, LenProperties
      <4>2. start[n + 1] \in Nat /\ start[n + 1] = Len(whole)
          BY <1>1, <1>2, <3>1
      <4>3. \A a, y, l, z \in Int :
                a >= 0 /\ y >= 1 /\ y <= l /\ a + l <= z => a + y \in 1 .. z
          OBVIOUS
      <4>4. start[k] \in Int /\ Len(whole) \in Int
            /\ start[k] >= 0 /\ start[k] + Len(parts[k]) <= Len(whole)
          BY <3>2, <3>3, <4>2
      <4>5. QED
          BY <4>1, <4>3, <4>4
    <3>5. QED
        BY <1>3, <3>2, <3>4
  <2>3. QED
      BY <2>1, <2>2
<1>8. s[1] = 0 /\ s[n + 1 + 1] = Len(w) /\ n + 1 + 1 = n + 2
  <2>1. 1 \in 1 .. n + 1 /\ n + 1 + 1 = n + 2
      OBVIOUS
  <2>2. QED
      BY <1>1, <1>3, <1>4, <2>1
<1>9. \A k \in 1 .. n + 1 : more[k] \in Seq(Octets)
  <2>1. \A k \in 1 .. n + 1 : k \in 1 .. n \/ k = n + 1
      OBVIOUS
  <2>2. QED
      BY <1>1, <2>1
<1>10. Gathered(w, s, more, n + 1)
    BY <1>3, <1>4, <1>5, <1>6, <1>7, <1>8, <1>9 DEF Gathered
<1>11. QED
    BY <1>4, <1>10 DEF w

\* FlattenSeq puts the parts one behind the other.
LEMMA FlattenGathers ==
    ASSUME NEW parts \in Seq(Seq(Octets)), \A k \in 1 .. Len(parts) : parts[k] # <<>>
    PROVE  \E start : Gathered(FlattenSeq(parts), start, parts, Len(parts))
<1> DEFINE K == Len(parts)
           Joined == Seq(Octets)
           join == [n \in 1 .. K |-> [x \in Joined |-> x \o parts[n]]]
           Step(g) == [n \in 1 .. K |-> IF n = 1 THEN parts[n] ELSE g[n - 1] \o parts[n]]
           b == CHOOSE g : g = Step(g)
           upTo == [n \in 0 .. K |-> IF n = 0 THEN <<>> ELSE b[n]]
           S == {n \in 0 .. K : \E start : Gathered(upTo[n], start, parts, n)}
<1>1. K \in Nat /\ \A n \in 1 .. K : parts[n] \in Joined /\ parts[n] # <<>>
    BY LenProperties, ElementOfSeq
<1>2. <<>> \in Joined /\ \A x \in Joined : <<>> \o x = x
    OBVIOUS
<1>3. StepsWithin(join, K, Joined)
  <2>1. \A n \in 1 .. K : \A x \in Joined : x \o parts[n] \in Joined
      BY <1>1, ConcatProperties
  <2>2. QED
      BY <2>1 DEF StepsWithin
<1>4. PICK h : IteratesWithin(h, <<>>, join, K, Joined)
    BY <1>1, <1>2, <1>3, RecursionExists
<1>5. h[0] = <<>> /\ \A n \in 1 .. K : h[n] = h[n - 1] \o parts[n]
  <2>1. \A n \in 1 .. K : n - 1 \in 0 .. K /\ h[n - 1] \in Joined
      BY <1>1, <1>4 DEF IteratesWithin
  <2> HIDE DEF Joined, K
  <2>2. QED
      BY <1>4, <2>1 DEF IteratesWithin
<1> DEFINE g == [n \in 1 .. K |-> h[n]]
<1>6. g = Step(g)
  <2>1. \A n \in 1 .. K : g[n] = IF n = 1 THEN parts[n] ELSE g[n - 1] \o parts[n]
    <3> SUFFICES ASSUME NEW n \in 1 .. K
                 PROVE  g[n] = IF n = 1 THEN parts[n] ELSE g[n - 1] \o parts[n]
        OBVIOUS
    <3>1. CASE n = 1
      <4>1. 1 \in 1 .. K /\ 1 - 1 = 0
          BY <3>1
      <4>2. h[1] = h[1 - 1] \o parts[1] /\ parts[1] \in Joined
          BY <1>1, <1>5, <4>1
      <4>3. h[1] = parts[1]
          BY <1>2, <1>5, <4>1, <4>2
      <4>4. QED
          BY <3>1, <4>3
    <3>2. CASE n # 1
      <4>1. n - 1 \in 1 .. K
          BY <1>1, <3>2
      <4>2. QED
          BY <1>5, <3>2, <4>1
    <3>3. QED
        BY <3>1, <3>2
  <2>2. g = [n \in 1 .. K |-> g[n]]
      OBVIOUS
  <2> HIDE DEF g
  <2>3. QED
      BY <2>1, <2>2
<1>7. b = Step(b)
  <2> HIDE DEF g, Step
  <2>1. QED
      BY <1>6
<1>8. K # 0 => FlattenSeq(parts) = b[K]
    BY DEF FlattenSeq
<1>9. K = 0 => FlattenSeq(parts) = <<>>
    BY EmptySeq DEF FlattenSeq
<1> HIDE DEF b
<1>10. \A n \in 1 .. K : b[n] = IF n = 1 THEN parts[n] ELSE b[n - 1] \o parts[n]
    BY <1>7
<1>11. /\ upTo[0] = <<>>
       /\ \A n \in 1 .. K : upTo[n] = upTo[n - 1] \o parts[n]
       /\ FlattenSeq(parts) = upTo[K]
  <2>1. upTo[0] = <<>> /\ \A n \in 1 .. K : upTo[n] = b[n]
      BY <1>1
  <2>2. ASSUME NEW n \in 1 .. K PROVE upTo[n] = upTo[n - 1] \o parts[n]
    <3>1. CASE n = 1
      <4>1. 1 \in 1 .. K /\ 1 - 1 = 0
          BY <3>1
      <4>2. b[1] = parts[1] /\ <<>> \o parts[1] = parts[1]
          BY <1>1, <1>2, <1>10, <4>1
      <4>3. upTo[1] = b[1] /\ upTo[1 - 1] = <<>>
          BY <2>1, <4>1
      <4>4. QED
          BY <3>1, <4>2, <4>3
    <3>2. CASE n # 1
      <4>1. n - 1 \in 1 .. K
          BY <1>1, <3>2
      <4>2. QED
          BY <1>10, <2>1, <3>2, <4>1
    <3>3. QED
        BY <3>1, <3>2
  <2>3. FlattenSeq(parts) = upTo[K]
      BY <1>1, <1>8, <1>9, <2>1
  <2>4. QED
      BY <2>1, <2>2, <2>3
<1> HIDE DEF upTo
<1>12. 0 \in S
  <2>1. Gathered(upTo[0], [k \in 1 .. 1 |-> 0], parts, 0)
      BY <1>11, GatherNone
  <2>2. 0 \in 0 .. K
      BY <1>1
  <2>3. QED
      BY <2>1, <2>2
<1>13. ASSUME NEW n \in 1 .. K, n - 1 \in S
       PROVE  n \in S
  <2>1. PICK start : Gathered(upTo[n - 1], start, parts, n - 1)
      BY <1>13
  <2>2. n - 1 \in Nat /\ n - 1 + 1 = n /\ n \in 0 .. K
      BY <1>1
  <2>3. \E s : Gathered(upTo[n - 1] \o parts[n], s, parts, n - 1 + 1)
      BY <1>1, <2>1, <2>2, GatherOne
  <2>4. QED
      BY <1>11, <2>2, <2>3
<1> HIDE DEF S
<1>14. \A n \in 0 .. K : n \in S
    BY <1>1, <1>12, <1>13, InductionUpTo
<1>15. K \in S
    BY <1>1, <1>14
<1>16. QED
    BY <1>11, <1>15 DEF S

\* A byte of a payload stands for one byte on the line, or for two that start
\* with ESC; the end of a frame is none of them.
Encodes(s) == [k \in DOMAIN s |-> Encode(s[k])]
Escapes(data) == [k \in DOMAIN data |-> Escaped(data[k])]
StoredByte(b) == CASE b = "END" -> "ESC_END" [] b = "ESC" -> "ESC_ESC" [] OTHER -> b
Plain(b) == b \notin {"END", "ESC"}

LEMMA EscapedIs ==
    ASSUME NEW b \in Octets
    PROVE  /\ Escaped(b) \in Seq(Octets) /\ Escaped(b) # <<>>
           /\ StoredByte(b) \in Octets /\ Plain(StoredByte(b))
           /\ Plain(b) => Len(Escaped(b)) = 1 /\ Escaped(b)[1] = StoredByte(b)
           /\ ~Plain(b) => /\ Len(Escaped(b)) = 2
                           /\ Escaped(b)[1] = "ESC" /\ Escaped(b)[2] = StoredByte(b)
<1>1. CASE b = "END"
    BY <1>1 DEF Escaped, StoredByte, Plain, Octets
<1>2. CASE b = "ESC"
    BY <1>2 DEF Escaped, StoredByte, Plain, Octets
<1>3. CASE Plain(b)
  <2>1. Escaped(b) = <<b>> /\ StoredByte(b) = b
      BY <1>3 DEF Escaped, StoredByte, Plain
  <2>2. QED
      BY <1>3, <2>1
<1>4. QED
    BY <1>1, <1>2, <1>3 DEF Plain

LEMMA BodyGathers ==
    ASSUME NEW data \in Seq(Octets)
    PROVE  \E inner : Gathered(Body(data), inner, Escapes(data), Len(data))
<1>1. Len(data) \in Nat /\ DOMAIN data = 1 .. Len(data) /\ \A k \in 1 .. Len(data) : data[k] \in Octets
    BY LenProperties, ElementOfSeq
<1>2. \A k \in 1 .. Len(data) : /\ Escapes(data)[k] \in Seq(Octets)
                                /\ Escapes(data)[k] # <<>>
    BY <1>1, EscapedIs DEF Escapes
<1>3. /\ Escapes(data) = [k \in 1 .. Len(data) |-> Escapes(data)[k]]
      /\ Escapes(data) \in Seq(Seq(Octets)) /\ Len(Escapes(data)) = Len(data)
  <2>1. Escapes(data) = [k \in 1 .. Len(data) |-> Escapes(data)[k]]
      BY <1>1 DEF Escapes
  <2>2. Escapes(data) \in Seq(Seq(Octets))
      BY <1>1, <1>2, <2>1, IsASeq
  <2>3. QED
      BY <1>1, <2>1, <2>2
<1>4. \E inner : Gathered(FlattenSeq(Escapes(data)), inner, Escapes(data), Len(Escapes(data)))
    BY <1>2, <1>3, FlattenGathers
<1>5. Body(data) = FlattenSeq(Escapes(data))
    BY DEF Body, Escapes
<1>6. QED
    BY <1>3, <1>4, <1>5

LEMMA EncodeIs ==
    ASSUME NEW data \in Seq(Octets)
    PROVE  /\ Encode(data) \in Seq(Octets) /\ Body(data) \in Seq(Octets)
           /\ Len(Body(data)) \in Nat
           /\ Len(Encode(data)) = Len(Body(data)) + 2
           /\ Encode(data)[1] = "END" /\ Encode(data)[Len(Body(data)) + 2] = "END"
           /\ \A j \in 1 .. Len(Body(data)) : Encode(data)[j + 1] = Body(data)[j]
<1> DEFINE e == <<"END">>
           body == Body(data)
           L == Len(body)
           open == e \o body
           whole == open \o e
<1>1. body \in Seq(Octets) /\ L \in Nat
    BY BodyGathers, LenProperties DEF Gathered
<1>2. e \in Seq(Octets) /\ Len(e) = 1 /\ e[1] = "END"
    BY DEF Octets
<1> HIDE DEF body, e
<1>3. /\ open \in Seq(Octets) /\ Len(open) = 1 + L
      /\ \A i \in 1 .. 1 + L : open[i] = IF i <= 1 THEN e[i] ELSE body[i - 1]
  <2>1. /\ open \in Seq(Octets) /\ Len(open) = Len(e) + Len(body)
        /\ \A i \in 1 .. Len(e) + Len(body) :
              open[i] = IF i <= Len(e) THEN e[i] ELSE body[i - Len(e)]
      BY <1>1, <1>2, ConcatProperties
  <2>2. QED
      BY <1>2, <2>1
<1> HIDE DEF open
<1>4. /\ whole \in Seq(Octets) /\ Len(whole) = L + 2
      /\ \A i \in 1 .. L + 2 : whole[i] = IF i <= 1 + L THEN open[i] ELSE e[i - (1 + L)]
  <2>1. /\ whole \in Seq(Octets) /\ Len(whole) = Len(open) + Len(e)
        /\ \A i \in 1 .. Len(open) + Len(e) :
              whole[i] = IF i <= Len(open) THEN open[i] ELSE e[i - Len(open)]
      BY <1>2, <1>3, ConcatProperties
  <2> HIDE DEF whole
  <2>2. Len(open) + Len(e) = L + 2
      BY <1>1, <1>2, <1>3
  <2>3. QED
      BY <1>1, <1>3, <2>1, <2>2
<1>5. Encode(data) = whole
    BY DEF Encode, whole, open, body, e
<1> HIDE DEF whole, L
<1>6. whole[1] = "END" /\ whole[L + 2] = "END"
  <2>1. 1 \in 1 .. L + 2 /\ 1 <= 1 + L /\ 1 \in 1 .. 1 + L
      BY <1>1
  <2>2. L + 2 \in 1 .. L + 2 /\ ~(L + 2 <= 1 + L) /\ L + 2 - (1 + L) = 1
      BY <1>1
  <2>3. whole[1] = open[1] /\ open[1] = e[1]
      BY <1>3, <1>4, <2>1
  <2>4. whole[L + 2] = e[1]
      BY <1>1, <1>4, <2>2
  <2>5. QED
      BY <1>2, <2>3, <2>4
<1>7. ASSUME NEW j \in 1 .. L PROVE whole[j + 1] = body[j]
  <2>1. j + 1 \in 1 .. L + 2 /\ j + 1 <= 1 + L /\ j + 1 \in 1 .. 1 + L /\ ~(j + 1 <= 1) /\ j + 1 - 1 = j
      BY <1>1
  <2>2. QED
      BY <1>3, <1>4, <2>1
<1>8. QED
    BY <1>1, <1>4, <1>5, <1>6, <1>7 DEF L, body

LEMMA StoredIs ==
    ASSUME NEW data \in Seq(Octets)
    PROVE  /\ Stored(data) \in Seq(Octets) /\ Len(Stored(data)) = Len(data)
           /\ Len(data) \in Nat
           /\ \A k \in 1 .. Len(data) : data[k] \in Octets /\ Stored(data)[k] = StoredByte(data[k])
<1>1. Len(data) \in Nat /\ DOMAIN data = 1 .. Len(data) /\ \A k \in 1 .. Len(data) : data[k] \in Octets
    BY LenProperties, ElementOfSeq
<1>2. Stored(data) = [k \in 1 .. Len(data) |-> StoredByte(data[k])]
    BY <1>1 DEF Stored, StoredByte
<1>3. \A k \in 1 .. Len(data) : StoredByte(data[k]) \in Octets
    BY <1>1, EscapedIs
<1>4. Stored(data) \in Seq(Octets)
    BY <1>1, <1>2, <1>3, IsASeq
<1>5. QED
    BY <1>1, <1>2, <1>4

\* Within a frame the decoder has taken the first pos bytes of the body: it
\* holds the first bytes of the payload, and may have seen the ESC of the next.
Decoders == [parsing : BOOLEAN, escape : BOOLEAN, data : Seq(Octets)]
Taken(d, data, pos, m, inner) ==
    /\ Gathered(Body(data), inner, Escapes(data), Len(data))
    /\ d.data = Prefix(Stored(data), m)
    /\ \/ pos = inner[m + 1]
       \/ m < Len(data) /\ ~Plain(data[m + 1]) /\ pos = inner[m + 1] + 1
InPayload(d, data, pos) == \E m \in 0 .. Len(data) : \E inner : Taken(d, data, pos, m, inner)

\* Where the bytes of a payload lie in the body.
LEMMA PlaceInBody ==
    ASSUME NEW data \in Seq(Octets), NEW inner,
           Gathered(Body(data), inner, Escapes(data), Len(data)),
           NEW k \in 1 .. Len(data)
    PROVE  /\ inner[k] \in Nat /\ inner[k + 1] \in Nat /\ inner[k + 1] <= Len(Body(data))
           /\ Plain(data[k]) => inner[k + 1] = inner[k] + 1
           /\ ~Plain(data[k]) => inner[k + 1] = inner[k] + 2
           /\ Encode(data)[inner[k] + 2] = Escaped(data[k])[1]
           /\ ~Plain(data[k]) => Encode(data)[inner[k] + 3] = Escaped(data[k])[2]
<1> DEFINE n == Len(data)
           L == Len(Body(data))
<1>1. /\ n \in Nat /\ DOMAIN data = 1 .. n /\ data[k] \in Octets
      /\ k \in 1 .. n + 1 /\ k + 1 \in 1 .. n + 1 /\ n + 1 \in 1 .. n + 1
    BY LenProperties, ElementOfSeq
<1>2. Escapes(data)[k] = Escaped(data[k])
    BY <1>1 DEF Escapes
<1>3. /\ inner \in [1 .. n + 1 -> Nat] /\ inner[n + 1] = L
      /\ inner[k + 1] = inner[k] + Len(Escaped(data[k]))
      /\ \A i, l \in 1 .. n + 1 : i < l => inner[i] < inner[l]
      /\ \A j \in 1 .. Len(Escaped(data[k])) : Body(data)[inner[k] + j] = Escaped(data[k])[j]
    BY <1>2 DEF Gathered
<1> HIDE DEF n, L
<1>4. inner[k] \in Nat /\ inner[k + 1] \in Nat /\ inner[n + 1] \in Nat /\ L \in Nat
    BY <1>1, <1>3
<1>5. inner[k + 1] <= L
  <2>1. k + 1 = n + 1 \/ k + 1 < n + 1
      BY <1>1
  <2>2. CASE k + 1 = n + 1
      BY <1>3, <1>4, <2>2
  <2>3. CASE k + 1 < n + 1
    <3>1. inner[k + 1] < inner[n + 1]
        BY <1>1, <1>3, <2>3
    <3>2. QED
        BY <1>3, <1>4, <3>1
  <2>4. QED
      BY <2>1, <2>2, <2>3
<1>6. \A j \in 1 .. L : Encode(data)[j + 1] = Body(data)[j]
    BY EncodeIs DEF L
<1>7. CASE Plain(data[k])
  <2>1. Len(Escaped(data[k])) = 1
      BY <1>1, <1>7, EscapedIs
  <2>2. inner[k + 1] = inner[k] + 1 /\ Body(data)[inner[k] + 1] = Escaped(data[k])[1]
      BY <1>3, <2>1
  <2>3. inner[k] + 1 \in 1 .. L /\ inner[k] + 1 + 1 = inner[k] + 2
      BY <1>4, <1>5, <2>2
  <2>4. Encode(data)[inner[k] + 2] = Escaped(data[k])[1]
      BY <1>6, <2>2, <2>3
  <2>5. QED
      BY <1>4, <1>5, <1>7, <2>2, <2>4 DEF L
<1>8. CASE ~Plain(data[k])
  <2>1. Len(Escaped(data[k])) = 2
      BY <1>1, <1>8, EscapedIs
  <2>2. /\ inner[k + 1] = inner[k] + 2 /\ Body(data)[inner[k] + 1] = Escaped(data[k])[1]
        /\ Body(data)[inner[k] + 2] = Escaped(data[k])[2]
      BY <1>3, <2>1
  <2>3. /\ inner[k] + 1 \in 1 .. L /\ inner[k] + 1 + 1 = inner[k] + 2
        /\ inner[k] + 2 \in 1 .. L /\ inner[k] + 2 + 1 = inner[k] + 3
    <3>1. \A x, l \in Nat : x + 2 <= l =>
              /\ x + 1 \in 1 .. l /\ x + 1 + 1 = x + 2
              /\ x + 2 \in 1 .. l /\ x + 2 + 1 = x + 3
        OBVIOUS
    <3>2. inner[k] + 2 <= L
        BY <1>5, <2>2
    <3>3. QED
        BY <1>4, <3>1, <3>2
  <2>4. /\ Encode(data)[inner[k] + 2] = Escaped(data[k])[1]
        /\ Encode(data)[inner[k] + 3] = Escaped(data[k])[2]
      BY <1>6, <2>2, <2>3
  <2>5. QED
      BY <1>4, <1>5, <1>8, <2>2, <2>4 DEF L
<1>9. QED
    BY <1>7, <1>8

\* What the decoder makes of a byte.
LEMMA DecodedIs ==
    ASSUME NEW d \in Decoders, d.parsing, NEW b \in Octets, ~NoRoom(d, b)
    PROVE  /\ Decoded(d, b) \in Decoders
           /\ b = "END" => ~Decoded(d, b).parsing
           /\ b = "ESC" => Decoded(d, b).parsing /\ Decoded(d, b).data = d.data
           /\ Plain(b) => Decoded(d, b).parsing /\ Decoded(d, b).data = Append(d.data, b)
<1>1. CASE b = "END"
    BY <1>1 DEF Decoded, Decoders, Plain
<1>2. CASE b = "ESC"
    BY <1>2 DEF Decoded, Decoders, Plain
<1>3. CASE Plain(b)
  <2>1. Decoded(d, b) = [d EXCEPT !.data = Append(@, b), !.escape = FALSE]
      BY <1>3 DEF Decoded, Plain, Unescaped
  <2>2. d.data \in Seq(Octets)
      BY DEF Decoders
  <2>3. Append(d.data, b) \in Seq(Octets)
      BY <2>2, AppendProperties
  <2>4. QED
      BY <1>3, <2>1, <2>3 DEF Decoders, Plain
<1>4. QED
    BY <1>1, <1>2, <1>3 DEF Plain

LEMMA PayloadByte ==
    ASSUME NEW d \in Decoders, d.parsing, NEW data \in Seq(Octets), NEW pos \in Int,
           InPayload(d, data, pos), NEW b \in Octets, ~NoRoom(d, b)
    PROVE  /\ pos \in 0 .. Len(Body(data))
           /\ b = Encode(data)[pos + 2] =>
                 \/ b = "END" /\ pos = Len(Body(data)) /\ d.data = Stored(data)
                 \/ b # "END" /\ Decoded(d, b).parsing /\ InPayload(Decoded(d, b), data, pos + 1)
<1> DEFINE n == Len(data)
           L == Len(Body(data))
           e == Decoded(d, b)
<1>0. PICK m \in 0 .. n : \E inner : Taken(d, data, pos, m, inner)
    BY DEF InPayload
<1>1. PICK inner : Taken(d, data, pos, m, inner)
    BY <1>0
<1>2. /\ Gathered(Body(data), inner, Escapes(data), n)
      /\ d.data = Prefix(Stored(data), m)
      /\ \/ pos = inner[m + 1]
         \/ m < n /\ ~Plain(data[m + 1]) /\ pos = inner[m + 1] + 1
    BY <1>1 DEF Taken
<1>3. /\ n \in Nat /\ Stored(data) \in Seq(Octets) /\ Len(Stored(data)) = n
      /\ \A k \in 1 .. n : data[k] \in Octets /\ Stored(data)[k] = StoredByte(data[k])
      /\ L \in Nat /\ Encode(data)[L + 2] = "END"
    BY StoredIs, EncodeIs
<1>4. CASE m = n
  <2>1. pos = inner[n + 1]
      BY <1>2, <1>3, <1>4
  <2>2. pos = L
      BY <1>2, <2>1 DEF Gathered
  <2>3. Prefix(Stored(data), n) = Stored(data)
    <3>1. /\ Prefix(Stored(data), n) \in Seq(Octets) /\ Len(Prefix(Stored(data), n)) = n
        BY <1>3, PrefixGrows
    <3>2. \A i \in 1 .. n : Prefix(Stored(data), n)[i] = Stored(data)[i]
        BY DEF Prefix
    <3>3. QED
        BY <1>3, <3>1, <3>2, SeqEqual
  <2>4. QED
      BY <1>2, <1>3, <1>4, <2>2, <2>3
<1>5. CASE m # n
  <2> DEFINE k == m + 1
             c == data[k]
  <2>1. k \in 1 .. n /\ m < n /\ m \in 0 .. n
      BY <1>3, <1>5
  <2>2. /\ inner[k] \in Nat /\ inner[k + 1] \in Nat /\ inner[k + 1] <= L
        /\ Plain(c) => inner[k + 1] = inner[k] + 1
        /\ ~Plain(c) => inner[k + 1] = inner[k] + 2
        /\ Encode(data)[inner[k] + 2] = Escaped(c)[1]
        /\ ~Plain(c) => Encode(data)[inner[k] + 3] = Escaped(c)[2]
      BY <1>2, <2>1, PlaceInBody
  <2>3. /\ c \in Octets /\ StoredByte(c) \in Octets /\ Plain(StoredByte(c))
        /\ Plain(c) => Escaped(c)[1] = StoredByte(c)
        /\ ~Plain(c) => Escaped(c)[1] = "ESC" /\ Escaped(c)[2] = StoredByte(c)
      BY <1>3, <2>1, EscapedIs
  <2>4. pos = inner[k] \/ (~Plain(c) /\ pos = inner[k] + 1)
      BY <1>2
  <2>5. pos \in 0 .. L
    <3>1. L \in Nat
        BY <1>3
    <3>2. CASE pos = inner[k]
      <4>1. inner[k] <= L
          BY <2>2, <3>1
      <4>2. QED
          BY <2>2, <3>1, <3>2, <4>1
    <3>3. CASE ~Plain(c) /\ pos = inner[k] + 1
      <4>1. inner[k] + 2 <= L
          BY <2>2, <3>3
      <4>2. QED
          BY <2>2, <3>1, <3>3, <4>1
    <3>4. QED
        BY <2>4, <3>2, <3>3
  <2> SUFFICES ASSUME b = Encode(data)[pos + 2]
               PROVE  b # "END" /\ e.parsing /\ InPayload(e, data, pos + 1)
      BY <2>5
  <2>6. Append(Prefix(Stored(data), m), StoredByte(c)) = Prefix(Stored(data), k)
      BY <1>3, <2>1, PrefixGrows
  <2>7. ASSUME b = StoredByte(c), pos + 1 = inner[k + 1]
        PROVE  b # "END" /\ e.parsing /\ InPayload(e, data, pos + 1)
    <3>1. e.parsing /\ e.data = Append(d.data, b) /\ b # "END"
        BY <2>3, <2>7, DecodedIs DEF Plain
    <3>2. Taken(e, data, pos + 1, k, inner)
        BY <1>2, <2>6, <2>7, <3>1 DEF Taken
    <3>3. k \in 0 .. n
        BY <2>1
    <3>4. QED
        BY <3>1, <3>2, <3>3 DEF InPayload
  <2>8. CASE pos = inner[k] /\ Plain(c)
    <3>1. b = StoredByte(c) /\ pos + 1 = inner[k + 1]
        BY <2>2, <2>3, <2>8
    <3>2. QED
        BY <2>7, <3>1
  <2>9. CASE pos = inner[k] /\ ~Plain(c)
    <3>1. b = "ESC"
        BY <2>2, <2>3, <2>9
    <3>2. e.parsing /\ e.data = d.data
        BY <3>1, DecodedIs
    <3>3. Taken(e, data, pos + 1, m, inner)
        BY <1>2, <2>1, <2>9, <3>2 DEF Taken
    <3>4. QED
        BY <3>1, <3>2, <3>3 DEF InPayload
  <2>10. CASE pos = inner[k] + 1 /\ ~Plain(c)
    <3>1. pos + 2 = inner[k] + 3 /\ pos + 1 = inner[k + 1]
        BY <2>2, <2>10
    <3>2. b = StoredByte(c)
        BY <2>2, <2>3, <2>10, <3>1
    <3>3. QED
        BY <2>7, <3>1, <3>2
  <2>11. QED
      BY <2>4, <2>8, <2>9, <2>10
<1>6. QED
    BY <1>4, <1>5

\* A frame that has begun.
LEMMA FrameBegins ==
    ASSUME NEW d \in Decoders, d.data = <<>>, NEW data \in Seq(Octets)
    PROVE  InPayload(d, data, 0)
<1>1. PICK inner : Gathered(Body(data), inner, Escapes(data), Len(data))
    BY BodyGathers
<1>2. inner[0 + 1] = 0
    BY <1>1 DEF Gathered
<1>3. Prefix(Stored(data), 0) = <<>>
  <2>1. Len(data) \in Nat /\ Stored(data) \in Seq(Octets) /\ Len(Stored(data)) = Len(data)
      BY StoredIs
  <2>2. 0 \in 0 .. Len(Stored(data))
      BY <2>1
  <2>3. Prefix(Stored(data), 0) \in Seq(Octets) /\ Len(Prefix(Stored(data), 0)) = 0
      BY <2>1, <2>2, PrefixGrows
  <2>4. QED
      BY <2>3, EmptySeq
<1>4. Taken(d, data, 0, 0, inner)
    BY <1>1, <1>2, <1>3 DEF Taken
<1>5. 0 \in 0 .. Len(data)
    BY LenProperties
<1>6. QED
    BY <1>4, <1>5 DEF InPayload

-----------------------------------------------------------------------------
(* The invariant.  All bytes ever sent are one stream: the first Passed of    *)
(* them have left the ring, the next ones are in the ring from its head on, *)
(* the rest are on the line; and the decoder has taken all that have left   *)
(* the ring but the one the reader holds.                                   *)

Slot(h, j) == IF h + j < RingSize THEN h + j ELSE h + j - RingSize

Rings == [buff : [0 .. RingSize - 1 -> Octets], head : 0 .. RingSize - 1,
          tail : 0 .. RingSize - 1, len : 0 .. RingSize]
Readers == [at : {"idle", "blocked", "popping", "taken", "loaded", "read"},
            byte : Octets, len : 0 .. RingSize]
SerialTypes ==
    /\ sent \in Seq(Payloads) /\ line \in Seq(Octets)
    /\ ring \in Rings /\ unread \in Nat /\ reader \in Readers
    /\ decoder \in Decoders /\ decoded \in Seq(Seq(Octets))

\* m_len never says more than there is: it counts the byte the reader is about
\* to subtract, and misses those that came while it subtracted.
Counted ==
    /\ unread <= RingSize
    /\ ring.tail = Slot(ring.head, unread)
    /\ reader.at \in {"popping", "taken"} => 1 <= ring.len
    /\ reader.at = "loaded" => 1 <= reader.len /\ reader.len <= unread + 1
    /\ reader.at \in {"taken", "loaded"} => ring.len <= unread + 1
    /\ reader.at \notin {"taken", "loaded"} => ring.len <= unread

Holding == reader.at \in {"taken", "loaded", "read"}
Passed(stream) == Len(stream) - Len(line) - unread
Piped(stream) ==
    /\ Passed(stream) >= 0
    /\ \A j \in 1 .. Len(line) : line[j] = stream[Passed(stream) + unread + j]
    /\ \A j \in 0 .. unread - 1 : ring.buff[Slot(ring.head, j)] = stream[Passed(stream) + 1 + j]
    /\ Holding => Passed(stream) >= 1 /\ reader.byte = stream[Passed(stream)]

DecodedUpTo(start, pos) ==
    /\ Len(decoded) <= Len(sent)
    /\ \A k \in 1 .. Len(decoded) : decoded[k] = Stored(sent[k])
    /\ ~decoder.parsing => pos = start[Len(decoded) + 1]
    /\ decoder.parsing =>
           /\ Len(decoded) < Len(sent)
           /\ InPayload(decoder, sent[Len(decoded) + 1], pos - start[Len(decoded) + 1] - 1)

Streamed(stream, start) == Gathered(stream, start, Encodes(sent), Len(sent))
InPhase(stream, start) ==
    /\ Streamed(stream, start)
    /\ Piped(stream)
    /\ DecodedUpTo(start, IF Holding THEN Passed(stream) - 1 ELSE Passed(stream))
SerialInv == SerialTypes /\ (~slipped => Counted /\ \E stream, start : InPhase(stream, start))

LEMMA SentAre ==
    ASSUME SerialTypes
    PROVE  /\ Len(sent) \in Nat /\ DOMAIN sent = 1 .. Len(sent)
           /\ \A k \in 1 .. Len(sent) : sent[k] \in Seq(Octets) /\ Encodes(sent)[k] = Encode(sent[k])
<1>1. /\ Len(sent) \in Nat /\ DOMAIN sent = 1 .. Len(sent)
      /\ \A k \in 1 .. Len(sent) : sent[k] \in Payloads
    BY LenProperties, ElementOfSeq DEF SerialTypes
<1>2. QED
    BY <1>1, SerialAssumption DEF Encodes

\* The byte at a position within a frame.
LEMMA ByteOfFrame ==
    ASSUME SerialTypes, NEW stream, NEW start, Streamed(stream, start),
           NEW k \in 1 .. Len(sent), NEW j \in 1 .. Len(Body(sent[k])) + 2
    PROVE  /\ start[k] \in Nat /\ start[k + 1] = start[k] + Len(Body(sent[k])) + 2
           /\ Len(Body(sent[k])) \in Nat
           /\ stream[start[k] + j] = Encode(sent[k])[j]
<1>1. Encodes(sent)[k] = Encode(sent[k]) /\ sent[k] \in Seq(Octets) /\ Len(sent) \in Nat
    BY SentAre
<1>2. Len(Encode(sent[k])) = Len(Body(sent[k])) + 2 /\ Len(Body(sent[k])) \in Nat
    BY <1>1, EncodeIs
<1>3. k \in 1 .. Len(sent) + 1
    BY <1>1
<1>4. /\ start[k] \in Nat /\ start[k + 1] = start[k] + Len(Encode(sent[k]))
      /\ \A i \in 1 .. Len(Encode(sent[k])) : stream[start[k] + i] = Encode(sent[k])[i]
    BY <1>1, <1>3 DEF Streamed, Gathered
<1>5. stream[start[k] + j] = Encode(sent[k])[j]
    BY <1>2, <1>4
<1>6. start[k + 1] = start[k] + Len(Body(sent[k])) + 2
  <2> DEFINE L == Len(Body(sent[k]))
  <2>1. start[k + 1] = start[k] + (L + 2) /\ L \in Nat /\ start[k] \in Nat
      BY <1>2, <1>4
  <2>2. \A x, l \in Nat : x + (l + 2) = x + l + 2
      OBVIOUS
  <2> HIDE DEF L
  <2>3. start[k + 1] = start[k] + L + 2
      BY <2>1, <2>2
  <2>4. QED
      BY <2>3 DEF L
<1>7. QED
    BY <1>2, <1>4, <1>5, <1>6

LEMMA NowDecoded ==
    ASSUME NEW start, NEW pos,
           Len(decoded') <= Len(sent'),
           \A k \in 1 .. Len(decoded') : decoded'[k] = Stored(sent'[k]),
           ~decoder'.parsing => pos = start[Len(decoded') + 1],
           decoder'.parsing => Len(decoded') < Len(sent'),
           decoder'.parsing =>
               InPayload(decoder', sent'[Len(decoded') + 1], pos - start[Len(decoded') + 1] - 1)
    PROVE  DecodedUpTo(start, pos)'
BY DEF DecodedUpTo

\* The decoder takes a byte of the stream.
LEMMA DecodeKeeps ==
    ASSUME SerialTypes, NEW stream, NEW start, Streamed(stream, start),
           NEW pos \in 0 .. Len(stream) - 1, NEW next, next = pos + 1,
           DecodedUpTo(start, pos), reader.byte = stream[next], ~NoRoom(decoder, reader.byte),
           decoder' = Decoded(decoder, reader.byte),
           decoded' = IF Complete(decoder, reader.byte) THEN Append(decoded, decoder.data) ELSE decoded,
           sent' = sent
    PROVE  DecodedUpTo(start, next)'
<1> DEFINE n == Len(decoded)
           b == reader.byte
           data == sent[n + 1]
<1>1. /\ n \in Nat /\ b \in Octets /\ decoder \in Decoders /\ decoded \in Seq(Seq(Octets))
      /\ Len(sent) \in Nat /\ n <= Len(sent) /\ decoder.data \in Seq(Octets)
      /\ \A k \in 1 .. n : decoded[k] = Stored(sent[k])
    BY LenProperties, SentAre DEF SerialTypes, DecodedUpTo, Decoders, Rings, Readers
<1>2. CASE ~decoder.parsing
  <2>1. pos = start[n + 1]
      BY <1>2 DEF DecodedUpTo
  <2>2. n # Len(sent)
    <3>1. start[Len(sent) + 1] = Len(stream)
        BY DEF Streamed, Gathered
    <3>2. Len(stream) \in Nat
        BY LenProperties DEF Streamed, Gathered
    <3>3. pos # Len(stream)
        BY <3>2
    <3>4. QED
        BY <2>1, <3>1, <3>3
  <2>3. n + 1 \in 1 .. Len(sent) /\ n < Len(sent)
      BY <1>1, <2>2
  <2>4. data \in Seq(Octets)
      BY <2>3, SentAre
  <2>5. Len(Body(data)) \in Nat /\ Encode(data)[1] = "END"
      BY <2>4, EncodeIs
  <2>6. b = "END"
    <3>1. 1 \in 1 .. Len(Body(data)) + 2
        BY <2>5
    <3>2. \A k \in 1 .. Len(sent) : \A j \in 1 .. Len(Body(sent[k])) + 2 :
              stream[start[k] + j] = Encode(sent[k])[j]
        BY ByteOfFrame
    <3>3. stream[start[n + 1] + 1] = Encode(data)[1]
        BY <2>3, <3>1, <3>2
    <3>4. QED
        BY <2>1, <2>5, <3>3
  <2>7. /\ decoder' = [parsing |-> TRUE, escape |-> FALSE, data |-> <<>>]
        /\ decoded' = decoded
      BY <1>2, <2>6 DEF Decoded, Complete
  <2>8. /\ decoder'.parsing /\ decoder'.data = <<>> /\ decoder' \in Decoders
      BY <2>7 DEF Decoders
  <2>9. InPayload(decoder', data, 0)
      BY <2>4, <2>8, FrameBegins
  <2>10. next - start[n + 1] - 1 = 0
      BY <2>1
  <2>11. InPayload(decoder', data, next - start[n + 1] - 1)
      BY <2>9, <2>10
  <2>12. decoded' = decoded /\ sent' = sent
      BY <2>7
  <2>13. decoder'.parsing
      BY <2>8
  <2>14. /\ Len(decoded') <= Len(sent')
         /\ \A k \in 1 .. Len(decoded') : decoded'[k] = Stored(sent'[k])
      BY <1>1, <2>12
  <2>15. /\ Len(decoded') < Len(sent')
         /\ InPayload(decoder', sent'[Len(decoded') + 1], next - start[Len(decoded') + 1] - 1)
      BY <2>3, <2>11, <2>12
  <2>16. QED
      BY <2>13, <2>14, <2>15, NowDecoded
<1>3. CASE decoder.parsing
  <2> DEFINE q == pos - start[n + 1] - 1
             L == Len(Body(data))
  <2>1. n < Len(sent) /\ InPayload(decoder, data, q)
      BY <1>3 DEF DecodedUpTo
  <2>2. n + 1 \in 1 .. Len(sent)
      BY <1>1, <2>1
  <2>3. data \in Seq(Octets)
      BY <2>2, SentAre
  <2>4. L \in Nat
      BY <2>3, EncodeIs
  <2>5. start[n + 1] \in Nat /\ start[n + 1 + 1] = start[n + 1] + L + 2
    <3>1. 1 \in 1 .. L + 2
        BY <2>4
    <3>2. QED
        BY <2>2, <3>1, ByteOfFrame
  <2>6. q \in Int /\ pos = start[n + 1] + 1 + q
      BY <2>5
  <2> HIDE DEF q, L
  <2>7. /\ q \in 0 .. L
        /\ b = Encode(data)[q + 2] =>
              \/ b = "END" /\ q = L /\ decoder.data = Stored(data)
              \/ b # "END" /\ Decoded(decoder, b).parsing /\ InPayload(Decoded(decoder, b), data, q + 1)
      BY <1>1, <1>3, <2>1, <2>3, <2>6, PayloadByte DEF L
  <2>8. b = Encode(data)[q + 2]
    <3>1. q + 2 \in 1 .. L + 2 /\ start[n + 1] + (q + 2) = next
      <4>1. q \in 0 .. L
          BY <2>7
      <4>2. q + 2 \in 1 .. L + 2
          BY <2>4, <4>1
      <4>3. start[n + 1] + (q + 2) = next
        <5>1. \A s \in Nat : pos = s + 1 + q => s + (q + 2) = next
            BY <2>6
        <5>2. start[n + 1] \in Nat /\ pos = start[n + 1] + 1 + q
            BY <2>5, <2>6
        <5>3. QED
            BY <5>1, <5>2, Zenon
      <4>4. QED
          BY <4>2, <4>3
    <3>2. stream[start[n + 1] + (q + 2)] = Encode(data)[q + 2]
      <4>1. PICK k, j : k = n + 1 /\ j = q + 2
          OBVIOUS
      <4>2. k \in 1 .. Len(sent) /\ j \in 1 .. Len(Body(sent[k])) + 2
          BY <2>2, <3>1, <4>1 DEF L
      <4>3. stream[start[k] + j] = Encode(sent[k])[j]
          BY <4>2, ByteOfFrame
      <4>4. QED
          BY <4>1, <4>3
    <3>3. QED
        BY <3>1, <3>2
  <2>9. CASE b = "END" /\ q = L /\ decoder.data = Stored(data)
    <3>1. ~decoder'.parsing /\ decoded' = Append(decoded, Stored(data))
        BY <1>1, <1>3, <2>9, DecodedIs DEF Complete
    <3>2. /\ Len(decoded') = n + 1 /\ decoded'[n + 1] = Stored(data)
          /\ \A k \in 1 .. n : decoded'[k] = decoded[k]
      <4>1. Stored(data) \in Seq(Octets)
          BY <2>3, StoredIs
      <4>2. QED
          BY <1>1, <3>1, <4>1, AppendProperties
    <3>3. \A k \in 1 .. n + 1 : decoded'[k] = Stored(sent[k])
      <4>1. \A k \in 1 .. n + 1 : k \in 1 .. n \/ k = n + 1
          BY <1>1
      <4>2. QED
          BY <1>1, <3>2, <4>1
    <3>4. next = start[n + 1 + 1] /\ n + 1 <= Len(sent)
      <4>1. \A s \in Nat : pos = s + 1 + L => next = s + L + 2
          BY <2>4
      <4>2. start[n + 1] \in Nat /\ pos = start[n + 1] + 1 + L
          BY <2>5, <2>6, <2>9
      <4>3. next = start[n + 1] + L + 2
          BY <4>1, <4>2, Zenon
      <4>4. n + 1 <= Len(sent)
          BY <1>1, <2>1
      <4>5. QED
          BY <2>5, <4>3, <4>4
    <3>5. QED
        BY <3>1, <3>2, <3>3, <3>4, NowDecoded
  <2>10. CASE b # "END" /\ Decoded(decoder, b).parsing /\ InPayload(Decoded(decoder, b), data, q + 1)
    <3>1. decoded' = decoded /\ decoder'.parsing
        BY <2>10 DEF Complete
    <3>2. next - start[n + 1] - 1 = q + 1
      <4>1. \A s \in Nat : pos = s + 1 + q => next - s - 1 = q + 1
          BY <2>6
      <4>2. start[n + 1] \in Nat /\ pos = start[n + 1] + 1 + q
          BY <2>5, <2>6
      <4>3. QED
          BY <4>1, <4>2, Zenon
    <3>3. InPayload(decoder', data, next - start[n + 1] - 1)
        BY <2>10, <3>2
    <3>4. n < Len(sent)
        BY <2>1
    <3>5. /\ Len(decoded') <= Len(sent')
          /\ \A k \in 1 .. Len(decoded') : decoded'[k] = Stored(sent'[k])
        BY <1>1, <3>1
    <3>6. /\ Len(decoded') < Len(sent')
          /\ InPayload(decoder', sent'[Len(decoded') + 1], next - start[Len(decoded') + 1] - 1)
        BY <3>1, <3>3, <3>4
    <3>7. QED
        BY <3>1, <3>5, <3>6, NowDecoded
  <2>11. QED
      BY <2>7, <2>8, <2>9, <2>10
<1>4. QED
    BY <1>2, <1>3

-----------------------------------------------------------------------------
(* The ring.                                                               *)

\* The slots of the unread bytes are different ones, and follow each other.
LEMMA RingSlots ==
    ASSUME NEW h \in 0 .. RingSize - 1
    PROVE  /\ \A j \in 0 .. RingSize : Slot(h, j) \in 0 .. RingSize - 1
           /\ \A j \in 0 .. RingSize - 1 : (Slot(h, j) + 1) % RingSize = Slot(h, j + 1)
           /\ Slot(h, 0) = h /\ Slot(h, RingSize) = h
           /\ \A i, j \in 0 .. RingSize - 1 : i # j => Slot(h, i) # Slot(h, j)
           /\ \A j \in 0 .. RingSize - 1 : Slot(Slot(h, 1), j) = Slot(h, j + 1)
<1>1. RingSize \in Nat \ {0}
    BY SerialAssumption
<1>2. \A x \in 0 .. RingSize - 1 : (x + 1) % RingSize = IF x + 1 = RingSize THEN 0 ELSE x + 1
    BY <1>1
<1>3. \A j \in 0 .. RingSize : Slot(h, j) \in 0 .. RingSize - 1
    BY <1>1 DEF Slot
<1>4. ASSUME NEW j \in 0 .. RingSize - 1
      PROVE  (Slot(h, j) + 1) % RingSize = Slot(h, j + 1)
  <2>1. Slot(h, j) \in 0 .. RingSize - 1
      BY <1>1, <1>3
  <2>2. (Slot(h, j) + 1) % RingSize = IF Slot(h, j) + 1 = RingSize THEN 0 ELSE Slot(h, j) + 1
      BY <1>2, <2>1
  <2>3. Slot(h, j + 1) = IF Slot(h, j) + 1 = RingSize THEN 0 ELSE Slot(h, j) + 1
      BY <1>1 DEF Slot
  <2>4. QED
      BY <2>2, <2>3
<1>5. Slot(h, 0) = h /\ Slot(h, RingSize) = h
    BY <1>1 DEF Slot
<1>6. \A i, j \in 0 .. RingSize - 1 : i # j => Slot(h, i) # Slot(h, j)
    BY <1>1 DEF Slot
<1>7. \A j \in 0 .. RingSize - 1 : Slot(Slot(h, 1), j) = Slot(h, j + 1)
    BY <1>1 DEF Slot
<1>8. QED
    BY <1>3, <1>4, <1>5, <1>6, <1>7

\* All that a step which leaves the stream and the decoder alone has to keep.
LEMMA PhaseKept ==
    ASSUME NEW stream, NEW start, InPhase(stream, start),
           UNCHANGED <<sent, decoder, decoded>>, Piped(stream)',
           (IF Holding THEN Passed(stream) - 1 ELSE Passed(stream))'
               = IF Holding THEN Passed(stream) - 1 ELSE Passed(stream)
    PROVE  InPhase(stream, start)'
<1> DEFINE Seen == IF Holding THEN Passed(stream) - 1 ELSE Passed(stream)
<1>1. PICK pos : pos = Seen
    OBVIOUS
<1>2. DecodedUpTo(start, pos) /\ Streamed(stream, start)
    BY <1>1 DEF InPhase
<1>3. DecodedUpTo(start, pos)' /\ Streamed(stream, start)'
    BY <1>2 DEF DecodedUpTo, Streamed, Encodes
<1>4. pos = Seen'
    BY <1>1
<1> HIDE DEF Seen
<1>5. DecodedUpTo(start, Seen)'
    BY <1>3, <1>4
<1>6. QED
    BY <1>3, <1>5 DEF InPhase, Seen

-----------------------------------------------------------------------------
(* The steps.                                                              *)

LEMMA SerialFields ==
    ASSUME SerialTypes
    PROVE  /\ RingSize \in Nat \ {0}
           /\ ring = [buff |-> ring.buff, head |-> ring.head, tail |-> ring.tail, len |-> ring.len]
           /\ ring.buff \in [0 .. RingSize - 1 -> Octets]
           /\ ring.head \in 0 .. RingSize - 1 /\ ring.tail \in 0 .. RingSize - 1
           /\ ring.len \in 0 .. RingSize
           /\ reader = [at |-> reader.at, byte |-> reader.byte, len |-> reader.len]
           /\ reader.byte \in Octets /\ reader.len \in 0 .. RingSize
           /\ unread \in Nat /\ line \in Seq(Octets) /\ Len(line) \in Nat
BY SerialAssumption, LenProperties DEF SerialTypes, Rings, Readers

\* The invariant, put together again after a step.
LEMMA SerialKept ==
    ASSUME NEW stream, NEW start, InPhase(stream, start)', SerialTypes', Counted'
    PROVE  SerialInv'
BY DEF SerialInv

LEMMA PipedSame ==
    ASSUME NEW stream, Piped(stream), UNCHANGED <<line, unread>>,
           ring'.buff = ring.buff, ring'.head = ring.head,
           Holding' => Holding /\ reader'.byte = reader.byte
    PROVE  Piped(stream)' /\ Passed(stream)' = Passed(stream)
BY DEF Piped, Passed

\* The steps of the reader that take no byte.
LEMMA ReaderStep ==
    ASSUME SerialInv, ~slipped, ReadByte \/ ReadBlocks \/ LoadLen \/ StoreLen
    PROVE  SerialInv'
<1>1. SerialTypes /\ Counted
    BY DEF SerialInv
<1>2. PICK stream, start : InPhase(stream, start)
    BY DEF SerialInv
<1>3. Piped(stream)
    BY <1>2 DEF InPhase
<1>4. UNCHANGED <<sent, line, unread, decoder, decoded, slipped>>
    BY DEF ReadByte, ReadBlocks, LoadLen, StoreLen
<1>5. /\ RingSize \in Nat \ {0}
      /\ ring = [buff |-> ring.buff, head |-> ring.head, tail |-> ring.tail, len |-> ring.len]
      /\ ring.len \in 0 .. RingSize /\ reader.len \in 0 .. RingSize /\ unread \in Nat
      /\ reader = [at |-> reader.at, byte |-> reader.byte, len |-> reader.len]
    BY <1>1, SerialFields
<1>6. ASSUME SerialTypes', Counted', ring'.buff = ring.buff, ring'.head = ring.head,
             Holding' <=> Holding, Holding => reader'.byte = reader.byte
      PROVE  SerialInv'
  <2>1. Piped(stream)' /\ Passed(stream)' = Passed(stream)
      BY <1>3, <1>4, <1>6, PipedSame
  <2>2. (IF Holding THEN Passed(stream) - 1 ELSE Passed(stream))'
            = IF Holding THEN Passed(stream) - 1 ELSE Passed(stream)
      BY <1>6, <2>1
  <2>3. InPhase(stream, start)'
      BY <1>2, <1>4, <2>1, <2>2, PhaseKept
  <2>4. QED
      BY <1>6, <2>3, SerialKept
<1>7. CASE ReadByte \/ ReadBlocks
  <2>1. /\ reader.at = "idle" /\ ring' = ring
        /\ \/ reader'.at = "popping" /\ ring.len >= 1
           \/ reader'.at = "blocked"
        /\ reader' \in [at : {"popping", "blocked"}, byte : Octets, len : 0 .. RingSize]
      BY <1>5, <1>7 DEF ReadByte, ReadBlocks, Idle, Octets
  <2>2. SerialTypes'
      BY <1>1, <1>4, <2>1 DEF SerialTypes, Rings, Readers
  <2>3. Counted'
      BY <1>1, <1>4, <2>1 DEF Counted, Slot
  <2>4. ~Holding /\ ~Holding'
      BY <2>1 DEF Holding
  <2>5. QED
      BY <1>6, <2>1, <2>2, <2>3, <2>4
<1>8. CASE LoadLen
  <2>1. /\ reader.at = "taken" /\ reader' = [reader EXCEPT !.at = "loaded", !.len = ring.len]
        /\ ring' = ring
      BY <1>8 DEF LoadLen
  <2>2. reader'.at = "loaded" /\ reader'.len = ring.len /\ reader'.byte = reader.byte
      BY <1>5, <2>1
  <2>3. reader' = [at |-> "loaded", byte |-> reader.byte, len |-> ring.len]
      BY <1>5, <2>1
  <2>4. SerialTypes'
      BY <1>1, <1>4, <1>5, <2>1, <2>3 DEF SerialTypes, Rings, Readers
  <2>5. Counted'
      BY <1>1, <1>4, <2>1, <2>2 DEF Counted, Slot
  <2>6. Holding /\ Holding'
      BY <2>1, <2>2 DEF Holding
  <2>7. QED
      BY <1>6, <2>1, <2>2, <2>4, <2>5, <2>6
<1>9. CASE StoreLen
  <2>1. /\ reader.at = "loaded" /\ reader' = [reader EXCEPT !.at = "read"]
        /\ ring' = [ring EXCEPT !.len = reader.len - 1]
      BY <1>9 DEF StoreLen
  <2>2. reader' = [at |-> "read", byte |-> reader.byte, len |-> reader.len]
      BY <1>5, <2>1
  <2>3. ring' = [buff |-> ring.buff, head |-> ring.head, tail |-> ring.tail, len |-> reader.len - 1]
      BY <1>5, <2>1
  <2>4. /\ ring'.buff = ring.buff /\ ring'.head = ring.head /\ ring'.tail = ring.tail
        /\ ring'.len = reader.len - 1 /\ reader'.at = "read" /\ reader'.byte = reader.byte
      BY <2>2, <2>3
  <2>5. 1 <= reader.len /\ reader.len <= unread + 1 /\ unread <= RingSize
        /\ ring.tail = Slot(ring.head, unread)
      BY <1>1, <2>1 DEF Counted
  <2>6. reader.len - 1 \in 0 .. RingSize /\ reader.len - 1 <= unread
      BY <1>5, <2>5
  <2>7. SerialTypes'
      BY <1>1, <1>4, <2>2, <2>3, <2>6 DEF SerialTypes, Rings, Readers
  <2>8. Counted'
      BY <1>4, <2>4, <2>5, <2>6 DEF Counted, Slot
  <2>9. Holding /\ Holding'
      BY <2>1, <2>4 DEF Holding
  <2>10. QED
      BY <1>6, <2>4, <2>7, <2>8, <2>9
<1>10. QED
    BY <1>7, <1>8, <1>9

\* The reader takes the byte at the head.
LEMMA TakeStep ==
    ASSUME SerialInv, ~slipped, TakeByte
    PROVE  SerialInv'
<1>1. SerialTypes /\ Counted
    BY DEF SerialInv
<1>2. PICK stream, start : InPhase(stream, start)
    BY DEF SerialInv
<1>3. Piped(stream)
    BY <1>2 DEF InPhase
<1>4. /\ reader.at = "popping"
      /\ reader' = [reader EXCEPT !.at = "taken", !.byte = ring.buff[ring.head]]
      /\ ring' = [ring EXCEPT !.head = (@ + 1) % RingSize]
      /\ unread' = unread - 1
      /\ UNCHANGED <<sent, line, decoder, decoded, slipped>>
    BY DEF TakeByte
<1>5. /\ RingSize \in Nat \ {0}
      /\ ring = [buff |-> ring.buff, head |-> ring.head, tail |-> ring.tail, len |-> ring.len]
      /\ ring.buff \in [0 .. RingSize - 1 -> Octets]
      /\ ring.head \in 0 .. RingSize - 1 /\ ring.tail \in 0 .. RingSize - 1
      /\ ring.len \in 0 .. RingSize /\ reader.len \in 0 .. RingSize
      /\ unread \in Nat /\ Len(line) \in Nat
      /\ reader = [at |-> reader.at, byte |-> reader.byte, len |-> reader.len]
    BY <1>1, SerialFields
<1>6. 1 <= unread /\ unread <= RingSize /\ 1 <= ring.len /\ ring.len <= unread
      /\ ring.tail = Slot(ring.head, unread)
    BY <1>1, <1>4, <1>5 DEF Counted
<1>7. /\ (ring.head + 1) % RingSize = Slot(ring.head, 1)
      /\ Slot(ring.head, 1) \in 0 .. RingSize - 1
      /\ Slot(ring.head, 0) = ring.head
      /\ \A j \in 0 .. RingSize - 1 : Slot(Slot(ring.head, 1), j) = Slot(ring.head, j + 1)
  <2>1. 0 \in 0 .. RingSize - 1 /\ 1 \in 0 .. RingSize /\ 0 + 1 = 1
      BY <1>5
  <2>2. Slot(ring.head, 0) = ring.head /\ (Slot(ring.head, 0) + 1) % RingSize = Slot(ring.head, 0 + 1)
      BY <1>5, <2>1, RingSlots
  <2>3. QED
      BY <1>5, <2>1, <2>2, RingSlots
<1>8. ring' = [buff |-> ring.buff, head |-> Slot(ring.head, 1), tail |-> ring.tail, len |-> ring.len]
  <2>1. ring' = [buff |-> ring.buff, head |-> (ring.head + 1) % RingSize, tail |-> ring.tail, len |-> ring.len]
      BY <1>4, <1>5
  <2>2. QED
      BY <1>7, <2>1
<1>9. reader' = [at |-> "taken", byte |-> ring.buff[ring.head], len |-> reader.len]
    BY <1>4, <1>5
<1>10. /\ ring'.buff = ring.buff /\ ring'.head = Slot(ring.head, 1) /\ ring'.tail = ring.tail
       /\ ring'.len = ring.len /\ reader'.at = "taken" /\ reader'.byte = ring.buff[ring.head]
    BY <1>8, <1>9
<1>11. SerialTypes'
  <2>1. ring.buff[ring.head] \in Octets
      BY <1>5
  <2>2. unread' \in Nat
      BY <1>4, <1>5, <1>6
  <2>3. ring' \in Rings
      BY <1>5, <1>7, <1>8 DEF Rings
  <2>4. reader' \in Readers
      BY <1>5, <1>9, <2>1 DEF Readers
  <2>5. QED
      BY <1>1, <1>4, <2>2, <2>3, <2>4 DEF SerialTypes
<1>12. Counted'
  <2>1. Slot(Slot(ring.head, 1), unread - 1) = Slot(ring.head, unread)
    <3>1. unread - 1 \in 0 .. RingSize - 1 /\ unread - 1 + 1 = unread
        BY <1>5, <1>6
    <3>2. Slot(Slot(ring.head, 1), unread - 1) = Slot(ring.head, unread - 1 + 1)
        BY <1>7, <3>1
    <3>3. QED
        BY <3>1, <3>2
  <2>2. ring'.tail = Slot(ring'.head, unread')
      BY <1>4, <1>6, <1>10, <2>1
  <2>3. unread' <= RingSize /\ 1 <= ring'.len /\ ring'.len <= unread' + 1
      BY <1>4, <1>5, <1>6, <1>10
  <2>4. QED
      BY <1>10, <2>2, <2>3 DEF Counted, Slot
<1>13. /\ Len(stream) \in Nat /\ Passed(stream) \in Int
       /\ Passed(stream)' = Passed(stream) + 1 /\ Passed(stream) >= 0
  <2>1. Len(stream) \in Nat
      BY <1>2, LenProperties DEF InPhase, Streamed, Gathered
  <2>2. Len(stream)' = Len(stream) /\ Len(line)' = Len(line)
      BY <1>4
  <2>3. /\ Passed(stream) = Len(stream) - Len(line) - unread
        /\ Passed(stream)' = Len(stream) - Len(line) - (unread - 1)
      BY <1>4, <2>2 DEF Passed
  <2>4. Passed(stream) >= 0
      BY <1>3 DEF Piped
  <2>5. QED
      BY <1>5, <2>1, <2>3, <2>4
<1>14. Piped(stream)'
  <2>1. Passed(stream)' >= 1
      BY <1>13
  <2>2. ASSUME NEW j \in 1 .. Len(line)
        PROVE  line[j] = stream[Passed(stream)' + unread' + j]
    <3>1. Passed(stream)' + unread' + j = Passed(stream) + unread + j
      <4>1. \A x, y, z \in Int : (x + 1) + (y - 1) + z = x + y + z
          OBVIOUS
      <4>2. /\ Passed(stream)' = Passed(stream) + 1 /\ unread' = unread - 1
            /\ Passed(stream) \in Int /\ unread \in Int /\ j \in Int
          BY <1>4, <1>5, <1>13
      <4>3. QED
          BY <4>1, <4>2
    <3>2. line[j] = stream[Passed(stream) + unread + j]
        BY <1>3 DEF Piped
    <3>3. QED
        BY <3>1, <3>2
  <2>3. ASSUME NEW j \in 0 .. unread' - 1
        PROVE  ring'.buff[Slot(ring'.head, j)] = stream[Passed(stream)' + 1 + j]
    <3>1. j \in 0 .. RingSize - 1 /\ j + 1 \in 0 .. unread - 1
          /\ Passed(stream)' + 1 + j = Passed(stream) + 1 + (j + 1)
      <4>1. \A x, y \in Int : (x + 1) + 1 + y = x + 1 + (y + 1)
          OBVIOUS
      <4>2. Passed(stream)' = Passed(stream) + 1 /\ Passed(stream) \in Int
          BY <1>5, <1>13
      <4>3. j \in 0 .. RingSize - 1 /\ j + 1 \in 0 .. unread - 1
          BY <1>4, <1>5, <1>6
      <4>4. QED
          BY <4>1, <4>2, <4>3
    <3>2. Slot(ring'.head, j) = Slot(ring.head, j + 1)
        BY <1>7, <1>10, <3>1
    <3>3. ring.buff[Slot(ring.head, j + 1)] = stream[Passed(stream) + 1 + (j + 1)]
        BY <1>3, <3>1 DEF Piped
    <3>4. QED
        BY <1>10, <3>1, <3>2, <3>3
  <2>4. reader'.byte = stream[Passed(stream)']
    <3>1. 0 \in 0 .. unread - 1 /\ Passed(stream) + 1 + 0 = Passed(stream)'
        BY <1>5, <1>6, <1>13
    <3>2. ring.buff[Slot(ring.head, 0)] = stream[Passed(stream) + 1 + 0]
        BY <1>3, <3>1 DEF Piped
    <3>3. QED
        BY <1>7, <1>10, <3>1, <3>2
  <2>5. line' = line
      BY <1>4
  <2> DEFINE gone == Passed(stream)'
  <2>6. gone >= 0
      BY <1>13
  <2>7. /\ gone >= 0
        /\ \A j \in 1 .. Len(line') : line'[j] = stream[gone + unread' + j]
        /\ \A j \in 0 .. unread' - 1 : ring'.buff[Slot(ring'.head, j)] = stream[gone + 1 + j]
        /\ gone >= 1 /\ reader'.byte = stream[gone]
      BY <2>1, <2>2, <2>3, <2>4, <2>5, <2>6
  <2>8. QED
      BY <2>7 DEF Piped, Slot
<1>15. (IF Holding THEN Passed(stream) - 1 ELSE Passed(stream))'
           = IF Holding THEN Passed(stream) - 1 ELSE Passed(stream)
  <2>1. ~Holding /\ Holding'
      BY <1>4, <1>10 DEF Holding
  <2>2. QED
      BY <1>13, <2>1
<1>16. InPhase(stream, start)'
    BY <1>2, <1>4, <1>14, <1>15, PhaseKept
<1>17. QED
    BY <1>11, <1>12, <1>16, SerialKept
\* The interrupt puts the next byte of the line into the ring.
LEMMA ReceiveStep ==
    ASSUME SerialInv, ~slipped, ReceiveByte
    PROVE  SerialInv'
<1>1. SerialTypes /\ Counted
    BY DEF SerialInv
<1>2. PICK stream, start : InPhase(stream, start)
    BY DEF SerialInv
<1>3. Piped(stream)
    BY <1>2 DEF InPhase
<1>4. /\ line # <<>> /\ line' = Tail(line) /\ unread' = unread + 1
      /\ ring' = Pushed(ring, Head(line))
      /\ UNCHANGED <<sent, reader, decoder, decoded>>
    BY DEF ReceiveByte
<1>5. ~slipped' => unread # RingSize
    BY DEF ReceiveByte
<1>6. /\ RingSize \in Nat \ {0}
      /\ ring.buff \in [0 .. RingSize - 1 -> Octets]
      /\ ring.head \in 0 .. RingSize - 1 /\ ring.tail \in 0 .. RingSize - 1
      /\ ring.len \in 0 .. RingSize /\ unread \in Nat /\ line \in Seq(Octets)
    BY <1>1, SerialFields
<1>7. /\ Head(line) = line[1] /\ Head(line) \in Octets /\ Tail(line) \in Seq(Octets)
      /\ Len(line) \in Nat \ {0} /\ Len(Tail(line)) = Len(line) - 1
      /\ \A j \in 1 .. Len(line) - 1 : Tail(line)[j] = line[j + 1]
  <2>1. Len(line) \in Nat \ {0} /\ Head(line) = line[1] /\ Tail(line) \in Seq(Octets)
      BY <1>4, <1>6, HeadTailProperties, LenProperties, EmptySeq
  <2>2. 1 \in 1 .. Len(line)
      BY <2>1
  <2>3. line[1] \in Octets
      BY <1>6, <2>2, ElementOfSeq
  <2>4. Len(Tail(line)) = Len(line) - 1 /\ \A j \in 1 .. Len(line) - 1 : Tail(line)[j] = line[j + 1]
      BY <1>4, <1>6, HeadTailProperties
  <2>5. QED
      BY <2>1, <2>3, <2>4
<1>8. /\ (ring.tail + 1) % RingSize \in 0 .. RingSize - 1
      /\ ring.len + 1 > RingSize => ring.len = RingSize
    BY <1>6
<1> DEFINE over == (ring.tail + 1) % RingSize
           buff == [ring.buff EXCEPT ![ring.tail] = Head(line)]
           head == IF ring.len + 1 > RingSize THEN over ELSE ring.head
           count == IF ring.len + 1 > RingSize THEN ring.len ELSE ring.len + 1
<1>9. ring' = [buff |-> buff, head |-> head, tail |-> over, len |-> count]
    BY <1>4 DEF Pushed
<1>10. /\ buff \in [0 .. RingSize - 1 -> Octets] /\ buff[ring.tail] = Head(line)
       /\ \A i \in 0 .. RingSize - 1 : i # ring.tail => buff[i] = ring.buff[i]
    BY <1>6, <1>7
<1>11. head \in 0 .. RingSize - 1 /\ count \in 0 .. RingSize
    BY <1>6, <1>8
<1> HIDE DEF buff
<1>12. SerialTypes'
  <2>1. ring' \in Rings
      BY <1>8, <1>9, <1>10, <1>11 DEF Rings
  <2>2. line' \in Seq(Octets) /\ unread' \in Nat
      BY <1>4, <1>6, <1>7
  <2>3. QED
      BY <1>1, <1>4, <2>1, <2>2 DEF SerialTypes
<1>13. CASE slipped'
    BY <1>12, <1>13 DEF SerialInv
<1>14. CASE ~slipped'
  <2>1. /\ unread < RingSize /\ ring.tail = Slot(ring.head, unread)
        /\ ring.len <= unread + 1
        /\ reader.at \notin {"taken", "loaded"} => ring.len <= unread
        /\ reader.at \in {"popping", "taken"} => 1 <= ring.len
        /\ reader.at = "loaded" => 1 <= reader.len /\ reader.len <= unread + 1
    <3>1. /\ unread <= RingSize /\ ring.tail = Slot(ring.head, unread)
          /\ reader.at \in {"taken", "loaded"} => ring.len <= unread + 1
          /\ reader.at \notin {"taken", "loaded"} => ring.len <= unread
          /\ reader.at \in {"popping", "taken"} => 1 <= ring.len
          /\ reader.at = "loaded" => 1 <= reader.len /\ reader.len <= unread + 1
        BY <1>1 DEF Counted
    <3>2. unread < RingSize
        BY <1>5, <1>6, <1>14, <3>1
    <3>3. ring.len <= unread + 1
        BY <1>6, <3>1
    <3>4. QED
        BY <3>1, <3>2, <3>3
  <2>2. unread \in 0 .. RingSize - 1 /\ unread + 1 \in 0 .. RingSize
      BY <1>6, <2>1
  <2>3. over = Slot(ring.head, unread + 1)
    <3>1. \A j \in 0 .. RingSize - 1 :
              (Slot(ring.head, j) + 1) % RingSize = Slot(ring.head, j + 1)
        BY <1>6, RingSlots
    <3>2. QED
        BY <2>1, <2>2, <3>1
  <2>4. head = ring.head
    <3>1. CASE ring.len + 1 > RingSize
      <4>1. unread + 1 = RingSize
          BY <1>6, <1>8, <2>1, <3>1
      <4>2. Slot(ring.head, RingSize) = ring.head
          BY <1>6, RingSlots
      <4>3. QED
          BY <2>3, <3>1, <4>1, <4>2
    <3>2. CASE ~(ring.len + 1 > RingSize)
        BY <3>2
    <3>3. QED
        BY <3>1, <3>2
  <2>5. ring.len <= count /\ count <= ring.len + 1
      BY <1>6
  <2> HIDE DEF head, count, over
  <2>6. /\ ring'.buff = buff /\ ring'.head = ring.head /\ ring'.len = count
        /\ ring'.tail = Slot(ring.head, unread + 1)
      BY <1>9, <2>3, <2>4
  <2>7. Counted'
    <3>1. /\ unread' <= RingSize /\ ring'.tail = Slot(ring'.head, unread')
        BY <1>4, <1>6, <2>1, <2>6
    <3>2. /\ reader'.at \in {"popping", "taken"} => 1 <= ring'.len
          /\ reader'.at = "loaded" => 1 <= reader'.len /\ reader'.len <= unread' + 1
          /\ reader'.at \in {"taken", "loaded"} => ring'.len <= unread' + 1
          /\ reader'.at \notin {"taken", "loaded"} => ring'.len <= unread'
      <4>1. count \in Int
          BY <1>11
      <4>2. reader.len \in 0 .. RingSize
          BY <1>1, SerialFields
      <4>3. /\ reader.at \in {"popping", "taken"} => 1 <= count
            /\ reader.at = "loaded" => 1 <= reader.len /\ reader.len <= unread + 1 + 1
            /\ count <= unread + 1 + 1
            /\ reader.at \notin {"taken", "loaded"} => count <= unread + 1
          BY <1>6, <2>1, <2>5, <4>1, <4>2
      <4>4. reader' = reader
          BY <1>4
      <4>5. QED
          BY <1>4, <2>6, <4>3, <4>4
    <3>3. QED
        BY <3>1, <3>2 DEF Counted, Slot
  <2>8. Len(stream) \in Nat /\ Passed(stream) \in Int /\ Passed(stream)' = Passed(stream)
    <3>1. Len(stream) \in Nat
        BY <1>2, LenProperties DEF InPhase, Streamed, Gathered
    <3>2. QED
        BY <1>4, <1>6, <1>7, <3>1 DEF Passed
  <2> DEFINE gone == Passed(stream)
  <2>9. /\ gone >= 0
        /\ \A j \in 1 .. Len(line) : line[j] = stream[gone + unread + j]
        /\ \A j \in 0 .. unread - 1 : ring.buff[Slot(ring.head, j)] = stream[gone + 1 + j]
        /\ Holding => gone >= 1 /\ reader.byte = stream[gone]
      BY <1>3 DEF Piped
  <2>10. gone \in Int
      BY <2>8
  <2> HIDE DEF gone
  <2>11. ASSUME NEW j \in 1 .. Len(line) - 1
         PROVE  Tail(line)[j] = stream[gone + (unread + 1) + j]
    <3>1. j + 1 \in 1 .. Len(line) /\ gone + unread + (j + 1) = gone + (unread + 1) + j
        BY <1>6, <1>7, <2>10
    <3>2. Tail(line)[j] = line[j + 1]
        BY <1>7
    <3>3. line[j + 1] = stream[gone + unread + (j + 1)]
        BY <2>9, <3>1
    <3>4. QED
        BY <3>1, <3>2, <3>3
  <2>12. ASSUME NEW j \in 0 .. unread
         PROVE  buff[Slot(ring.head, j)] = stream[gone + 1 + j]
    <3>1. CASE j = unread
      <4>1. 1 \in 1 .. Len(line) /\ gone + unread + 1 = gone + 1 + unread
          BY <1>6, <1>7, <2>10
      <4>2. line[1] = stream[gone + unread + 1]
          BY <2>9, <4>1
      <4>3. QED
          BY <1>7, <1>10, <2>1, <3>1, <4>1, <4>2
    <3>2. CASE j # unread
      <4>1. j \in 0 .. unread - 1 /\ j \in 0 .. RingSize - 1
          BY <1>6, <2>1, <3>2
      <4>2. Slot(ring.head, j) \in 0 .. RingSize - 1 /\ Slot(ring.head, j) # ring.tail
        <5>1. j \in 0 .. RingSize
            BY <1>6, <4>1
        <5>2. Slot(ring.head, j) \in 0 .. RingSize - 1
            BY <1>6, <5>1, RingSlots
        <5>3. Slot(ring.head, j) # Slot(ring.head, unread)
          <6>1. \A i, k \in 0 .. RingSize - 1 : i # k => Slot(ring.head, i) # Slot(ring.head, k)
              BY <1>6, RingSlots
          <6>2. QED
              BY <2>2, <3>2, <4>1, <6>1
        <5>4. QED
            BY <2>1, <5>2, <5>3
      <4>3. QED
          BY <1>10, <2>9, <4>1, <4>2
    <3>3. QED
        BY <3>1, <3>2
  <2>13. Piped(stream)'
    <3>1. Len(line') = Len(line) - 1 /\ unread' - 1 = unread /\ unread' = unread + 1
        BY <1>4, <1>6, <1>7
    <3>2. (Holding' <=> Holding) /\ reader'.byte = reader.byte
        BY <1>4 DEF Holding
    <3>3. Passed(stream)' = gone
        BY <2>8 DEF gone
    <3>4. /\ gone >= 0
          /\ \A j \in 1 .. Len(line') : line'[j] = stream[gone + unread' + j]
          /\ \A j \in 0 .. unread' - 1 : ring'.buff[Slot(ring'.head, j)] = stream[gone + 1 + j]
          /\ Holding' => gone >= 1 /\ reader'.byte = stream[gone]
        BY <1>4, <2>6, <2>9, <2>11, <2>12, <3>1, <3>2
    <3>5. QED
        BY <3>3, <3>4 DEF Piped, Slot
  <2>14. (IF Holding THEN Passed(stream) - 1 ELSE Passed(stream))'
             = IF Holding THEN Passed(stream) - 1 ELSE Passed(stream)
      BY <1>4, <2>8 DEF Holding
  <2>15. InPhase(stream, start)'
      BY <1>2, <1>4, <2>13, <2>14, PhaseKept
  <2>16. QED
      BY <1>12, <2>7, <2>15, SerialKept
<1>15. QED
    BY <1>13, <1>14
\* A frame is put on the line, behind what is there.
LEMMA SendStep ==
    ASSUME SerialInv, ~slipped, Send
    PROVE  SerialInv'
<1>1. SerialTypes /\ Counted
    BY DEF SerialInv
<1>2. PICK stream, start : InPhase(stream, start)
    BY DEF SerialInv
<1>3. PICK data \in Payloads : sent' = Append(sent, data) /\ line' = line \o Encode(data)
    BY DEF Send
<1>4. UNCHANGED <<ring, unread, reader, decoder, decoded, slipped>>
    BY DEF Send
<1> DEFINE n == Len(sent)
           x == Encode(data)
           whole == stream \o x
<1>5. /\ n \in Nat /\ sent \in Seq(Payloads) /\ line \in Seq(Octets) /\ unread \in Nat
      /\ Len(line) \in Nat
    BY <1>1, LenProperties DEF SerialTypes
<1>6. x \in Seq(Octets) /\ x # <<>> /\ Len(x) \in Nat
  <2>1. data \in Seq(Octets)
      BY SerialAssumption
  <2>2. x \in Seq(Octets) /\ Len(x) = Len(Body(data)) + 2 /\ Len(Body(data)) \in Nat
      BY <2>1, EncodeIs
  <2> HIDE DEF x
  <2>3. Len(x) # 0 /\ Len(x) \in Nat
      BY <2>2
  <2>4. QED
      BY <2>2, <2>3, EmptySeq
<1>7. /\ sent' \in Seq(Payloads) /\ Len(sent') = n + 1 /\ sent'[n + 1] = data
      /\ \A k \in 1 .. n : sent'[k] = sent[k]
    BY <1>3, <1>5, AppendProperties
<1>8. Streamed(stream, start) /\ Piped(stream)
      /\ DecodedUpTo(start, IF Holding THEN Passed(stream) - 1 ELSE Passed(stream))
    BY <1>2 DEF InPhase
<1>9. stream \in Seq(Octets) /\ Len(stream) \in Nat
    BY <1>8, LenProperties DEF Streamed, Gathered
<1>10. /\ \A k \in 1 .. n : Encodes(sent')[k] = Encodes(sent)[k]
       /\ Encodes(sent')[n + 1] = x
  <2>1. DOMAIN sent = 1 .. n
      BY <1>5, LenProperties
  <2>2. DOMAIN sent' = 1 .. n + 1
      BY <1>7, LenProperties
  <2>3. (\A k \in 1 .. n : k \in 1 .. n + 1) /\ n + 1 \in 1 .. n + 1
      BY <1>5
  <2>4. QED
      BY <1>7, <2>1, <2>2, <2>3 DEF Encodes
<1> HIDE DEF x
<1>11. PICK s : /\ Gathered(whole, s, Encodes(sent'), n + 1)
                /\ \A k \in 1 .. n + 1 : s[k] = start[k]
  <2>1. Gathered(stream, start, Encodes(sent), n)
      BY <1>8 DEF Streamed
  <2> HIDE DEF n
  <2>2. \E s : /\ Gathered(stream \o x, s, Encodes(sent'), n + 1)
               /\ \A k \in 1 .. n + 1 : s[k] = start[k]
      BY <1>5, <1>6, <1>10, <2>1, GatherOne
  <2>3. QED
      BY <2>2
<1>12. /\ Len(whole) = Len(stream) + Len(x)
       /\ \A i \in 1 .. Len(stream) : whole[i] = stream[i]
       /\ \A i \in 1 .. Len(x) : whole[Len(stream) + i] = x[i]
  <2>1. /\ Len(whole) = Len(stream) + Len(x)
        /\ \A i \in 1 .. Len(stream) + Len(x) :
              whole[i] = IF i <= Len(stream) THEN stream[i] ELSE x[i - Len(stream)]
      BY <1>6, <1>9, ConcatProperties
  <2> HIDE DEF whole
  <2>2. \A i \in 1 .. Len(stream) : i \in 1 .. Len(stream) + Len(x) /\ i <= Len(stream)
      BY <1>6, <1>9
  <2>3. \A i \in 1 .. Len(x) : /\ Len(stream) + i \in 1 .. Len(stream) + Len(x)
                               /\ ~(Len(stream) + i <= Len(stream))
                               /\ Len(stream) + i - Len(stream) = i
      BY <1>6, <1>9
  <2>4. QED
      BY <1>6, <1>9, <2>1, <2>2, <2>3
<1>13. /\ line' \in Seq(Octets) /\ Len(line') = Len(line) + Len(x)
       /\ \A i \in 1 .. Len(line) + Len(x) :
             line'[i] = IF i <= Len(line) THEN line[i] ELSE x[i - Len(line)]
    BY <1>3, <1>5, <1>6, ConcatProperties DEF x
<1> HIDE DEF whole
<1>14. SerialTypes'
    BY <1>1, <1>4, <1>7, <1>13 DEF SerialTypes
<1>15. Counted'
    BY <1>1, <1>4 DEF Counted, Slot
<1>16. PICK gone : gone = Passed(stream)
    OBVIOUS
<1>17. /\ gone \in Nat /\ gone + unread + Len(line) = Len(stream)
       /\ \A j \in 1 .. Len(line) : line[j] = stream[gone + unread + j]
       /\ \A j \in 0 .. unread - 1 : ring.buff[Slot(ring.head, j)] = stream[gone + 1 + j]
       /\ Holding => gone >= 1 /\ reader.byte = stream[gone]
  <2>1. gone = Len(stream) - Len(line) - unread /\ gone >= 0
      BY <1>8, <1>16 DEF Piped, Passed
  <2>2. gone \in Nat /\ gone + unread + Len(line) = Len(stream)
      BY <1>5, <1>9, <2>1
  <2>3. QED
      BY <1>8, <1>16, <2>2 DEF Piped
<1>18. gone = Passed(whole)'
  <2>1. gone = Len(whole) - Len(line') - unread
    <3>1. Len(whole) = Len(stream) + Len(x) /\ Len(line') = Len(line) + Len(x)
        BY <1>12, <1>13
    <3>2. gone + unread + Len(line) = Len(stream) /\ gone \in Nat
        BY <1>17
    <3>3. \A w, l \in Nat : w = Len(stream) + Len(x) /\ l = Len(line) + Len(x) => gone = w - l - unread
        BY <1>5, <1>6, <1>9, <3>2
    <3>4. Len(whole) \in Nat /\ Len(line') \in Nat
        BY <1>5, <1>6, <1>9, <3>1
    <3>5. QED
        BY <3>1, <3>3, <3>4
  <2>2. QED
      BY <1>4, <2>1 DEF Passed
<1>19. Piped(whole)'
  <2>1. ASSUME NEW j \in 1 .. Len(line')
        PROVE  line'[j] = whole[gone + unread + j]
    <3>1. CASE j <= Len(line)
      <4>1. j \in 1 .. Len(line) /\ j \in 1 .. Len(line) + Len(x) /\ gone + unread + j \in 1 .. Len(stream)
          BY <1>5, <1>6, <1>9, <1>13, <1>17, <3>1
      <4>2. QED
          BY <1>12, <1>13, <1>17, <3>1, <4>1
    <3>2. CASE ~(j <= Len(line))
      <4>1. /\ j \in 1 .. Len(line) + Len(x) /\ j - Len(line) \in 1 .. Len(x)
            /\ gone + unread + j = Len(stream) + (j - Len(line))
        <5>1. gone + unread + Len(line) = Len(stream) /\ gone \in Nat
            BY <1>17
        <5>2. Len(line') = Len(line) + Len(x)
            BY <1>13
        <5>3. QED
            BY <1>5, <1>6, <1>9, <3>2, <5>1, <5>2
      <4>2. line'[j] = x[j - Len(line)]
          BY <1>13, <3>2, <4>1
      <4>3. whole[Len(stream) + (j - Len(line))] = x[j - Len(line)]
          BY <1>12, <4>1
      <4>4. QED
          BY <4>1, <4>2, <4>3
    <3>3. QED
        BY <3>1, <3>2
  <2>2. ASSUME NEW j \in 0 .. unread - 1
        PROVE  ring.buff[Slot(ring.head, j)] = whole[gone + 1 + j]
    <3>1. gone + 1 + j \in 1 .. Len(stream)
        BY <1>5, <1>9, <1>17
    <3>2. QED
        BY <1>12, <1>17, <3>1
  <2>3. Holding => gone >= 1 /\ reader.byte = whole[gone]
    <3>1. gone >= 1 => gone \in 1 .. Len(stream)
        BY <1>5, <1>9, <1>17
    <3>2. QED
        BY <1>12, <1>17, <3>1
  <2>4. gone >= 0
      BY <1>17
  <2>5. /\ gone >= 0
        /\ \A j \in 1 .. Len(line') : line'[j] = whole[gone + unread' + j]
        /\ \A j \in 0 .. unread' - 1 : ring'.buff[Slot(ring'.head, j)] = whole[gone + 1 + j]
        /\ Holding' => gone >= 1 /\ reader'.byte = whole[gone]
      BY <1>4, <2>1, <2>2, <2>3, <2>4 DEF Holding
  <2>6. QED
      BY <1>18, <2>5 DEF Piped, Slot
<1>20. PICK pos : pos = IF Holding THEN gone - 1 ELSE gone
    OBVIOUS
<1>21. DecodedUpTo(s, pos)'
  <2> DEFINE m == Len(decoded)
  <2>1. /\ m <= n /\ \A k \in 1 .. m : decoded[k] = Stored(sent[k])
        /\ ~decoder.parsing => pos = start[m + 1]
        /\ decoder.parsing => m < n
        /\ decoder.parsing => InPayload(decoder, sent[m + 1], pos - start[m + 1] - 1)
    <3>1. DecodedUpTo(start, pos)
        BY <1>8, <1>16, <1>20
    <3>2. QED
        BY <3>1 DEF DecodedUpTo
  <2>2. m \in Nat
      BY <1>1, LenProperties DEF SerialTypes
  <2> HIDE DEF m, n
  <2>3. m <= n + 1 /\ m + 1 \in 1 .. n + 1 /\ (m < n => m < n + 1 /\ m + 1 \in 1 .. n)
      BY <1>5, <2>1, <2>2
  <2>4. \A k \in 1 .. m : k \in 1 .. n
      BY <1>5, <2>1, <2>2
  <2>5. s[m + 1] = start[m + 1]
      BY <1>11, <2>3
  <2>6. UNCHANGED <<decoded, decoder>> /\ Len(decoded') = m
      BY <1>4 DEF m
  <2>7. m <= n + 1 /\ \A k \in 1 .. m : decoded[k] = Stored(sent'[k])
      BY <1>7, <2>1, <2>3, <2>4
  <2>8. ~decoder.parsing => pos = s[m + 1]
      BY <2>1, <2>5
  <2>9. ASSUME decoder.parsing
        PROVE  m < n + 1 /\ InPayload(decoder, sent'[m + 1], pos - s[m + 1] - 1)
    <3>1. m < n /\ InPayload(decoder, sent[m + 1], pos - start[m + 1] - 1)
        BY <2>1, <2>9
    <3>2. m < n + 1 /\ sent'[m + 1] = sent[m + 1]
        BY <1>7, <2>3, <3>1
    <3>3. QED
        BY <2>5, <3>1, <3>2
  <2>10. /\ Len(decoded') <= Len(sent')
         /\ \A k \in 1 .. Len(decoded') : decoded'[k] = Stored(sent'[k])
      BY <1>7, <2>6, <2>7
  <2>11. ~decoder'.parsing => pos = s[Len(decoded') + 1]
      BY <2>6, <2>8
  <2>12. ASSUME decoder'.parsing
         PROVE  /\ Len(decoded') < Len(sent')
                /\ InPayload(decoder', sent'[Len(decoded') + 1], pos - s[Len(decoded') + 1] - 1)
    <3>1. decoder.parsing /\ decoder' = decoder
        BY <2>6, <2>12
    <3>2. QED
        BY <1>7, <2>6, <2>9, <3>1
  <2>13. QED
      BY <2>10, <2>11, <2>12, NowDecoded
<1>22. Streamed(whole, s)'
    BY <1>7, <1>11 DEF Streamed, Encodes
<1>23. pos = (IF Holding THEN Passed(whole) - 1 ELSE Passed(whole))'
    BY <1>4, <1>18, <1>20 DEF Holding
<1>24. InPhase(whole, s)'
  <2> DEFINE Seen == IF Holding THEN Passed(whole) - 1 ELSE Passed(whole)
  <2>1. pos = Seen'
      BY <1>23
  <2> HIDE DEF Seen
  <2>2. DecodedUpTo(s, Seen)'
      BY <1>21, <2>1
  <2>3. QED
      BY <1>19, <1>22, <2>2 DEF InPhase, Seen
<1>25. QED
    BY <1>14, <1>15, <1>24, SerialKept
\* The decoder takes any byte to a state it can be in.
LEMMA DecodedTyped ==
    ASSUME NEW d \in Decoders, NEW b \in Octets
    PROVE  Decoded(d, b) \in Decoders
<1>1. Append(d.data, b) \in Seq(Octets)
    BY AppendProperties DEF Decoders
<1>2. [d EXCEPT !.parsing = FALSE] \in Decoders
    BY DEF Decoders
<1>3. [d EXCEPT !.escape = TRUE] \in Decoders
    BY DEF Decoders
<1>4. [d EXCEPT !.parsing = FALSE, !.escape = FALSE] \in Decoders
    BY DEF Decoders
<1>5. [d EXCEPT !.data = Append(@, b), !.escape = FALSE] \in Decoders
    BY <1>1 DEF Decoders
<1>6. [parsing |-> TRUE, escape |-> FALSE, data |-> <<>>] \in Decoders
    BY DEF Decoders
<1>7. QED
    BY <1>2, <1>3, <1>4, <1>5, <1>6 DEF Decoded, Unescaped

\* The reader hands its byte to the decoder.
LEMMA DecodeStep ==
    ASSUME SerialInv, ~slipped, DecodeByte
    PROVE  SerialInv'
<1>1. SerialTypes /\ Counted
    BY DEF SerialInv
<1>2. PICK stream, start : InPhase(stream, start)
    BY DEF SerialInv
<1>3. Piped(stream) /\ Streamed(stream, start)
    BY <1>2 DEF InPhase
<1>4. /\ reader.at = "read" /\ reader' = Idle
      /\ decoder' = Decoded(decoder, reader.byte)
      /\ decoded' = IF Complete(decoder, reader.byte) THEN Append(decoded, decoder.data) ELSE decoded
      /\ UNCHANGED <<sent, line, ring, unread>>
    BY DEF DecodeByte
<1>5. ~slipped' => ~NoRoom(decoder, reader.byte)
    BY DEF DecodeByte
<1>6. /\ reader.byte \in Octets /\ decoder \in Decoders /\ decoded \in Seq(Seq(Octets))
      /\ decoder.data \in Seq(Octets) /\ RingSize \in Nat \ {0}
      /\ unread \in Nat /\ Len(line) \in Nat
    BY <1>1, SerialFields DEF SerialTypes, Decoders
<1>7. SerialTypes'
  <2>1. decoder' \in Decoders
      BY <1>4, <1>6, DecodedTyped
  <2>2. decoded' \in Seq(Seq(Octets))
      BY <1>4, <1>6, AppendProperties
  <2>3. reader' \in Readers
      BY <1>4, <1>6 DEF Idle, Readers, Octets
  <2>4. QED
      BY <1>1, <1>4, <2>1, <2>2, <2>3 DEF SerialTypes
<1>8. CASE slipped'
    BY <1>7, <1>8 DEF SerialInv
<1>9. CASE ~slipped'
  <2>1. Holding /\ ~Holding' /\ reader'.at = "idle"
      BY <1>4 DEF Holding, Idle
  <2>2. Counted'
      BY <1>1, <1>4, <2>1 DEF Counted, Slot
  <2>3. Piped(stream)' /\ Passed(stream)' = Passed(stream)
      BY <1>3, <1>4, <2>1, PipedSame
  <2>4. PICK pos, next : next = Passed(stream) /\ pos = Passed(stream) - 1
      OBVIOUS
  <2>5. Len(stream) \in Nat
      BY <1>3, LenProperties DEF Streamed, Gathered
  <2>6. pos \in 0 .. Len(stream) - 1 /\ next = pos + 1
      BY <1>3, <1>6, <2>1, <2>4, <2>5 DEF Piped, Passed
  <2>7. DecodedUpTo(start, pos)
      BY <1>2, <2>1, <2>4 DEF InPhase
  <2>8. reader.byte = stream[next]
      BY <1>3, <2>1, <2>4 DEF Piped
  <2>9. DecodedUpTo(start, next)'
      BY <1>1, <1>3, <1>4, <1>5, <1>9, <2>6, <2>7, <2>8, DecodeKeeps
  <2>10. Streamed(stream, start)'
      BY <1>3, <1>4 DEF Streamed, Encodes
  <2>11. InPhase(stream, start)'
    <3> DEFINE Seen == IF Holding THEN Passed(stream) - 1 ELSE Passed(stream)
    <3>1. next = Seen'
        BY <2>1, <2>3, <2>4
    <3> HIDE DEF Seen
    <3>2. DecodedUpTo(start, Seen)'
        BY <2>9, <3>1
    <3>3. QED
        BY <2>3, <2>10, <3>2 DEF InPhase, Seen
  <2>12. QED
      BY <1>7, <2>2, <2>11, SerialKept
<1>10. QED
    BY <1>8, <1>9

LEMMA SerialBegins == SerialInit => SerialInv
<1> SUFFICES ASSUME SerialInit PROVE SerialInv
    OBVIOUS
<1>1. /\ sent = <<>> /\ line = <<>> /\ decoded = <<>> /\ unread = 0
      /\ ring = [buff |-> [k \in 0 .. RingSize - 1 |-> "X"], head |-> 0, tail |-> 0, len |-> 0]
      /\ reader = Idle
      /\ decoder = [parsing |-> FALSE, escape |-> FALSE, data |-> <<>>]
    BY DEF SerialInit
<1>2. RingSize \in Nat \ {0} /\ "X" \in Octets
    BY SerialAssumption DEF Octets
<1>3. SerialTypes
  <2>1. ring \in Rings
      BY <1>1, <1>2 DEF Rings
  <2>2. reader \in Readers /\ decoder \in Decoders
      BY <1>1, <1>2 DEF Readers, Decoders, Idle
  <2>3. QED
      BY <1>1, <2>1, <2>2 DEF SerialTypes
<1>4. Counted
    BY <1>1, <1>2 DEF Counted, Slot, Idle
<1>5. Len(sent) = 0 /\ Len(line) = 0 /\ Len(decoded) = 0
    BY <1>1, EmptySeq
<1> DEFINE start == [k \in 1 .. 1 |-> 0]
<1>6. Streamed(<<>>, start)
    BY <1>5, GatherNone DEF Streamed
<1>7. ~Holding /\ Passed(<<>>) = 0
    BY <1>1, <1>5, EmptySeq DEF Holding, Idle, Passed
<1>8. Piped(<<>>)
    BY <1>1, <1>5, <1>7 DEF Piped
<1>9. DecodedUpTo(start, 0)
  <2>1. start[1] = 0 /\ ~decoder.parsing
      BY <1>1
  <2>2. QED
      BY <1>5, <2>1 DEF DecodedUpTo
<1>10. InPhase(<<>>, start)
    BY <1>6, <1>7, <1>8, <1>9 DEF InPhase
<1>11. QED
    BY <1>3, <1>4, <1>10 DEF SerialInv

LEMMA SerialInvariant == SerialSpec => []SerialInv
<1>1. SerialInit => SerialInv
    BY SerialBegins
<1>2. SerialInv /\ [SerialNext]_serialVars => SerialInv'
  <2> SUFFICES ASSUME SerialInv, [SerialNext]_serialVars PROVE SerialInv'
      OBVIOUS
  <2>1. CASE SerialNext
    <3>1. ~slipped
        BY <2>1 DEF SerialNext, Send, ReceiveByte, ReadByte, ReadBlocks, TakeByte, LoadLen,
                    StoreLen, DecodeByte
    <3>2. CASE Send
        BY <3>1, <3>2, SendStep
    <3>3. CASE ReceiveByte
        BY <3>1, <3>3, ReceiveStep
    <3>4. CASE ReadByte \/ ReadBlocks \/ LoadLen \/ StoreLen
        BY <3>1, <3>4, ReaderStep
    <3>5. CASE TakeByte
        BY <3>1, <3>5, TakeStep
    <3>6. CASE DecodeByte
        BY <3>1, <3>6, DecodeStep
    <3>7. QED
        BY <2>1, <3>2, <3>3, <3>4, <3>5, <3>6 DEF SerialNext
  <2>2. CASE UNCHANGED serialVars
    <3>1. UNCHANGED <<sent, line, ring, unread, reader, decoder, decoded, slipped>>
        BY <2>2 DEF serialVars
    <3>2. CASE slipped
        BY <3>1, <3>2 DEF SerialInv, SerialTypes
    <3>3. CASE ~slipped
      <4>1. SerialTypes' /\ Counted'
          BY <3>1, <3>3 DEF SerialInv, SerialTypes, Counted, Slot
      <4>2. PICK stream, start : InPhase(stream, start)
          BY <3>3 DEF SerialInv
      <4>3. Piped(stream)
          BY <4>2 DEF InPhase
      <4>4. Piped(stream)' /\ Passed(stream)' = Passed(stream)
          BY <3>1, <4>3, PipedSame DEF Holding
      <4>5. InPhase(stream, start)'
          BY <3>1, <4>2, <4>4, PhaseKept DEF Holding
      <4>6. QED
          BY <4>1, <4>5, SerialKept
    <3>4. QED
        BY <3>2, <3>3
  <2>3. QED
      BY <2>1, <2>2
<1>3. QED
    BY <1>1, <1>2, PTL DEF SerialSpec

\* With nothing left on the line or in the ring, no frame is left to decode.
LEMMA AllDecoded ==
    ASSUME SerialTypes, NEW stream, NEW start, InPhase(stream, start),
           line = <<>>, unread = 0, reader.at \in {"idle", "blocked"}
    PROVE  Len(decoded) = Len(sent)
<1> DEFINE n == Len(sent)
           m == Len(decoded)
           total == Len(stream)
<1>1. n \in Nat /\ m \in Nat
    BY SentAre, LenProperties DEF SerialTypes
<1>2. ~Holding /\ Len(line) = 0
    BY EmptySeq DEF Holding
<1>3. Streamed(stream, start) /\ total \in Nat
    BY LenProperties DEF InPhase, Streamed, Gathered
<1>4. DecodedUpTo(start, total)
  <2>1. Passed(stream) = total
      BY <1>2, <1>3 DEF Passed
  <2>2. QED
      BY <1>2, <2>1 DEF InPhase
<1>5. /\ start[n + 1] = total /\ \A k \in 1 .. n + 1 : start[k] \in Nat
      /\ \A k, l \in 1 .. n + 1 : k < l => start[k] < start[l]
    BY <1>3 DEF Streamed, Gathered
<1>6. m <= n
    BY <1>4 DEF DecodedUpTo
<1>7. SUFFICES ASSUME m < n PROVE FALSE
    BY <1>1, <1>6
<1>8. m + 1 \in 1 .. n /\ m + 1 \in 1 .. n + 1 /\ n + 1 \in 1 .. n + 1 /\ m + 1 < n + 1
    BY <1>1, <1>7
<1>9. CASE ~decoder.parsing
  <2>1. total = start[m + 1]
      BY <1>4, <1>9 DEF DecodedUpTo
  <2>2. start[m + 1] < start[n + 1] /\ start[m + 1] \in Nat
      BY <1>5, <1>8
  <2>3. QED
      BY <1>3, <1>5, <2>1, <2>2
<1>10. CASE decoder.parsing
  <2> DEFINE data == sent[m + 1]
             q == total - start[m + 1] - 1
             L == Len(Body(data))
  <2>1. InPayload(decoder, data, q)
      BY <1>4, <1>10 DEF DecodedUpTo
  <2>2. data \in Seq(Octets)
      BY <1>8, SentAre
  <2>3. L \in Nat
      BY <2>2, EncodeIs
  <2>4. start[m + 1] \in Nat /\ start[m + 1 + 1] = start[m + 1] + L + 2
    <3>1. 1 \in 1 .. L + 2
        BY <2>3
    <3>2. QED
        BY <1>3, <1>8, <3>1, ByteOfFrame
  <2>5. start[m + 1 + 1] <= total /\ start[m + 1 + 1] \in Nat
    <3>1. m + 1 + 1 \in 1 .. n + 1 /\ (m + 1 + 1 = n + 1 \/ m + 1 + 1 < n + 1)
        BY <1>1, <1>7
    <3>2. start[m + 1 + 1] \in Nat /\ (m + 1 + 1 < n + 1 => start[m + 1 + 1] < start[n + 1])
        BY <1>5, <1>8, <3>1
    <3>3. QED
        BY <1>3, <1>5, <3>1, <3>2
  <2>6. q \in Int
      BY <1>3, <2>4
  <2> HIDE DEF q, L, m
  <2>7. q \in 0 .. L
    <3>1. \E k \in 0 .. Len(data) : \E inner : Taken(decoder, data, q, k, inner)
        BY <2>1 DEF InPayload
    <3>2. PICK k \in 0 .. Len(data) : \E inner : Taken(decoder, data, q, k, inner)
        BY <3>1
    <3>3. PICK inner : Taken(decoder, data, q, k, inner)
        BY <3>2
    <3>4. /\ Gathered(Body(data), inner, Escapes(data), Len(data))
          /\ \/ q = inner[k + 1]
             \/ k < Len(data) /\ ~Plain(data[k + 1]) /\ q = inner[k + 1] + 1
        BY <3>3 DEF Taken
    <3>5. Len(data) \in Nat /\ inner[Len(data) + 1] = L
        BY <2>2, <3>4, LenProperties DEF Gathered, L
    <3>6. CASE k = Len(data)
        BY <2>3, <3>4, <3>5, <3>6
    <3>7. CASE k # Len(data)
      <4>1. k + 1 \in 1 .. Len(data)
          BY <3>5, <3>7
      <4>2. /\ inner[k + 1] \in Nat /\ inner[k + 1 + 1] \in Nat /\ inner[k + 1 + 1] <= L
            /\ Plain(data[k + 1]) => inner[k + 1 + 1] = inner[k + 1] + 1
            /\ ~Plain(data[k + 1]) => inner[k + 1 + 1] = inner[k + 1] + 2
          BY <2>2, <3>4, <4>1, PlaceInBody DEF L
      <4>3. QED
          BY <2>3, <3>4, <4>2
    <3>8. QED
        BY <3>6, <3>7
  <2>8. total = start[m + 1] + 1 + q
      BY <1>3, <2>4 DEF q
  <2>9. QED
      BY <1>3, <2>3, <2>4, <2>5, <2>7, <2>8
<1>11. QED
    BY <1>9, <1>10

\* Framing is never lost: with any ring and any payloads, and wherever receive
\* interrupts cut into RingBuffer::pop (m_len is stored after it was loaded),
\* UnallocatedSLIPDecoder returns one frame for each payload sent, in order,
\* and all of them once the line and the ring are empty.  In place of each END
\* and ESC of the payload a frame holds the byte that stood for it on the line.
THEOREM FramesAlwaysArrive == SerialSpec => []FramesArrive
<1>1. SerialInv => FramesArrive
  <2> SUFFICES ASSUME SerialInv, ~slipped
               PROVE  LET due == [k \in DOMAIN sent |-> Stored(sent[k])] IN
                      /\ IsPrefix(decoded, due)
                      /\ line = <<>> /\ unread = 0 /\ reader.at \in {"idle", "blocked"}
                            => decoded = due
      BY DEF FramesArrive
  <2> DEFINE due == [k \in DOMAIN sent |-> Stored(sent[k])]
             n == Len(sent)
             m == Len(decoded)
  <2>1. SerialTypes
      BY DEF SerialInv
  <2>2. PICK stream, start : InPhase(stream, start)
      BY DEF SerialInv
  <2>3. n \in Nat /\ m \in Nat /\ decoded \in Seq(Seq(Octets)) /\ DOMAIN sent = 1 .. n
      BY <2>1, SentAre, LenProperties DEF SerialTypes
  <2>4. m <= n /\ \A k \in 1 .. m : decoded[k] = Stored(sent[k])
      BY <2>2 DEF InPhase, DecodedUpTo
  <2>5. \A k \in 1 .. n : due[k] = Stored(sent[k]) /\ due[k] \in Seq(Octets)
      BY <2>1, <2>3, SentAre, StoredIs
  <2>6. due \in Seq(Seq(Octets)) /\ Len(due) = n
    <3>1. due = [k \in 1 .. n |-> due[k]]
        BY <2>3
    <3> HIDE DEF due, n
    <3>2. n \in Nat /\ \A k \in 1 .. n : due[k] \in Seq(Octets)
        BY <2>3, <2>5
    <3>3. due \in Seq(Seq(Octets))
        BY <3>1, <3>2, IsASeq
    <3>4. Len(due) = n
        BY <3>1, <3>2
    <3>5. QED
        BY <3>3, <3>4
  <2> HIDE DEF due, n, m
  <2>7. \A k \in 1 .. m : k \in 1 .. n /\ decoded[k] = due[k]
      BY <2>3, <2>4, <2>5
  <2>8. IsPrefix(decoded, due)
    <3>1. /\ SubSeq(decoded, 1, m) \in Seq(Seq(Octets)) /\ Len(SubSeq(decoded, 1, m)) = m
          /\ \A i \in 1 .. m : SubSeq(decoded, 1, m)[i] = decoded[i]
      <4>1. \A i \in 1 .. m : decoded[i] \in Seq(Octets)
          BY <2>3, ElementOfSeq DEF m
      <4>2. 1 \in Int /\ m \in Int /\ (IF 1 <= m THEN m - 1 + 1 ELSE 0) = m
          BY <2>3
      <4>3. QED
          BY <2>3, <4>1, <4>2, SubSeqProperties
    <3>2. /\ SubSeq(due, 1, m) \in Seq(Seq(Octets)) /\ Len(SubSeq(due, 1, m)) = m
          /\ \A i \in 1 .. m : SubSeq(due, 1, m)[i] = due[i]
      <4>1. \A i \in 1 .. m : due[i] \in Seq(Octets)
          BY <2>5, <2>7
      <4>2. 1 \in Int /\ m \in Int /\ (IF 1 <= m THEN m - 1 + 1 ELSE 0) = m
          BY <2>3
      <4>3. QED
          BY <2>3, <4>1, <4>2, SubSeqProperties
    <3>3. SubSeq(decoded, 1, m) = SubSeq(due, 1, m)
        BY <2>3, <2>7, <3>1, <3>2, SeqEqual
    <3>4. QED
        BY <2>4, <2>6, <3>3 DEF IsPrefix, m
  <2>9. ASSUME line = <<>>, unread = 0, reader.at \in {"idle", "blocked"}
        PROVE  decoded = due
    <3>1. m = n
        BY <2>1, <2>2, <2>9, AllDecoded DEF m, n
    <3>2. QED
        BY <2>3, <2>6, <2>7, <3>1, SeqEqual DEF m
  <2>10. QED
      BY <2>8, <2>9 DEF due
<1>2. QED
    BY <1>1, SerialInvariant, PTL

\* A payload without END and ESC is stored as it was sent.
LEMMA PlainIsStored ==
    ASSUME NEW data \in Seq(Octets), \A k \in DOMAIN data : data[k] \notin {"END", "ESC"}
    PROVE  Stored(data) = data
<1>1. DOMAIN data = 1 .. Len(data) /\ data = [k \in 1 .. Len(data) |-> data[k]]
    BY LenProperties
<1>2. Stored(data) = [k \in 1 .. Len(data) |-> data[k]]
    BY <1>1 DEF Stored
<1>3. QED
    BY <1>1, <1>2

\* slip.h:162 and :167 hold for payloads that need no escape: the decoder then
\* returns the payloads sent, in order.
THEOREM PlainPayloadsRestored ==
    ASSUME \A data \in Payloads : \A k \in DOMAIN data : data[k] \notin {"END", "ESC"}
    PROVE  SerialSpec => []PayloadsRestored
<1>1. SerialInv /\ FramesArrive => PayloadsRestored
  <2> SUFFICES ASSUME SerialInv, FramesArrive, ~slipped
               PROVE  IsPrefix(decoded, sent)
      BY DEF PayloadsRestored
  <2>1. SerialTypes
      BY DEF SerialInv
  <2>2. /\ Len(sent) \in Nat /\ DOMAIN sent = 1 .. Len(sent)
        /\ \A k \in 1 .. Len(sent) : sent[k] \in Seq(Octets) /\ sent[k] \in Payloads
    <3>1. sent \in Seq(Payloads)
        BY <2>1 DEF SerialTypes
    <3>2. QED
        BY <2>1, <3>1, SentAre, ElementOfSeq
  <2>3. \A k \in 1 .. Len(sent) : Stored(sent[k]) = sent[k]
      BY <2>2, PlainIsStored
  <2>4. [k \in DOMAIN sent |-> Stored(sent[k])] = [k \in DOMAIN sent |-> sent[k]]
      BY <2>2, <2>3
  <2>5. [k \in DOMAIN sent |-> sent[k]] = sent
      BY <2>1, LenProperties DEF SerialTypes
  <2>6. IsPrefix(decoded, [k \in DOMAIN sent |-> Stored(sent[k])])
      BY DEF FramesArrive
  <2>7. QED
      BY <2>4, <2>5, <2>6
<1>2. QED
    BY <1>1, FramesAlwaysArrive, SerialInvariant, PTL
================================================================================
