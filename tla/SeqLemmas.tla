------------------------------ MODULE SeqLemmas ------------------------------
(***************************************************************************)
(* Lemmas about sequences: the last occurrence of a value, a sequence from *)
(* which an element is cut out, lists of free objects, taken at the front  *)
(* and given back at the end, ranges and prefixes; and about induction:    *)
(* over the numbers up to one, for values computed alike step by step, and *)
(* for the existence of functions that are built step by step, which is    *)
(* what a recursive function needs.  Inductions are by the least           *)
(* counterexample (WFMin).                                                 *)
(***************************************************************************)
EXTENDS FreeList, SequenceTheorems, WellFoundedInduction, TLAPS

-----------------------------------------------------------------------------
(* Occurrences. *)

\* What occurs in a sequence has a last occurrence.
LEMMA LastOccurrence ==
    ASSUME NEW S, NEW s \in Seq(S), NEW x, \E i \in 1 .. Len(s) : s[i] = x
    PROVE  \E i \in 1 .. Len(s) :
              s[i] = x /\ \A j \in i + 1 .. Len(s) : s[j] # x
<1> DEFINE T == {k \in 0 .. Len(s) - 1 : s[Len(s) - k] = x}
<1>1. Len(s) \in Nat
    BY LenProperties
<1>2. PICK i \in 1 .. Len(s) : s[i] = x
    OBVIOUS
<1>3. Len(s) - i \in T
    BY <1>1, <1>2
<1>4. T \subseteq Nat /\ T # {}
  <2>1. T # {}
      BY <1>3
  <2>2. T \subseteq Nat
      BY <1>1
  <2>3. QED
      BY <2>1, <2>2
<1>5. PICK k \in T : \A m \in T : <<m, k>> \notin OpToRel(<, Nat)
    BY <1>4, NatLessThanWellFounded, WFMin, Zenon
<1>6. \A m \in T : ~(m < k)
    BY <1>4, <1>5 DEF OpToRel
<1>7. ASSUME NEW j \in Len(s) - k + 1 .. Len(s), s[j] = x
      PROVE  FALSE
  <2>1. Len(s) - j \in T /\ Len(s) - j < k
      BY <1>1, <1>4, <1>7
  <2>2. QED
      BY <2>1, <1>6
<1>8. Len(s) - k \in 1 .. Len(s) /\ s[Len(s) - k] = x
    BY <1>1
<1>9. QED
    BY <1>7, <1>8

\* A sequence from which the k-th element has been cut out.
Without(s, k) == SubSeq(s, 1, k - 1) \o SubSeq(s, k + 1, Len(s))

LEMMA WithoutProperties ==
    ASSUME NEW S, NEW s \in Seq(S), NEW k \in 1 .. Len(s)
    PROVE  /\ Without(s, k) \in Seq(S)
           /\ Len(Without(s, k)) = Len(s) - 1
           /\ \A i \in 1 .. Len(s) - 1 :
                 Without(s, k)[i] = IF i < k THEN s[i] ELSE s[i + 1]
<1> DEFINE a == SubSeq(s, 1, k - 1)
           b == SubSeq(s, k + 1, Len(s))
<1>1. Len(s) \in Nat /\ \A i \in 1 .. Len(s) : s[i] \in S
    BY LenProperties, ElementOfSeq
<1>2. /\ a \in Seq(S)
      /\ Len(a) = k - 1
      /\ \A i \in 1 .. k - 1 : a[i] = s[i]
  <2>1. 1 \in Int /\ k - 1 \in Int /\ \A i \in 1 .. k - 1 : s[i] \in S
      BY <1>1
  <2>2. /\ a \in Seq(S)
        /\ Len(a) = IF 1 <= k - 1 THEN k - 1 - 1 + 1 ELSE 0
        /\ \A i \in 1 .. k - 1 - 1 + 1 : a[i] = s[1 + i - 1]
      BY <2>1, SubSeqProperties
  <2> HIDE DEF a
  <2>3. QED
      BY <2>2, <1>1
<1>3. /\ b \in Seq(S)
      /\ Len(b) = Len(s) - k
      /\ \A i \in 1 .. Len(s) - k : b[i] = s[k + i]
  <2>1. k + 1 \in Int /\ Len(s) \in Int
        /\ \A i \in k + 1 .. Len(s) : s[i] \in S
      BY <1>1
  <2>2. /\ b \in Seq(S)
        /\ Len(b) = IF k + 1 <= Len(s) THEN Len(s) - (k + 1) + 1 ELSE 0
        /\ \A i \in 1 .. Len(s) - (k + 1) + 1 : b[i] = s[k + 1 + i - 1]
      BY <2>1, SubSeqProperties
  <2> HIDE DEF b
  <2>3. QED
      BY <2>2, <1>1
<1>4. /\ a \o b \in Seq(S)
      /\ Len(a \o b) = Len(a) + Len(b)
      /\ \A i \in 1 .. Len(a) + Len(b) :
            (a \o b)[i] = IF i <= Len(a) THEN a[i] ELSE b[i - Len(a)]
    BY <1>2, <1>3, ConcatProperties
<1>5. Without(s, k) = a \o b
    BY DEF Without
<1> HIDE DEF a, b
<1>6. /\ Without(s, k) \in Seq(S)
      /\ Len(Without(s, k)) = Len(s) - 1
    BY <1>1, <1>2, <1>3, <1>4, <1>5
<1>7. ASSUME NEW i \in 1 .. Len(s) - 1
      PROVE  (a \o b)[i] = IF i < k THEN s[i] ELSE s[i + 1]
  <2>1. Len(a) + Len(b) = Len(s) - 1
      BY <1>1, <1>2, <1>3
  <2>2. (a \o b)[i] = IF i <= k - 1 THEN a[i] ELSE b[i - (k - 1)]
      BY <1>2, <1>4, <2>1
  <2>3. CASE i < k
    <3>1. i \in 1 .. k - 1 /\ i <= k - 1
        BY <1>1, <2>3
    <3>2. QED
        BY <2>2, <2>3, <3>1, <1>2
  <2>4. CASE ~(i < k)
    <3>1. /\ i - (k - 1) \in 1 .. Len(s) - k
          /\ ~(i <= k - 1)
          /\ k + (i - (k - 1)) = i + 1
        BY <1>1, <2>4
    <3>2. QED
        BY <2>2, <2>4, <3>1, <1>3
  <2>5. QED
      BY <2>3, <2>4
<1>8. QED
    BY <1>5, <1>6, <1>7

-----------------------------------------------------------------------------
(* What happens to one element of a queue when others come and go. *)

Occurs(s, x) == \E i \in 1 .. Len(s) : s[i] = x
Keeps(s, r, x) == (Occurs(r, x) <=> Occurs(s, x)) /\ (AtMostOnce(s, x) => AtMostOnce(r, x))

\* Another element is appended.
LEMMA AppendKeeps ==
    ASSUME NEW S, NEW s \in Seq(S), NEW m \in S, NEW x, x # m
    PROVE  Keeps(s, Append(s, m), x)
<1> DEFINE g == Append(s, m)
<1>1. /\ Len(s) \in Nat
      /\ Len(g) = Len(s) + 1
      /\ \A i \in 1 .. Len(s) : g[i] = s[i]
      /\ g[Len(s) + 1] = m
    BY AppendProperties, LenProperties
<1> HIDE DEF g
<1>2. \A i \in 1 .. Len(g) : i \in 1 .. Len(s) \/ i = Len(s) + 1
    BY <1>1
<1>3. \A i \in 1 .. Len(s) : i \in 1 .. Len(g)
    BY <1>1
<1>4. Occurs(g, x) <=> Occurs(s, x)
    BY <1>1, <1>2, <1>3 DEF Occurs
<1>5. AtMostOnce(s, x) => AtMostOnce(g, x)
    BY <1>1, <1>2 DEF AtMostOnce
<1>6. QED
    BY <1>4, <1>5 DEF Keeps, g

\* It is appended itself.
LEMMA AppendPuts ==
    ASSUME NEW S, NEW s \in Seq(S), NEW m \in S, ~Occurs(s, m)
    PROVE  Occurs(Append(s, m), m) /\ AtMostOnce(Append(s, m), m)
<1> DEFINE g == Append(s, m)
<1>1. /\ Len(s) \in Nat
      /\ Len(g) = Len(s) + 1
      /\ \A i \in 1 .. Len(s) : g[i] = s[i]
      /\ g[Len(s) + 1] = m
    BY AppendProperties, LenProperties
<1> HIDE DEF g
<1>2. \A i \in 1 .. Len(g) : g[i] = m => i = Len(s) + 1
    BY <1>1 DEF Occurs
<1>3. Len(s) + 1 \in 1 .. Len(g)
    BY <1>1
<1>4. Occurs(g, m)
    BY <1>1, <1>3 DEF Occurs
<1>5. AtMostOnce(g, m)
    BY <1>2 DEF AtMostOnce
<1>6. QED
    BY <1>4, <1>5 DEF g

\* Another element is cut out.
LEMMA WithoutKeeps ==
    ASSUME NEW S, NEW s \in Seq(S), NEW k \in 1 .. Len(s), NEW x, x # s[k]
    PROVE  Keeps(s, Without(s, k), x)
<1> DEFINE g == Without(s, k)
<1>1. /\ Len(s) \in Nat
      /\ Len(g) = Len(s) - 1
      /\ \A i \in 1 .. Len(s) - 1 : g[i] = IF i < k THEN s[i] ELSE s[i + 1]
    BY WithoutProperties, LenProperties
<1> HIDE DEF g
<1>2. ASSUME NEW i \in 1 .. Len(s), s[i] = x
      PROVE  \E j \in 1 .. Len(g) : g[j] = x
  <2>1. CASE i < k
    <3>1. i \in 1 .. Len(g) /\ g[i] = s[i]
        BY <1>1, <2>1
    <3>2. QED
        BY <1>2, <3>1
  <2>2. CASE ~(i < k)
    <3>1. i # k
        BY <1>2
    <3>2. i - 1 \in 1 .. Len(s) - 1 /\ ~(i - 1 < k) /\ i - 1 + 1 = i
        BY <1>1, <2>2, <3>1
    <3>3. g[i - 1] = s[i] /\ i - 1 \in 1 .. Len(g)
        BY <1>1, <3>2
    <3>4. QED
        BY <1>2, <3>3
  <2>3. QED
      BY <2>1, <2>2
<1> DEFINE old(i) == IF i < k THEN i ELSE i + 1
<1>3. /\ \A i \in 1 .. Len(g) : old(i) \in 1 .. Len(s) /\ g[i] = s[old(i)]
      /\ \A i, j \in 1 .. Len(g) : old(i) = old(j) => i = j
    BY <1>1
<1> HIDE DEF old
<1>4. Occurs(g, x) <=> Occurs(s, x)
    BY <1>2, <1>3 DEF Occurs
<1>5. AtMostOnce(s, x) => AtMostOnce(g, x)
    BY <1>3 DEF AtMostOnce
<1>6. QED
    BY <1>4, <1>5 DEF Keeps, g

\* The front element is taken: one that was there once is gone if it was it.
LEMMA TailTakes ==
    ASSUME NEW S, NEW s \in Seq(S), s # <<>>, NEW x, AtMostOnce(s, x)
    PROVE  /\ AtMostOnce(Tail(s), x)
           /\ Occurs(Tail(s), x) <=> x # Head(s) /\ Occurs(s, x)
<1> DEFINE g == Tail(s)
<1>1. /\ Head(s) = s[1]
      /\ Len(s) \in Nat \ {0}
      /\ Len(g) = Len(s) - 1
      /\ \A i \in 1 .. Len(g) : g[i] = s[i + 1]
    BY HeadTailProperties, LenProperties, EmptySeq
<1> HIDE DEF g
<1>2. \A i \in 1 .. Len(g) : i + 1 \in 1 .. Len(s) /\ i + 1 # 1
    BY <1>1
<1>3. 1 \in 1 .. Len(s)
    BY <1>1
<1>4. AtMostOnce(g, x)
  <2>1. ASSUME NEW i \in 1 .. Len(g), NEW j \in 1 .. Len(g), g[i] = x, g[j] = x
        PROVE  i = j
    <3>1. i + 1 = j + 1
        BY <1>1, <1>2, <2>1 DEF AtMostOnce
    <3>2. QED
        BY <3>1
  <2>2. QED
      BY <2>1 DEF AtMostOnce
<1>5. ASSUME Occurs(g, x) PROVE x # Head(s) /\ Occurs(s, x)
    BY <1>1, <1>2, <1>3, <1>5 DEF Occurs, AtMostOnce
<1>6. ASSUME x # Head(s), Occurs(s, x) PROVE Occurs(g, x)
  <2>1. PICK i \in 1 .. Len(s) : s[i] = x
      BY <1>6 DEF Occurs
  <2>2. i # 1
      BY <1>1, <1>6, <2>1
  <2>3. i - 1 \in 1 .. Len(g) /\ i - 1 + 1 = i
      BY <1>1, <2>2
  <2>4. QED
      BY <1>1, <2>1, <2>3 DEF Occurs
<1>7. QED
    BY <1>4, <1>5, <1>6 DEF g

-----------------------------------------------------------------------------
(* Ranges. *)

\* What a sequence holds after an append, a pop, and a cut.
LEMMA RangeAppend ==
    ASSUME NEW S, NEW f \in Seq(S), NEW m \in S
    PROVE  Range(Append(f, m)) = Range(f) \cup {m}
<1> DEFINE g == Append(f, m)
<1>1. /\ Len(f) \in Nat
      /\ g \in Seq(S) /\ Len(g) = Len(f) + 1
      /\ \A i \in 1 .. Len(f) : g[i] = f[i]
      /\ g[Len(f) + 1] = m
    BY AppendProperties, LenProperties
<1> HIDE DEF g
<1>2. /\ Range(f) = {f[i] : i \in 1 .. Len(f)}
      /\ Range(g) = {g[i] : i \in 1 .. Len(g)}
    BY <1>1, RangeEquality
<1>3. \A i \in 1 .. Len(g) : i \in 1 .. Len(f) \/ i = Len(f) + 1
    BY <1>1
<1>4. /\ \A i \in 1 .. Len(f) : i \in 1 .. Len(g)
      /\ Len(f) + 1 \in 1 .. Len(g)
    BY <1>1
<1>5. Range(g) = Range(f) \cup {m}
    BY <1>1, <1>2, <1>3, <1>4
<1>6. QED
    BY <1>5 DEF g

\* An element put before the others.
LEMMA FrontProperties ==
    ASSUME NEW S, NEW s \in Seq(S), NEW m \in S
    PROVE  /\ <<m>> \o s \in Seq(S)
           /\ Len(<<m>> \o s) = Len(s) + 1
           /\ (<<m>> \o s)[1] = m
           /\ \A i \in 2 .. Len(s) + 1 : (<<m>> \o s)[i] = s[i - 1]
           /\ Range(<<m>> \o s) = Range(s) \cup {m}
<1> DEFINE o == <<m>>
           g == o \o s
<1>1. Len(s) \in Nat /\ o \in Seq(S) /\ Len(o) = 1 /\ o[1] = m
    BY LenProperties
<1>2. /\ g \in Seq(S) /\ Len(g) = Len(o) + Len(s)
      /\ \A i \in 1 .. Len(o) + Len(s) :
            g[i] = IF i <= Len(o) THEN o[i] ELSE s[i - Len(o)]
  <2> HIDE DEF o
  <2>1. QED
      BY <1>1, ConcatProperties
<1> HIDE DEF g, o
<1>3. /\ Len(g) = Len(s) + 1
      /\ g[1] = m
      /\ \A i \in 2 .. Len(s) + 1 : g[i] = s[i - 1]
    BY <1>1, <1>2
<1>4. /\ Range(s) = {s[i] : i \in 1 .. Len(s)}
      /\ Range(g) = {g[i] : i \in 1 .. Len(s) + 1}
    BY <1>2, <1>3, RangeEquality
<1>5. ASSUME NEW i \in 1 .. Len(s)
      PROVE  s[i] \in Range(g)
  <2>1. i + 1 \in 2 .. Len(s) + 1 /\ i + 1 \in 1 .. Len(s) + 1 /\ i + 1 - 1 = i
      BY <1>1
  <2>2. g[i + 1] = s[i]
      BY <1>3, <2>1
  <2>3. QED
      BY <1>4, <2>1, <2>2
<1>6. ASSUME NEW i \in 1 .. Len(s) + 1
      PROVE  g[i] = m \/ g[i] \in Range(s)
  <2>1. CASE i = 1
      BY <1>3, <2>1
  <2>2. CASE i # 1
    <3>1. i \in 2 .. Len(s) + 1 /\ i - 1 \in 1 .. Len(s)
        BY <1>1, <2>2
    <3>2. QED
        BY <1>3, <1>4, <3>1
  <2>3. QED
      BY <2>1, <2>2
<1>7. m \in Range(g)
  <2>1. 1 \in 1 .. Len(s) + 1
      BY <1>1
  <2>2. QED
      BY <1>3, <1>4, <2>1
<1>8. Range(g) = Range(s) \cup {m}
    BY <1>4, <1>5, <1>6, <1>7
<1>9. QED
    BY <1>2, <1>3, <1>8 DEF g, o

LEMMA RangeWithout ==
    ASSUME NEW S, NEW f \in Seq(S), NoDuplicates(f), NEW k \in 1 .. Len(f)
    PROVE  /\ Range(Without(f, k)) = Range(f) \ {f[k]}
           /\ NoDuplicates(Without(f, k))
<1> DEFINE g == Without(f, k)
<1>1. /\ Len(f) \in Nat
      /\ g \in Seq(S) /\ Len(g) = Len(f) - 1
      /\ \A i \in 1 .. Len(f) - 1 : g[i] = IF i < k THEN f[i] ELSE f[i + 1]
    BY WithoutProperties, LenProperties
<1> HIDE DEF g
<1>2. /\ Range(f) = {f[i] : i \in 1 .. Len(f)}
      /\ Range(g) = {g[i] : i \in 1 .. Len(f) - 1}
    BY <1>1, RangeEquality
<1>3. \A i, j \in 1 .. Len(f) : f[i] = f[j] => i = j
    BY DEF NoDuplicates
<1>4. ASSUME NEW i \in 1 .. Len(f) - 1
      PROVE  /\ i < k => i \in 1 .. Len(f) /\ i # k
             /\ ~(i < k) => i + 1 \in 1 .. Len(f) /\ i + 1 # k
    BY <1>1
<1>5. ASSUME NEW i \in 1 .. Len(f) - 1
      PROVE  g[i] \in Range(f) /\ g[i] # f[k]
  <2>1. PICK j \in 1 .. Len(f) : j # k /\ g[i] = f[j]
    <3>1. CASE i < k
        BY <1>1, <1>4, <3>1
    <3>2. CASE ~(i < k)
        BY <1>1, <1>4, <3>2
    <3>3. QED
        BY <3>1, <3>2
  <2>2. QED
      BY <1>2, <1>3, <2>1
<1>6. ASSUME NEW i \in 1 .. Len(f), i # k
      PROVE  f[i] \in Range(g)
  <2>1. CASE i < k
    <3>1. i \in 1 .. Len(f) - 1 /\ g[i] = f[i]
        BY <1>1, <2>1
    <3>2. QED
        BY <1>2, <3>1
  <2>2. CASE ~(i < k)
    <3>1. i - 1 \in 1 .. Len(f) - 1 /\ ~(i - 1 < k) /\ i - 1 + 1 = i
        BY <1>1, <1>6, <2>2
    <3>2. g[i - 1] = f[i]
        BY <1>1, <3>1
    <3>3. QED
        BY <1>2, <3>1, <3>2
  <2>3. QED
      BY <2>1, <2>2
<1>7. Range(g) = Range(f) \ {f[k]}
  <2>1. ASSUME NEW x \in Range(g) PROVE x \in Range(f) /\ x # f[k]
    <3>1. PICK i \in 1 .. Len(f) - 1 : x = g[i]
        BY <1>2
    <3>2. QED
        BY <1>5, <3>1
  <2>2. ASSUME NEW x \in Range(f), x # f[k] PROVE x \in Range(g)
    <3>1. PICK i \in 1 .. Len(f) : x = f[i]
        BY <1>2
    <3>2. QED
        BY <1>6, <2>2, <3>1
  <2>3. QED
      BY <2>1, <2>2
<1>8. NoDuplicates(g)
  <2>1. ASSUME NEW i \in 1 .. Len(f) - 1, NEW j \in 1 .. Len(f) - 1, g[i] = g[j]
        PROVE  i = j
    <3>1. i \in Int /\ j \in Int /\ k \in Int
        BY <1>1
    <3>2. CASE i < k /\ j < k
        BY <1>1, <1>3, <1>4, <2>1, <3>2
    <3>3. CASE ~(i < k) /\ ~(j < k)
      <4>1. i + 1 = j + 1
          BY <1>1, <1>3, <1>4, <2>1, <3>3
      <4>2. QED
          BY <3>1, <4>1
    <3>4. CASE i < k /\ ~(j < k)
      <4>1. i = j + 1
          BY <1>1, <1>3, <1>4, <2>1, <3>4
      <4>2. QED
          BY <3>1, <3>4, <4>1
    <3>5. CASE ~(i < k) /\ j < k
      <4>1. i + 1 = j
          BY <1>1, <1>3, <1>4, <2>1, <3>5
      <4>2. QED
          BY <3>1, <3>5, <4>1
    <3>6. QED
        BY <3>2, <3>3, <3>4, <3>5
  <2>2. QED
      BY <1>1, <2>1 DEF NoDuplicates
<1>9. QED
    BY <1>7, <1>8 DEF g

LEMMA RangeTail ==
    ASSUME NEW S, NEW f \in Seq(S), NoDuplicates(f), f # <<>>
    PROVE  /\ Range(Tail(f)) = Range(f) \ {Head(f)}
           /\ Tail(f) = Without(f, 1)
<1>1. /\ Len(f) \in Nat \ {0}
      /\ Tail(f) \in Seq(S) /\ Len(Tail(f)) = Len(f) - 1
      /\ \A i \in 1 .. Len(f) - 1 : Tail(f)[i] = f[i + 1]
    BY EmptySeq, LenProperties, HeadTailProperties
<1>2. 1 \in 1 .. Len(f)
    BY <1>1
<1>3. /\ Without(f, 1) \in Seq(S) /\ Len(Without(f, 1)) = Len(f) - 1
      /\ \A i \in 1 .. Len(f) - 1 :
            Without(f, 1)[i] = IF i < 1 THEN f[i] ELSE f[i + 1]
    BY <1>2, WithoutProperties
<1>4. Tail(f) = Without(f, 1)
    BY <1>1, <1>3, SeqEqual
<1>5. Range(Without(f, 1)) = Range(f) \ {f[1]}
    BY <1>2, RangeWithout
<1>6. Head(f) = f[1]
    BY <1>1
<1>7. QED
    BY <1>4, <1>5, <1>6

-----------------------------------------------------------------------------
(* Free lists. *)

\* Taking the first node of a free list without duplicates makes that node,
\* and no other, live.
LEMMA TakeFree ==
    ASSUME NEW Node, NEW f \in Seq(Node), NoDuplicates(f), f # <<>>
    PROVE  /\ NoDuplicates(Tail(f))
           /\ \A n \in Node : (\A i \in 1 .. Len(Tail(f)) : Tail(f)[i] # n)
                 <=> n = Head(f) \/ (\A i \in 1 .. Len(f) : f[i] # n)
<1>1. /\ Head(f) = f[1]
      /\ Len(f) \in Nat \ {0}
      /\ Len(Tail(f)) = Len(f) - 1
      /\ \A i \in 1 .. Len(Tail(f)) : Tail(f)[i] = f[i + 1]
    BY HeadTailProperties, LenProperties, EmptySeq
<1>2. NoDuplicates(Tail(f))
  <2>1. ASSUME NEW i \in 1 .. Len(Tail(f)), NEW j \in 1 .. Len(Tail(f)),
               Tail(f)[i] = Tail(f)[j]
        PROVE  i = j
    <3>1. i + 1 \in 1 .. Len(f) /\ j + 1 \in 1 .. Len(f) /\ f[i + 1] = f[j + 1]
        BY <1>1, <2>1
    <3>2. i + 1 = j + 1
        BY <3>1 DEF NoDuplicates
    <3>3. QED
        BY <3>2, <1>1
  <2>2. QED
      BY <2>1 DEF NoDuplicates
<1>3. ASSUME NEW n \in Node, \A i \in 1 .. Len(Tail(f)) : Tail(f)[i] # n,
             NEW i \in 1 .. Len(f), f[i] = n
      PROVE  n = Head(f)
  <2>1. CASE i = 1
      BY <1>1, <1>3, <2>1
  <2>2. CASE i # 1
    <3>1. i - 1 \in 1 .. Len(Tail(f)) /\ i - 1 + 1 = i
        BY <1>1, <2>2
    <3>2. QED
        BY <1>1, <1>3, <3>1
  <2>3. QED
      BY <2>1, <2>2
<1>4. ASSUME NEW i \in 1 .. Len(Tail(f))
      PROVE  Tail(f)[i] # Head(f) /\ \E j \in 1 .. Len(f) : f[j] = Tail(f)[i]
  <2>1. i + 1 \in 1 .. Len(f) /\ 1 \in 1 .. Len(f) /\ i + 1 # 1
      BY <1>1
  <2>2. QED
      BY <1>1, <2>1 DEF NoDuplicates
<1>5. QED
    BY <1>2, <1>3, <1>4

\* Giving back a node that is not on the list ends its life.
LEMMA GiveFree ==
    ASSUME NEW Node, NEW f \in Seq(Node), NEW m \in Node,
           NoDuplicates(f), \A i \in 1 .. Len(f) : f[i] # m
    PROVE  /\ NoDuplicates(Append(f, m))
           /\ \A n \in Node :
                 (\A i \in 1 .. Len(Append(f, m)) : Append(f, m)[i] # n)
                    <=> n # m /\ (\A i \in 1 .. Len(f) : f[i] # n)
<1> DEFINE g == Append(f, m)
<1>1. /\ Len(f) \in Nat
      /\ Len(g) = Len(f) + 1
      /\ \A i \in 1 .. Len(f) : g[i] = f[i]
      /\ g[Len(f) + 1] = m
    BY AppendProperties, LenProperties
<1> HIDE DEF g
<1>2. \A i \in 1 .. Len(g) : i \in 1 .. Len(f) \/ i = Len(f) + 1
    BY <1>1
<1>3. NoDuplicates(g)
    BY <1>1, <1>2 DEF NoDuplicates
<1>4. ASSUME NEW n \in Node
      PROVE  (\A i \in 1 .. Len(g) : g[i] # n)
                <=> n # m /\ (\A i \in 1 .. Len(f) : f[i] # n)
  <2>1. Len(f) + 1 \in 1 .. Len(g) /\ \A i \in 1 .. Len(f) : i \in 1 .. Len(g)
      BY <1>1
  <2>2. QED
      BY <1>1, <1>2, <2>1
<1>5. QED
    BY <1>3, <1>4 DEF g

-----------------------------------------------------------------------------
(* Prefixes. *)

\* The first n elements of a sequence.
Prefix(s, n) == [j \in 1 .. n |-> s[j]]

LEMMA PrefixGrows ==
    ASSUME NEW S, NEW s \in Seq(S), NEW n \in 0 .. Len(s)
    PROVE  /\ Prefix(s, n) \in Seq(S)
           /\ Len(Prefix(s, n)) = n
           /\ n < Len(s) => Append(Prefix(s, n), s[n + 1]) = Prefix(s, n + 1)
<1>1. Len(s) \in Nat /\ \A i \in 1 .. Len(s) : s[i] \in S
    BY LenProperties, ElementOfSeq
<1>2. \A m \in 0 .. Len(s) : Prefix(s, m) \in Seq(S) /\ Len(Prefix(s, m)) = m
  <2> SUFFICES ASSUME NEW m \in 0 .. Len(s)
               PROVE  Prefix(s, m) \in Seq(S) /\ Len(Prefix(s, m)) = m
      OBVIOUS
  <2>1. m \in Nat /\ \A i \in 1 .. m : s[i] \in S
      BY <1>1
  <2>2. QED
      BY <2>1, IsASeq DEF Prefix
<1>3. ASSUME n < Len(s)
      PROVE  Append(Prefix(s, n), s[n + 1]) = Prefix(s, n + 1)
  <2> DEFINE a == Append(Prefix(s, n), s[n + 1])
             b == Prefix(s, n + 1)
  <2>1. n + 1 \in 0 .. Len(s) /\ n + 1 \in 1 .. Len(s) /\ s[n + 1] \in S
      BY <1>1, <1>3
  <2>2. /\ a \in Seq(S) /\ Len(a) = n + 1 /\ a[n + 1] = s[n + 1]
        /\ \A i \in 1 .. n : a[i] = Prefix(s, n)[i]
      BY <1>2, <2>1, AppendProperties
  <2>3. b \in Seq(S) /\ Len(b) = n + 1 /\ \A i \in 1 .. n + 1 : b[i] = s[i]
      BY <1>2, <2>1 DEF Prefix
  <2>4. \A i \in 1 .. n : Prefix(s, n)[i] = s[i]
      BY DEF Prefix
  <2> HIDE DEF a, b
  <2>5. \A i \in 1 .. n + 1 : a[i] = b[i]
    <3>1. \A i \in 1 .. n + 1 : i \in 1 .. n \/ i = n + 1
        BY <2>1
    <3>2. QED
        BY <2>2, <2>3, <2>4, <3>1
  <2>6. a = b
      BY <2>2, <2>3, <2>5, SeqEqual
  <2>7. QED
      BY <2>6 DEF a, b
<1>4. QED
    BY <1>2, <1>3

-----------------------------------------------------------------------------
(* Induction and recursive functions. *)

\* Induction up to k: a set that holds 0, and with every number below k the
\* next one, holds them all.
LEMMA InductionUpTo ==
    ASSUME NEW k \in Nat, NEW S, 0 \in S,
           \A i \in 1 .. k : i - 1 \in S => i \in S
    PROVE  \A i \in 0 .. k : i \in S
<1> DEFINE T == {i \in 0 .. k : i \notin S}
<1>1. SUFFICES ASSUME T # {} PROVE FALSE
    OBVIOUS
<1>2. T \subseteq Nat
    OBVIOUS
<1>3. PICK n \in T : \A m \in T : <<m, n>> \notin OpToRel(<, Nat)
    BY <1>1, <1>2, NatLessThanWellFounded, WFMin, Zenon
<1>4. \A m \in T : ~(m < n)
    BY <1>2, <1>3 DEF OpToRel
<1>5. n \in 1 .. k /\ n - 1 \in 0 .. k /\ n - 1 < n
    BY <1>2
<1>6. n - 1 \in S
    BY <1>4, <1>5
<1>7. QED
    BY <1>5, <1>6

\* Two functions that start alike and take the same steps are alike.
StepAlike(f, g, k) ==
    f[0] = g[0] /\ \A i \in 1 .. k : f[i - 1] = g[i - 1] => f[i] = g[i]
LEMMA SameSteps ==
    ASSUME NEW k \in Nat, NEW f, NEW g, StepAlike(f, g, k)
    PROVE  \A i \in 0 .. k : f[i] = g[i]
<1> DEFINE S == {i \in 0 .. k : f[i] = g[i]}
<1>1. 0 \in S
    BY DEF StepAlike
<1>2. \A i \in 1 .. k : i - 1 \in S => i \in S
    BY DEF StepAlike
<1> HIDE DEF S
<1>3. \A i \in 0 .. k : i \in S
    BY <1>1, <1>2, InductionUpTo
<1>4. QED
    BY <1>3 DEF S

\* The steps 1 .. k lead from S to S.
StepsWithin(step, k, S) == \A i \in 1 .. k : \A x \in S : step[i][x] \in S

\* f is base at 0 and follows the steps within S.
IteratesWithin(f, base, step, k, S) ==
    /\ \A i \in 0 .. k : f[i] \in S
    /\ f[0] = base
    /\ \A i \in 1 .. k : f[i] = step[i][f[i - 1]]

\* A function can be built step by step from its value at 0.
LEMMA RecursionExists ==
    ASSUME NEW S, NEW k \in Nat, NEW base \in S,
           NEW step, StepsWithin(step, k, S)
    PROVE  \E f : IteratesWithin(f, base, step, k, S)
<1> DEFINE Built(f, n) == f[0] = base /\ \A i \in 1 .. n : f[i] = step[i][f[i - 1]]
           T == {n \in 0 .. k : \A f \in [0 .. n -> S] : ~Built(f, n)}
<1>1. SUFFICES ASSUME T # {} PROVE FALSE
  <2>1. k \in 0 .. k
      OBVIOUS
  <2>2. PICK f \in [0 .. k -> S] : Built(f, k)
      BY <2>1
  <2>3. \A i \in 0 .. k : f[i] \in S
      OBVIOUS
  <2>4. IteratesWithin(f, base, step, k, S)
      BY <2>2, <2>3 DEF IteratesWithin
  <2>5. QED
      BY <2>4
<1>2. T \subseteq Nat
    OBVIOUS
<1>3. PICK n \in T : \A m \in T : <<m, n>> \notin OpToRel(<, Nat)
    BY <1>1, <1>2, NatLessThanWellFounded, WFMin, Zenon
<1>4. \A m \in T : ~(m < n)
    BY <1>2, <1>3 DEF OpToRel
<1>5. n \in 0 .. k /\ \A f \in [0 .. n -> S] : ~Built(f, n)
    BY <1>3
<1>6. CASE n = 0
  <2>1. [i \in 0 .. n |-> base] \in [0 .. n -> S]
      OBVIOUS
  <2>2. Built([i \in 0 .. n |-> base], n)
      BY <1>6
  <2>3. QED
      BY <1>5, <2>1, <2>2
<1>7. CASE n # 0
  <2>1. n - 1 \in 0 .. k /\ n - 1 < n /\ n \in 1 .. k
      BY <1>5, <1>7
  <2>2. n - 1 \notin T
      BY <1>4, <2>1
  <2>3. PICK f \in [0 .. n - 1 -> S] : Built(f, n - 1)
      BY <2>1, <2>2
  <2> DEFINE g == [i \in 0 .. n |-> IF i = n THEN step[n][f[n - 1]] ELSE f[i]]
  <2>4. g \in [0 .. n -> S]
    <3>1. f[n - 1] \in S
        BY <2>1
    <3>2. step[n][f[n - 1]] \in S
        BY <2>1, <3>1 DEF StepsWithin
    <3>3. \A i \in 0 .. n : i # n => f[i] \in S
        BY <2>1
    <3>4. QED
        BY <3>2, <3>3
  <2>5. \A i \in 1 .. n : g[i] = step[i][g[i - 1]]
    <3>1. ASSUME NEW i \in 1 .. n PROVE g[i] = step[i][g[i - 1]]
      <4>1. i - 1 \in 0 .. n /\ i - 1 # n /\ i \in 0 .. n
          BY <2>1
      <4>2. CASE i = n
          BY <4>1, <4>2
      <4>3. CASE i # n
        <5>1. i \in 1 .. n - 1
            BY <2>1, <4>3
        <5>2. QED
            BY <2>3, <4>1, <4>3, <5>1
      <4>4. QED
          BY <4>2, <4>3
    <3>2. QED
        BY <3>1
  <2>6. g[0] = base
      BY <2>1, <2>3
  <2>7. Built(g, n)
      BY <2>5, <2>6
  <2>8. QED
      BY <1>5, <2>4, <2>7
<1>8. QED
    BY <1>6, <1>7
==============================================================================
