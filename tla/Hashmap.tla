-------------------------------- MODULE Hashmap --------------------------------
(***************************************************************************)
(* hashmap/hashmap.h, with a bucket of its own for each key: a bucket is a *)
(* sequence of slots, each used or not, and a slot that is given back      *)
(* keeps its value.  A key that is added twice is there twice; get and     *)
(* remove find the first.                                                  *)
(***************************************************************************)
EXTENDS Naturals, Sequences

EmptyMap(Keys, Room, junk) ==
    [k \in Keys |-> [i \in 1 .. Room |-> [used |-> FALSE, val |-> junk]]]

FirstSlot(bucket, u) ==
    CHOOSE i \in DOMAIN bucket :
        bucket[i].used = u /\ \A j \in 1 .. i - 1 : bucket[j].used # u
HasSlot(bucket, u) == \E i \in DOMAIN bucket : bucket[i].used = u

\* add: the slot whose value the caller sets; 0 stands for NULL.
AddSlot(m, k) == IF HasSlot(m[k], FALSE) THEN FirstSlot(m[k], FALSE) ELSE 0
Added(m, k) ==
    IF AddSlot(m, k) = 0 THEN m ELSE [m EXCEPT ![k][AddSlot(m, k)].used = TRUE]
Store(m, k, i, v) == [m EXCEPT ![k][i].val = v]

\* get; 0 stands for NULL.
GetSlot(m, k) == IF HasSlot(m[k], TRUE) THEN FirstSlot(m[k], TRUE) ELSE 0

\* remove, of a key that is there or not.
Removed(m, k) ==
    IF GetSlot(m, k) = 0 THEN m ELSE [m EXCEPT ![k][GetSlot(m, k)].used = FALSE]

UsedSlots(m, k) == {i \in DOMAIN m[k] : m[k][i].used}
================================================================================
