------------------------------- MODULE PoolSpec -------------------------------
(***************************************************************************)
(* What alloc::Pool promises its clients: it hands out the objects of a    *)
(* fixed array, least recently freed first, never one that is still out,   *)
(* and it refuses to free an object that is not out or is not its own.     *)
(***************************************************************************)
EXTENDS FreeList

CONSTANTS Size,     \* the number of objects
          Foreign,  \* objects of other pools
          NULL

Desc == 1 .. Size

VARIABLES free,  \* the objects that may be handed out, next one first
          out,   \* the objects handed out and not freed since
          got,   \* what the last alloc returned
          freed  \* what the last free returned

vars == <<free, out, got, freed>>

Init ==
    /\ free = [i \in 1 .. Size |-> i]
    /\ out = {}
    /\ got = NULL
    /\ freed = TRUE

Alloc ==
    IF free = <<>>
    THEN /\ got' = NULL
         /\ UNCHANGED <<free, out, freed>>
    ELSE /\ got' = Head(free)
         /\ free' = Tail(free)
         /\ out' = out \cup {Head(free)}
         /\ UNCHANGED freed

Free(d) ==
    /\ freed' = (d \in out)
    /\ free' = IF d \in out THEN Append(free, d) ELSE free
    /\ out' = out \ {d}
    /\ UNCHANGED got

Next == Alloc \/ \E d \in Desc \cup Foreign : Free(d)

Spec == Init /\ [][Next]_vars

-----------------------------------------------------------------------------
TypeOK ==
    /\ free \in Seq(Desc)
    /\ out \in SUBSET Desc
    /\ got \in Desc \cup {NULL}
    /\ freed \in BOOLEAN

(***************************************************************************)
(* An object is on the free list at most once and never while it is out,   *)
(* and no object leaks: the note at pool.h:53-54 allows a double free to   *)
(* put an object on the free list twice.                                   *)
(***************************************************************************)
FreeListExact ==
    /\ NoDuplicates(free)
    /\ \A d \in Desc : d \in out <=> \A i \in 1 .. Len(free) : free[i] # d
=============================================================================
