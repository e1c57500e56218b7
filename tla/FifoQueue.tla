------------------------------- MODULE FifoQueue -------------------------------
(***************************************************************************)
(* What a client of alloc::Queue relies on: objects come out in the order  *)
(* they went in, an object can be taken out of the middle with the handle  *)
(* its push returned, and a push is refused only when the queue holds Size *)
(* objects.                                                                *)
(***************************************************************************)
EXTENDS Naturals, Sequences

CONSTANTS Size,    \* SIZE
          Handle,  \* what push returns
          Object,  \* what is queued
          NULL

VARIABLES content,  \* the queued entries [at, obj], next to pop first
          pushed,   \* the result of the last push
          peeked    \* the result of the last peek

vars == <<content, pushed, peeked>>

Entry == [at : Handle, obj : Object]

Init == content = <<>> /\ pushed = NULL /\ peeked = NULL

Push(obj) ==
    IF Len(content) = Size
    THEN /\ pushed' = NULL
         /\ UNCHANGED <<content, peeked>>
    ELSE \E h \in Handle :
            /\ \A i \in 1 .. Len(content) : content[i].at # h
            /\ content' = Append(content, [at |-> h, obj |-> obj])
            /\ pushed' = h
            /\ UNCHANGED peeked

Pop ==
    /\ content # <<>>
    /\ content' = Tail(content)
    /\ UNCHANGED <<pushed, peeked>>

PeekFront ==
    /\ peeked' = IF content = <<>> THEN NULL ELSE Head(content).obj
    /\ UNCHANGED <<content, pushed>>

Remove(h) ==
    \E i \in 1 .. Len(content) :
        /\ content[i].at = h
        /\ content' = SubSeq(content, 1, i - 1)
                         \o SubSeq(content, i + 1, Len(content))
        /\ UNCHANGED <<pushed, peeked>>

Next ==
    \/ \E obj \in Object : Push(obj)
    \/ Pop
    \/ PeekFront
    \/ \E h \in Handle : Remove(h)

Spec == Init /\ [][Next]_vars
================================================================================
