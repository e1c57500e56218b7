------------------------------- MODULE FreeList -------------------------------
(* Sequences without repetition: a list of free objects must not offer an   *)
(* object twice, nor a queue of tasks call a task twice.                   *)
EXTENDS Integers, Sequences

NoDuplicates(s) == \A i, j \in 1 .. Len(s) : s[i] = s[j] => i = j

\* x is in s at most once.
AtMostOnce(s, x) == \A i, j \in 1 .. Len(s) : s[i] = x /\ s[j] = x => i = j
===============================================================================
