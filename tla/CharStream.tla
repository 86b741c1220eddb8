----------------------------- MODULE CharStream -----------------------------
(***************************************************************************)
(* What one direction of the console promises: characters leave in the     *)
(* order in which they were put in, each of them once.  The characters are *)
(* numbered, Marks of them before the numbers repeat.                      *)
(***************************************************************************)
EXTENDS Integers, Sequences

CONSTANTS
    Marks,       \* distinct characters; more than are ever under way
    Capacity     \* characters that may be under way

VARIABLES
    next,        \* the number of the next character put in
    taken,       \* the number of the next character taken out
    queue        \* the characters under way

Init == next = 0 /\ taken = 0 /\ queue = <<>>

Put(n) ==
    /\ Len(queue) + n <= Capacity
    /\ queue' = queue \o [k \in 1 .. n |-> (next + k - 1) % Marks]
    /\ next' = (next + n) % Marks
    /\ UNCHANGED taken

Take(n) ==
    /\ n <= Len(queue)
    /\ queue' = SubSeq(queue, n + 1, Len(queue))
    /\ taken' = (taken + n) % Marks
    /\ UNCHANGED next

Next == \E n \in 1 .. Capacity : Put(n) \/ Take(n)

Spec == Init /\ [][Next]_<<next, taken, queue>>
=============================================================================
