------------------------------- MODULE Alarms -------------------------------
(***************************************************************************)
(* What the alarms of the runtime promise their users: each running alarm  *)
(* counts the ticks down and calls back when none is left, before the next *)
(* tick; the answer of the callback is the next interval, or zero to end.  *)
(***************************************************************************)
EXTENDS Integers

CONSTANTS
    AlarmIds,   \* the alarms
    Intervals,  \* the numbers of ticks they are started with
    Periods     \* the answers of the callbacks

Off == -1

VARIABLE left   \* ticks until the callback, or Off

Init == left = [a \in AlarmIds |-> Off]

Start(a, n) == left[a] = Off /\ left' = [left EXCEPT ![a] = n + 1]
Stop(a)     == left' = [left EXCEPT ![a] = Off]

(* A tick comes only when every callback of the last one has been made.    *)
Tick ==
    /\ \A a \in AlarmIds : left[a] # 0
    /\ left' = [a \in AlarmIds |-> IF left[a] = Off THEN Off ELSE left[a] - 1]

(* A callback may stop an alarm, or start another.                         *)
CallBack(a, p) ==
    LET renewed == [left EXCEPT ![a] = IF p = 0 THEN Off ELSE p] IN
    /\ left[a] = 0
    /\ \/ left' = renewed
       \/ \E b \in AlarmIds : left' = [renewed EXCEPT ![b] = Off]
       \/ \E b \in AlarmIds \ {a}, n \in Intervals :
             left[b] = Off /\ left' = [renewed EXCEPT ![b] = n + 1]

Next ==
    \/ Tick
    \/ \E a \in AlarmIds : \/ Stop(a)
                           \/ \E n \in Intervals : Start(a, n)
                           \/ \E p \in Periods : CallBack(a, p)

Spec == Init /\ [][Next]_left
=============================================================================
