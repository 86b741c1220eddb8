------------------------------ MODULE MCTicks -------------------------------
(* A count of ticks that rolls over at 4, two alarms, the timer and one    *)
(* other interrupt, and a second of six microseconds.                      *)
EXTENDS Ticks

MCTimes == {[sec |-> 1, usec |-> 4]}
=============================================================================
