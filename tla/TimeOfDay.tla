----------------------------- MODULE TimeOfDay ------------------------------
(***************************************************************************)
(* settimeofday() and gettimeofday(): the wall clock is the number of      *)
(* ticks added to the time alt_resettime it was calibrated with.  A tick   *)
(* is a whole number of microseconds.                                      *)
(***************************************************************************)
EXTENDS Integers

CONSTANTS
    TickRange,   \* 2^32, the range of alt_u32
    US,          \* microseconds in a second, 1000000
    Rate         \* ticks in a second

ASSUME ClockAssumption ==
    /\ TickRange \in Nat /\ TickRange > 2
    /\ US \in Nat \ {0} /\ Rate \in Nat \ {0} /\ US % Rate = 0

TickLength == US \div Rate
Micros(t) == t.sec * US + t.usec

(* settimeofday() multiplies in 32 bits.                                   *)
ResetTimeMutant(t, n) == t      \* as if no tick had passed
ResetTime(t, n) ==
    [sec  |-> t.sec - n \div Rate,
     usec |-> t.usec - (((n * TickLength) % TickRange) % US)]

(* gettimeofday() multiplies in 64 bits and brings the microseconds back   *)
(* into a second; a time before the epoch is the epoch.                    *)
WallTime(reset, n) ==
    LET sec  == reset.sec + n \div Rate
        usec == reset.usec + ((n * TickLength) % US)
        carry == IF usec < 0 THEN -1 ELSE usec \div US
    IN IF usec < 0 /\ sec <= 0 THEN [sec |-> 0, usec |-> 0]
       ELSE [sec |-> sec + carry, usec |-> usec - carry * US]
=============================================================================
