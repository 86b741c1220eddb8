------------------------------- MODULE Ticks --------------------------------
(***************************************************************************)
(* The system clock of the runtime: the timer interrupt runs alt_tick,     *)
(* which counts and walks the list of alarms; the program and the          *)
(* callbacks start and stop alarms; settimeofday() and gettimeofday() read *)
(* the count.  The list is the doubly linked one of alt_llist.h.           *)
(*                                                                         *)
(* A walk is not interrupted, and neither is a callback, so that each      *)
(* alarm it visits is one step.                                            *)
(***************************************************************************)
EXTENDS Interrupts, TimeOfDay

CONSTANTS
    Timer,      \* the interrupt of the system clock
    AlarmIds,   \* the alarms of the program
    Head,       \* alt_alarm_list
    Null,       \* the pointers of an alarm that was never started
    Intervals,  \* the arguments of alt_alarm_start; the largest of alt_u32
                \* overflows to the present tick and is left out
    Periods,    \* the answers of the callbacks
    Times       \* the arguments of settimeofday()

Nodes == AlarmIds \union {Head}
InTick == [at |-> "tick"]
Ticking == 0 .. TickRange - 1

ASSUME TickAssumption ==
    /\ Timer \in Irqs
    /\ Head \notin AlarmIds /\ Null \notin Nodes
    /\ Intervals \subseteq 0 .. TickRange - 2
    /\ Periods \subseteq Ticking
    /\ Times \subseteq [sec : Nat, usec : 0 .. US - 1]

VARIABLES
    rate,        \* _alt_tick_rate
    nticks,      \* _alt_nticks
    links,       \* the pointers of the list, alt_llist
    alarms,      \* the times of the alarms
    cursor,      \* the alarm alt_tick has come to
    reset        \* alt_resettime

clock == <<rate, nticks, cursor, reset>>
list  == <<links, alarms>>
vars  == <<interruptVars, clock, list>>

Calls == InterruptCalls
    \union [op : {"start"}, alarm : AlarmIds, n : Intervals, step : 1 .. 3,
            saved : BOOLEAN]
    \union [op : {"stop"}, alarm : AlarmIds, step : {1, 3}, saved : BOOLEAN]

TypeOK ==
    /\ InterruptTypes /\ call \in Calls \union {Idle}
    /\ isr \in IsrTypes \union {InTick}
    /\ rate \in {0, Rate} /\ nticks \in Ticking
    /\ links \in [next : [Nodes -> Nodes \union {Null}],
                  prev : [Nodes -> Nodes \union {Null}]]
    /\ alarms \in [time : [AlarmIds -> Ticking], rollover : [AlarmIds -> BOOLEAN]]
    /\ cursor \in Nodes
    /\ reset \in [sec : Int, usec : Int]

Init ==
    /\ InterruptInit
    /\ rate = 0 /\ nticks = 0 /\ cursor = Head
    /\ links = [next |-> [x \in Nodes |-> IF x = Head THEN Head ELSE Null],
                prev |-> [x \in Nodes |-> IF x = Head THEN Head ELSE Null]]
    /\ alarms = [time |-> [a \in AlarmIds |-> 0],
                 rollover |-> [a \in AlarmIds |-> FALSE]]
    /\ reset = [sec |-> 0, usec |-> 0]

-----------------------------------------------------------------------------
(* alt_llist_insert at the head of the list, alt_llist_remove.             *)
Inserted(l, a) ==
    LET first == l.next[Head] IN
    [next |-> [l.next EXCEPT ![a] = first, ![Head] = a],
     prev |-> [l.prev EXCEPT ![a] = Head, ![first] = a]]

RemovedMutant(l, a) ==      \* the entry keeps its pointers
    [next |-> [l.next EXCEPT ![l.prev[a]] = l.next[a]],
     prev |-> [l.prev EXCEPT ![l.next[a]] = l.prev[a]]]
Removed(l, a) ==
    [next |-> [l.next EXCEPT ![l.prev[a]] = l.next[a], ![a] = a],
     prev |-> [l.prev EXCEPT ![l.next[a]] = l.prev[a], ![a] = a]]

Started(l, a) == l.next[a] # Null
Registered(l, a) == l.next[a] \notin {a, Null}

(* The time of an alarm, which may be after the count has rolled over.     *)
LaterMutant(t, ticks) == t + ticks      \* wider than the count
Later(t, ticks) == (t + ticks) % TickRange

SetTimeMutant(al, a, base, ticks) ==    \* no flag
    [al EXCEPT !.time[a] = Later(base, ticks)]
SetTime(al, a, base, ticks) ==
    LET time == Later(base, ticks) IN
    [time |-> [al.time EXCEPT ![a] = time],
     rollover |-> [al.rollover EXCEPT ![a] = time < nticks]]

Renewed(al, a, ticks) ==
    LET new == SetTime(al, a, al.time[a], ticks) IN
    IF al.rollover[a] THEN [new EXCEPT !.rollover[a] = TRUE] ELSE new

-----------------------------------------------------------------------------
(* The calls of the program.  The driver of the timer, if there is one,    *)
(* registers its handler and gives the rate, once.                         *)
ClockDriver ==
    /\ rate = 0 /\ rate' = Rate
    /\ \E c \in Clients : Register(Timer, c)
    /\ UNCHANGED <<nticks, cursor, reset, list>>

(* An alarm is not started while it runs, and not stopped before it was    *)
(* ever started.                                                           *)
Start(a, n) ==
    /\ rate # 0 /\ ~Registered(links, a)
    /\ Begin([op |-> "start", alarm |-> a, n |-> n, step |-> 1, saved |-> pie])
    /\ UNCHANGED <<clock, list>>
StartTime ==
    /\ At("start", 1) /\ Step(2)
    /\ alarms' = SetTime(alarms, call.alarm, nticks, call.n + 1)
    /\ UNCHANGED <<cpu, pending, isr, clock, links>>
StartLink ==
    /\ At("start", 2) /\ Step(3)
    /\ links' = Inserted(links, call.alarm)
    /\ UNCHANGED <<cpu, pending, isr, clock, alarms>>

Stop(a) ==
    /\ Started(links, a)
    /\ Begin([op |-> "stop", alarm |-> a, step |-> 1, saved |-> pie])
    /\ UNCHANGED <<clock, list>>
StopLink ==
    /\ At("stop", 1) /\ Step(3)
    /\ links' = Removed(links, call.alarm)
    /\ UNCHANGED <<cpu, pending, isr, clock, alarms>>

(* settimeofday(), in one step: a tick between its reading of the count    *)
(* and its writing would only make it set the time of the reading.         *)
SetTimeOfDay(t) ==
    /\ Runs /\ call = Idle /\ rate # 0
    /\ reset' = ResetTime(t, nticks)
    /\ UNCHANGED <<interruptVars, rate, nticks, cursor, list>>

Finish ==
    /\ \/ call # Idle /\ call.op \in {"register", "mask"} /\ End(4)
       \/ call # Idle /\ call.op \in {"start", "stop"} /\ End(3)
    /\ UNCHANGED <<clock, list>>

-----------------------------------------------------------------------------
(* alt_tick, which the handler of the timer runs.                          *)
Tick ==
    /\ isr = [at |-> "serve", irq |-> Timer] /\ isr' = InTick
    /\ pending' = pending \ {Timer}
    /\ nticks' = Later(nticks, 1)
    /\ cursor' = links.next[Head]
    /\ UNCHANGED <<cpu, call, rate, reset, list>>

(* The callback of alarm a answers p and may call alt_alarm_stop or        *)
(* alt_alarm_start; those turn interrupts off and back to what they were.  *)
(* alt_tick has already read where it goes next.                           *)
CallBack(a, al) ==
    \E p \in Periods :
        LET Answered(l, times) ==
                IF p = 0 THEN links' = Removed(l, a) /\ alarms' = times
                ELSE links' = l /\ alarms' = Renewed(times, a, p)
        IN \/ Answered(links, al) /\ UNCHANGED pie
           \/ \E b \in AlarmIds :
                 /\ Started(links, b) /\ Answered(Removed(links, b), al)
                 /\ pie' = EnableAll(pie)
           \/ \E b \in AlarmIds, n \in Intervals :
                 /\ ~Registered(links, b)
                 /\ Answered(Inserted(links, b), SetTime(al, b, nticks, n + 1))
                 /\ pie' = EnableAll(pie)

(* The flag is cleared in the tick in which the count rolls over.          *)
ClearedMutant(al, a) == al
Cleared(al, a) == IF nticks = 0 THEN [al EXCEPT !.rollover[a] = FALSE] ELSE al

Due(a, al) == al.time[a] <= nticks /\ ~al.rollover[a]

Visit ==
    /\ isr = InTick /\ cursor # Head
    /\ LET al == Cleared(alarms, cursor) IN
       IF Due(cursor, al) THEN CallBack(cursor, al)
       ELSE alarms' = al /\ UNCHANGED <<links, pie>>
    /\ cursor' = links.next[cursor]
    /\ UNCHANGED <<active, ienable, table, pending, isr, call, rate, nticks, reset>>

TickDone ==
    /\ isr = InTick /\ cursor = Head
    /\ Return(pending)
    /\ UNCHANGED <<active, ienable, table, pending, call, clock, list>>

Handlers ==
    /\ Interrupt \/ Dispatch \/ \E i \in Irqs \ {Timer} : Serve(i)
    /\ UNCHANGED <<clock, list>>

Program ==
    \/ ClockDriver
    \/ \E a \in AlarmIds : Stop(a) \/ \E n \in Intervals : Start(a, n)
    \/ \E t \in Times : SetTimeOfDay(t)
    \/ /\ UNCHANGED <<clock, list>>
       /\ \E i \in Irqs \ {Timer} : \/ \E c \in Owners : Register(i, c)
                                  \/ \E on \in BOOLEAN : SetMask(i, on)

Continues ==
    \/ StartTime \/ StartLink \/ StopLink \/ Finish
    \/ (SetHandler \/ SetContext \/ WriteMask) /\ UNCHANGED <<clock, list>>

Serves == Handlers \/ Tick \/ Visit \/ TickDone

Next ==
    \/ Program \/ Continues \/ Serves
    \/ \E i \in Irqs : Raise(i) /\ UNCHANGED <<clock, list>>

(* The processor executes the call it is in and its handlers; the timer    *)
(* does not stop.                                                          *)
Fairness ==
    /\ WF_vars(Continues) /\ WF_vars(Serves)
    /\ WF_vars(Raise(Timer) /\ UNCHANGED <<clock, list>>)

Spec == Init /\ [][Next]_vars
FairSpec == Spec /\ Fairness

-----------------------------------------------------------------------------
(* The list is a ring: each pointer has one that leads back.               *)
Ring ==
    \A x \in Nodes : Started(links, x) =>
        /\ links.next[x] \in Nodes /\ links.prev[links.next[x]] = x
        /\ links.prev[x] \in Nodes /\ links.next[links.prev[x]] = x

(* A callback has stopped the alarm that alt_tick goes to next: it walks   *)
(* that alarm's own ring, alt_tick.c:102, and finds no end.                *)
Astray == isr = InTick /\ cursor # Head /\ ~Registered(links, cursor)

(* What is left of each alarm's time.                                      *)
Left ==
    [a \in AlarmIds |->
        IF ~Registered(links, a) THEN -1
        ELSE IF alarms.rollover[a] /\ nticks # 0
             THEN alarms.time[a] + TickRange - nticks
             ELSE alarms.time[a] - nticks]

Promise == INSTANCE Alarms WITH left <- Left

(* The alarms implement countdown timers: every callback comes at exactly  *)
(* its tick, also when the count of ticks rolls over, whatever the program *)
(* and other callbacks start and stop in the meantime, as long as the walk *)
(* is not led astray.                                                      *)
OnTime == Promise!Init /\ [][Promise!Next \/ Astray]_Left

(* An alarm that runs comes to its time or is stopped: no tick is missed   *)
(* for ever because of what else interrupts or what the program calls, and *)
(* the walk of the list that alt_tick makes ends, unless it is led astray. *)
TimeComes == \A a \in AlarmIds : Left[a] > 0 ~> Left[a] <= 0 \/ Astray

(* After settimeofday() the clock shows what it was given, as long as the  *)
(* product of ticks and microseconds fits in 32 bits.                      *)
ClockIsSet ==
    [][\A t \in Times : SetTimeOfDay(t) /\ nticks * TickLength < TickRange
          => WallTime(reset', nticks) = t]_vars

(* The clock moves on by the length of a tick, seconds and microseconds    *)
(* together, until the count rolls over; a time before the epoch is not    *)
(* shown.                                                                  *)
ClockMovesOn ==
    [][nticks' = nticks + 1 /\ Micros(reset) + nticks * TickLength >= 0
       => Micros(WallTime(reset, nticks'))
            = Micros(WallTime(reset, nticks)) + TickLength]_vars

(* settimeofday() and gettimeofday() agree, at once and from tick to tick. *)
WallClock == ClockIsSet /\ ClockMovesOn
=============================================================================
