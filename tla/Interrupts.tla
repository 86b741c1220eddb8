----------------------------- MODULE Interrupts -----------------------------
(***************************************************************************)
(* The interrupts of the Nios II as the runtime uses them: the enable bit  *)
(* PIE of the status register, the mask alt_irq_active with its register   *)
(* ienable, the table of handlers, and alt_irq_handler, which serves the   *)
(* interrupts one at a time.  The program runs only while no handler does  *)
(* and no enabled interrupt is pending.                                    *)
(*                                                                         *)
(* A call of the program that turns interrupts off is a record: what is    *)
(* called, its arguments, how far it has come and the status it will give  *)
(* back.  Other modules bring calls and handlers of their own.             *)
(***************************************************************************)
EXTENDS Integers, FiniteSets

CONSTANTS
    Irqs,      \* the interrupt numbers; the lowest goes first
    Clients,   \* who registers a handler; its context is the client's too
    Nobody     \* the null pointer

ASSUME InterruptAssumption ==
    Irqs \subseteq Nat /\ IsFiniteSet(Irqs) /\ Nobody \notin Clients

VARIABLES
    pie,       \* status.PIE
    active,    \* alt_irq_active
    ienable,   \* the register
    table,     \* alt_irq[]
    pending,   \* the interrupts devices request
    isr,       \* what alt_irq_handler is doing
    call       \* what the program is doing

cpu == <<pie, active, ienable, table>>
interruptVars == <<cpu, pending, isr, call>>

Owners == Clients \union {Nobody}
NoIsr == [at |-> "none"]
Idle  == [op |-> "none"]

IsrTypes == {NoIsr} \union [at : {"scan"}, irqs : SUBSET Irqs]
                    \union [at : {"serve"}, irq : Irqs]
InterruptCalls ==
    [op : {"register"}, irq : Irqs, client : Owners, step : 1 .. 4, saved : BOOLEAN]
    \union [op : {"mask"}, irq : Irqs, on : BOOLEAN, step : 3 .. 4, saved : BOOLEAN]

InterruptTypes ==
    /\ pie \in BOOLEAN
    /\ active \subseteq Irqs /\ ienable \subseteq Irqs /\ pending \subseteq Irqs
    /\ table \in [Irqs -> [handler : Owners, context : Owners]]

InterruptInit ==
    /\ pie = TRUE
    /\ active = {} /\ ienable = {} /\ pending = {}
    /\ table = [i \in Irqs |-> [handler |-> Nobody, context |-> Nobody]]
    /\ isr = NoIsr /\ call = Idle

(* alt_irq_pending.                                                        *)
PendingMutant == pending                        \* whatever the mask
Pending == pending \intersect ienable

(* alt_irq_disable_all, which returns what PIE was, and alt_irq_enable_all,*)
(* which gives it back.                                                    *)
DisableAll == FALSE
EnableAllMutant(saved) == TRUE                  \* nested calls turn it on
EnableAll(saved) == saved

-----------------------------------------------------------------------------
(* The calls.                                                              *)
Runs == isr = NoIsr /\ ~(pie /\ Pending # {})

Begin(c) == /\ Runs /\ call = Idle
            /\ call' = c /\ pie' = DisableAll
            /\ UNCHANGED <<active, ienable, table, pending, isr>>
At(op, step) == Runs /\ call # Idle /\ call.op = op /\ call.step = step
End(step) == /\ Runs /\ call # Idle /\ call.step = step
             /\ pie' = EnableAll(call.saved) /\ call' = Idle
             /\ UNCHANGED <<active, ienable, table, pending, isr>>
Step(n) == call' = [call EXCEPT !.step = n]

(* alt_iic_isr_register, alt_irq_register: a null handler turns the        *)
(* interrupt off.                                                          *)
Register(i, c) ==
    Begin([op |-> "register", irq |-> i, client |-> c, step |-> 1, saved |-> pie])

SetHandler ==
    /\ At("register", 1) /\ Step(2)
    /\ table' = [table EXCEPT ![call.irq].handler = call.client]
    /\ UNCHANGED <<pie, active, ienable, pending, isr>>
SetContext ==
    /\ At("register", 2) /\ Step(3)
    /\ table' = [table EXCEPT ![call.irq].context = call.client]
    /\ UNCHANGED <<pie, active, ienable, pending, isr>>

(* alt_irq_enable, alt_irq_disable; those without a handler are left alone.*)
SetMask(i, on) == /\ table[i].handler # Nobody
                  /\ Begin([op |-> "mask", irq |-> i, on |-> on, step |-> 3,
                            saved |-> pie])

Masked(i, on) == IF on THEN active \union {i} ELSE active \ {i}
WriteMask ==
    /\ At("register", 3) \/ At("mask", 3)
    /\ active' = Masked(call.irq, IF call.op = "mask" THEN call.on
                                  ELSE call.client # Nobody)
    /\ ienable' = active'
    /\ pie' = EnableAll(pie)        \* its own pair, inside the other
    /\ Step(4) /\ UNCHANGED <<table, pending, isr>>

-----------------------------------------------------------------------------
(* alt_irq_handler.                                                        *)
Raise(i) == /\ i \notin pending /\ pending' = pending \union {i}
            /\ UNCHANGED <<cpu, isr, call>>

Interrupt ==
    /\ pie /\ Pending # {} /\ pie' = FALSE
    /\ isr' = [at |-> "scan", irqs |-> Pending]
    /\ UNCHANGED <<active, ienable, table, pending, call>>

Lowest(irqs) == {i \in irqs : \A j \in irqs : i <= j}

Dispatch ==
    /\ isr.at = "scan"
    /\ \E i \in Lowest(isr.irqs) : isr' = [at |-> "serve", irq |-> i]
    /\ UNCHANGED <<cpu, pending, call>>

(* A handler is done: is anything else pending?                            *)
Return(requests) ==
    LET more == requests \intersect ienable IN
    /\ isr' = IF more = {} THEN NoIsr ELSE [at |-> "scan", irqs |-> more]
    /\ pie' = (more = {})

(* A handler that does no more than to satisfy its device.                 *)
Serve(i) ==
    /\ isr = [at |-> "serve", irq |-> i]
    /\ pending' = pending \ {i} /\ Return(pending \ {i})
    /\ UNCHANGED <<active, ienable, table, call>>

-----------------------------------------------------------------------------
(* No handler is interrupted, and no call of the program that has turned   *)
(* interrupts off.                                                         *)
Alone == isr # NoIsr \/ call # Idle => ~pie

(* A handler runs with the context it was registered with, for an          *)
(* interrupt that is on.                                                   *)
RightHandler ==
    isr.at = "serve" =>
        LET e == table[isr.irq] IN
        /\ e.handler # Nobody /\ e.context = e.handler
        /\ isr.irq \in active
=============================================================================
