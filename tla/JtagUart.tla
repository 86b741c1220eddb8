------------------------------ MODULE JtagUart ------------------------------
(***************************************************************************)
(* The console of the program: every printf of main.c ends in              *)
(* altera_avalon_jtag_uart_write.  The driver keeps a ring buffer for each *)
(* direction; the program moves the inner ends of the rings and the        *)
(* interrupt routine the outer ends, from and to the FIFOs of the device,  *)
(* which the host fills and empties.  The program and the interrupt        *)
(* routine take their steps one access at a time, and the host acts        *)
(* between any two of them; the program stands still while the routine     *)
(* runs.                                                                   *)
(*                                                                         *)
(* Whether there is a system clock decides what happens without a host: an *)
(* alarm counts the seconds without activity.  This build has none         *)
(* (ALT_SYS_CLK is none), alt_alarm_start fails and the driver waits.      *)
(***************************************************************************)
EXTENDS Integers, Sequences, FiniteSets, FiniteSetsExt

CONSTANTS
    BufLen,          \* ALTERA_AVALON_JTAG_UART_BUF_LEN, 2048
    Depth,           \* of either FIFO of the device, 64
    Threshold,       \* of either interrupt, 8
    IntMax,          \* INT_MAX
    DefaultTimeout,  \* ALTERA_AVALON_JTAG_UART_DEFAULT_TIMEOUT, 10
    Timeouts,        \* arguments of TIOCSTIMEOUT
    Setups,          \* the builds and programs, see Setting
    Marks            \* the characters are numbered 0 .. Marks - 1

(* Is there a system clock; which calls does the program make, for how     *)
(* many characters, with O_NONBLOCK or without; and, a bound, how many     *)
(* characters the host types to a program that does not read.              *)
Setting == [clock : BOOLEAN, calls : SUBSET {"write", "read", "close", "ioctl"},
            counts : SUBSET Nat, flags : SUBSET BOOLEAN, typed : Nat]

ASSUME JtagAssumption ==
    /\ BufLen \in Nat /\ BufLen > 1
    /\ Depth \in Nat /\ Threshold \in Nat /\ Threshold < Depth
    /\ IntMax \in Nat /\ IntMax > 3
    /\ DefaultTimeout \in 2 .. IntMax - 1
    /\ Timeouts \subseteq Int
    /\ Setups \subseteq Setting
    /\ Marks \in Nat /\ Marks >= BufLen + Depth

VARIABLES
    setup,                           \* chosen once
    txIn, txOut, txBuf,              \* the driver's state
    rxIn, rxOut, rxBuf,
    irqEnable, timeout, hostInactive,
    pc, left, moved, nonblock,       \* the call in progress
    seen, chunk, got, ret,
    isr, wi, space, avail,           \* the interrupt routine
    txFifo, rxFifo, pause, ac,       \* the device
    connected, written, typed,       \* the host; next character of each way
    heard, taken                     \* history: next one to come out

driver  == <<txIn, txOut, txBuf, rxIn, rxOut, rxBuf,
             irqEnable, timeout, hostInactive>>
program == <<pc, left, moved, nonblock, seen, chunk, got, ret>>
routine == <<isr, wi, space, avail>>
device  == <<txFifo, rxFifo, pause, ac>>
host    == <<connected, written, typed, heard, taken>>
vars    == <<setup, driver, program, routine, device, host>>

Wrap(i) == IF i >= BufLen THEN i - BufLen ELSE i

(* The characters of a ring from out up to in.                             *)
Used(in, out) == IF in >= out THEN in - out ELSE in + BufLen - out
Ring(buf, out, in) == [k \in 1 .. Used(in, out) |-> buf[Wrap(out + k - 1)]]

(* The device raises its interrupt by level: room in the write FIFO, much  *)
(* in the read FIFO or a host that has stopped sending.                    *)
RI == "RE" \in irqEnable /\ (pause \/ Depth - Len(rxFifo) <= Threshold)
WI == "WE" \in irqEnable /\ Len(txFifo) <= Threshold

DriverOK ==
    /\ txIn \in 0 .. BufLen - 1 /\ txOut \in 0 .. BufLen - 1
    /\ rxIn \in 0 .. BufLen - 1 /\ rxOut \in 0 .. BufLen - 1
    /\ txBuf \in [0 .. BufLen - 1 -> 0 .. Marks - 1]
    /\ rxBuf \in [0 .. BufLen - 1 -> 0 .. Marks - 1]
    /\ irqEnable \subseteq {"RE", "WE"}
    /\ timeout \in 2 .. IntMax /\ hostInactive \in 0 .. IntMax - 2
ProgramOK ==
    /\ pc \in {"idle", "snap", "copy", "advance", "kick", "spin", "check",
               "rsnap", "rcopy", "radvance", "rspin", "rcheck", "renable",
               "closing"}
    /\ left \in Nat /\ moved \in Nat /\ nonblock \in BOOLEAN
    /\ seen \in 0 .. BufLen - 1 /\ chunk \in 0 .. BufLen - 1
    /\ got \in Seq(0 .. Marks - 1)
    /\ ret \in {"none", "all", "short", "EWOULDBLOCK", "EIO", "ENOTTY", "ok",
                "connected", "unconnected"}
RoutineOK ==
    /\ isr \in {"off", "test", "rx", "rxoff", "tx"}
    /\ wi \in BOOLEAN /\ space \in 0 .. Depth /\ avail \in BOOLEAN
DeviceOK ==
    /\ txFifo \in Seq(0 .. Marks - 1) /\ Len(txFifo) <= Depth
    /\ rxFifo \in Seq(0 .. Marks - 1) /\ Len(rxFifo) <= Depth
    /\ pause \in BOOLEAN /\ ac \in BOOLEAN
HostOK ==
    /\ connected \in BOOLEAN
    /\ written \in 0 .. Marks - 1 /\ typed \in 0 .. Marks - 1
    /\ heard \in 0 .. Marks - 1 /\ taken \in 0 .. Marks - 1

(* Every variable of the driver, the calls, the interrupt routine, the     *)
(* device and the host is in its range: no index leaves a ring, no FIFO    *)
(* is written when it is full.                                             *)
TypeOK ==
    setup \in Setups /\ DriverOK /\ ProgramOK /\ RoutineOK /\ DeviceOK /\ HostOK

(* altera_avalon_jtag_uart_init: read interrupts on, and an alarm, which   *)
(* fails without a system clock.                                           *)
Init ==
    /\ setup \in Setups
    /\ txIn = 0 /\ txOut = 0 /\ rxIn = 0 /\ rxOut = 0
    /\ txBuf = [i \in 0 .. BufLen - 1 |-> 0] /\ rxBuf = txBuf
    /\ irqEnable = {"RE"} /\ hostInactive = 0
    /\ timeout = IF setup.clock THEN DefaultTimeout ELSE IntMax
    /\ pc = "idle" /\ left = 0 /\ moved = 0 /\ nonblock = FALSE
    /\ seen = 0 /\ chunk = 0 /\ got = <<>> /\ ret = "none"
    /\ isr = "off" /\ wi = FALSE /\ space = 0 /\ avail = FALSE
    /\ txFifo = <<>> /\ rxFifo = <<>> /\ pause = FALSE /\ ac = FALSE
    /\ connected \in BOOLEAN /\ written = 0 /\ typed = 0
    /\ heard = 0 /\ taken = 0

-----------------------------------------------------------------------------
(* The program.  It runs only while the interrupt routine does not.        *)
Thread == isr = "off" /\ UNCHANGED <<setup, device, host, routine>>

(* The locals of a call die with it.                                       *)
Return(result) ==
    /\ pc' = "idle" /\ ret' = result
    /\ left' = 0 /\ moved' = 0 /\ nonblock' = FALSE
    /\ seen' = 0 /\ chunk' = 0 /\ got' = <<>>

Goto(label) ==
    /\ pc' = label
    /\ UNCHANGED <<left, moved, nonblock, seen, chunk, got, ret>>

Call(label, count, flag) ==
    /\ pc = "idle" /\ pc' = label /\ ret' = "none"
    /\ left' = count /\ nonblock' = flag
    /\ UNCHANGED <<moved, seen, chunk, got>>

(* What write and read return: a count, or an error if nothing moved.      *)
Moved == IF moved > 0 THEN IF left = 0 THEN "all" ELSE "short"
         ELSE IF nonblock THEN "EWOULDBLOCK" ELSE "EIO"

HostGone == hostInactive >= timeout

(* The room write sees in one piece, from the outer end it has read.       *)
RoomMutant(in, out) ==      \* forgets the slot that tells full from empty
    IF in < out THEN out - 1 - in ELSE BufLen - in
Room(in, out) ==
    IF in < out THEN out - 1 - in
    ELSE IF out > 0 THEN BufLen - in ELSE BufLen - 1 - in

WriteCall ==
    /\ Thread /\ "write" \in setup.calls
    /\ \E count \in setup.counts, flag \in setup.flags : Call("snap", count, flag)
    /\ UNCHANGED driver

(* while (count > 0): the outer end is read, and the room computed from it.*)
WriteSnap ==
    /\ Thread /\ pc = "snap"
    /\ IF left = 0 \/ Room(txIn, txOut) = 0
       THEN /\ pc' = "kick"
            /\ seen' = IF left = 0 THEN seen ELSE txOut
            /\ UNCHANGED chunk
       ELSE /\ pc' = "copy" /\ seen' = txOut
            /\ chunk' = Min({Room(txIn, txOut), left})
    /\ UNCHANGED <<driver, left, moved, nonblock, got, ret>>

WriteCopy ==
    /\ Thread /\ pc = "copy" /\ Goto("advance")
    /\ txBuf' = [i \in DOMAIN txBuf |->
                   IF i \in txIn .. txIn + chunk - 1
                   THEN (written + i - txIn) % Marks ELSE txBuf[i]]
    /\ UNCHANGED <<txIn, txOut, rxIn, rxOut, rxBuf,
                   irqEnable, timeout, hostInactive>>

WriteAdvance ==
    /\ isr = "off" /\ UNCHANGED <<setup, device, routine, connected, typed,
                                   heard, taken>>
    /\ pc = "advance" /\ pc' = "snap"
    /\ txIn' = Wrap(txIn + chunk)
    /\ written' = (written + chunk) % Marks
    /\ left' = left - chunk /\ moved' = moved + chunk /\ chunk' = 0
    /\ UNCHANGED <<nonblock, seen, got, ret, txOut, txBuf, rxIn, rxOut,
                   rxBuf, irqEnable, timeout, hostInactive>>

(* With interrupts disabled: enable the write interrupt.                   *)
KickMutant ==
    /\ Thread /\ pc = "kick"
    /\ irqEnable' = IF left = 0 THEN irqEnable ELSE irqEnable \union {"WE"}
    /\ IF left = 0 \/ nonblock THEN Return(Moved) ELSE Goto("spin")
    /\ UNCHANGED <<txIn, txOut, txBuf, rxIn, rxOut, rxBuf,
                   timeout, hostInactive>>
Kick ==
    /\ Thread /\ pc = "kick"
    /\ irqEnable' = irqEnable \union {"WE"}
    /\ IF left = 0 \/ nonblock THEN Return(Moved) ELSE Goto("spin")
    /\ UNCHANGED <<txIn, txOut, txBuf, rxIn, rxOut, rxBuf,
                   timeout, hostInactive>>

(* Wait until the interrupt routine has taken a character.                 *)
WriteSpin ==
    /\ Thread /\ pc = "spin" /\ (seen # txOut \/ HostGone)
    /\ Goto("check") /\ UNCHANGED driver

(* One second without activity is enough to give up here.                  *)
WriteCheckMutant ==
    /\ Thread /\ pc = "check" /\ Return(Moved) /\ UNCHANGED driver
WriteCheck ==
    /\ Thread /\ pc = "check"
    /\ IF hostInactive > 0 THEN Return(Moved) ELSE Goto("snap")
    /\ UNCHANGED driver

ReadCall ==
    /\ Thread /\ "read" \in setup.calls
    /\ \E count \in setup.counts, flag \in setup.flags :
          Call(IF count = 0 THEN "renable" ELSE "rsnap", count, flag)
    /\ UNCHANGED driver

(* The characters read sees in one piece.                                  *)
Held(in, out) == IF in >= out THEN in - out ELSE BufLen - out

ReadSnap ==
    /\ Thread /\ pc = "rsnap" /\ seen' = rxIn
    /\ chunk' = Min({Held(rxIn, rxOut), left})
    /\ pc' = IF chunk' > 0 THEN "rcopy"
             ELSE IF moved > 0 \/ nonblock THEN "renable" ELSE "rspin"
    /\ UNCHANGED <<driver, left, moved, nonblock, got, ret>>

ReadCopy ==
    /\ Thread /\ pc = "rcopy" /\ pc' = "radvance"
    /\ got' = [k \in 1 .. chunk |-> rxBuf[rxOut + k - 1]]
    /\ UNCHANGED <<driver, left, moved, nonblock, seen, chunk, ret>>

ReadAdvance ==
    /\ isr = "off" /\ UNCHANGED <<setup, device, routine, connected, written,
                                   typed, heard>>
    /\ pc = "radvance"
    /\ rxOut' = Wrap(rxOut + chunk)
    /\ taken' = (taken + chunk) % Marks
    /\ left' = left - chunk /\ moved' = moved + chunk
    /\ pc' = IF left' > 0 THEN "rsnap" ELSE "renable"
    /\ chunk' = 0 /\ got' = <<>>
    /\ UNCHANGED <<nonblock, seen, ret, txIn, txOut, txBuf, rxIn, rxBuf,
                   irqEnable, timeout, hostInactive>>

ReadSpin ==
    /\ Thread /\ pc = "rspin" /\ (seen # rxIn \/ HostGone)
    /\ Goto("rcheck") /\ UNCHANGED driver

ReadCheck ==
    /\ Thread /\ pc = "rcheck"
    /\ Goto(IF seen = rxIn THEN "renable" ELSE "rsnap") /\ UNCHANGED driver

(* With interrupts disabled, if anything was read: there is room again.    *)
ReadEnableMutant ==         \* enables only after a call that was served whole
    /\ Thread /\ pc = "renable" /\ Return(Moved)
    /\ irqEnable' = IF moved > 0 /\ left = 0 THEN irqEnable \union {"RE"} ELSE irqEnable
    /\ UNCHANGED <<txIn, txOut, txBuf, rxIn, rxOut, rxBuf,
                   timeout, hostInactive>>
ReadEnable ==
    /\ Thread /\ pc = "renable" /\ Return(Moved)
    /\ irqEnable' = IF moved > 0 THEN irqEnable \union {"RE"} ELSE irqEnable
    /\ UNCHANGED <<txIn, txOut, txBuf, rxIn, rxOut, rxBuf,
                   timeout, hostInactive>>

CloseCall ==
    /\ Thread /\ "close" \in setup.calls
    /\ \E flag \in setup.flags : Call("closing", 0, flag)
    /\ UNCHANGED driver

(* Wait for the ring, not for the FIFO, to empty.                          *)
Closing ==
    /\ Thread /\ pc = "closing" /\ UNCHANGED driver
    /\ \/ (txOut = txIn \/ HostGone) /\ Return("ok")
       \/ txOut # txIn /\ ~HostGone /\ nonblock /\ Return("EWOULDBLOCK")

(* TIOCSTIMEOUT and TIOCGCONNECTED, refused if the alarm was.              *)
Ioctl ==
    /\ Thread /\ "ioctl" \in setup.calls /\ pc = "idle"
    /\ UNCHANGED <<txIn, txOut, txBuf, rxIn, rxOut, rxBuf,
                   irqEnable, hostInactive>>
    /\ \/ timeout = IntMax /\ Return("ENOTTY") /\ UNCHANGED timeout
       \/ /\ timeout # IntMax /\ Return("ok")
          /\ \E arg \in Timeouts :
                timeout' = IF arg >= 2 /\ arg < IntMax THEN arg ELSE IntMax - 1
       \/ /\ timeout # IntMax /\ UNCHANGED timeout
          /\ Return(IF HostGone THEN "unconnected" ELSE "connected")

-----------------------------------------------------------------------------
(* The interrupt routine.  It cannot be interrupted.                       *)
Handler == UNCHANGED <<setup, program, host, timeout, hostInactive>>

IrqEnter ==
    /\ isr = "off" /\ (RI \/ WI) /\ isr' = "test"
    /\ Handler /\ UNCHANGED <<driver, device, wi, space, avail>>

(* Read control; return once there is nothing to do.                       *)
IrqTest ==
    /\ isr = "test" /\ Handler /\ UNCHANGED <<driver, device>>
    /\ \/ ~RI /\ ~WI /\ isr' = "off" /\ wi' = FALSE /\ space' = 0 /\ avail' = FALSE
       \/ RI /\ isr' = "rx" /\ wi' = WI /\ space' = Depth - Len(txFifo) /\ avail' = TRUE
       \/ ~RI /\ WI /\ isr' = "tx" /\ wi' = TRUE
             /\ space' = Depth - Len(txFifo) /\ avail' = FALSE

RxFullMutant == FALSE       \* does not look
RxFull == Wrap(rxIn + 1) = rxOut

(* Read the data register if the ring has room.  The count of characters   *)
(* left is sampled a clock after the flag that says one was read: a        *)
(* character that comes on that clock is in the first and not the second.  *)
IrqRx ==
    /\ isr = "rx" /\ ~RxFull
    /\ UNCHANGED <<setup, program, connected, written, heard, taken,
                   timeout, hostInactive,
                   txIn, txOut, txBuf, rxOut, irqEnable, txFifo, wi, space>>
    /\ \E late \in BOOLEAN :
          LET arrived == IF late THEN <<typed>> ELSE <<>> IN
          /\ late => connected /\ Len(rxFifo) < Depth
          /\ typed' = IF late THEN (typed + 1) % Marks ELSE typed
          /\ ac' = (ac \/ late) /\ pause' = FALSE
          /\ IF rxFifo = <<>>
             THEN /\ rxFifo' = arrived /\ isr' = "rxoff"
                  /\ UNCHANGED <<rxBuf, rxIn>>
             ELSE /\ rxFifo' = Tail(rxFifo) \o arrived /\ UNCHANGED isr
                  /\ rxBuf' = [rxBuf EXCEPT ![rxIn] = Head(rxFifo)]
                  /\ rxIn' = Wrap(rxIn + 1)
          /\ avail' = (rxFifo' # <<>>)

IrqRxFull ==
    /\ isr = "rx" /\ RxFull /\ isr' = "rxoff"
    /\ Handler /\ UNCHANGED <<driver, device, wi, space, avail>>

(* Characters left over: turn the receive interrupt off until a read.      *)
IrqRxOffMutant ==           \* forgets to
    /\ isr = "rxoff" /\ isr' = IF wi THEN "tx" ELSE "test"
    /\ Handler /\ UNCHANGED <<driver, device, wi, space, avail>>
IrqRxOff ==
    /\ isr = "rxoff" /\ isr' = IF wi THEN "tx" ELSE "test"
    /\ irqEnable' = IF avail THEN irqEnable \ {"RE"} ELSE irqEnable
    /\ Handler /\ UNCHANGED <<txIn, txOut, txBuf, rxIn, rxOut, rxBuf,
                              device, wi, space, avail>>

IrqTx ==
    /\ isr = "tx" /\ space > 0 /\ txOut # txIn
    /\ txFifo' = Append(txFifo, txBuf[txOut])
    /\ txOut' = Wrap(txOut + 1) /\ space' = space - 1
    /\ Handler
    /\ UNCHANGED <<txIn, txBuf, rxIn, rxOut, rxBuf, irqEnable,
                   rxFifo, pause, ac, isr, wi, avail>>

(* Room left over: nothing more to send, turn the write interrupt off.     *)
IrqTxOffMutant ==           \* turns it off with the ring still holding some
    /\ isr = "tx" /\ (space = 0 \/ txOut = txIn) /\ isr' = "test"
    /\ irqEnable' = irqEnable \ {"WE"}
    /\ Handler /\ UNCHANGED <<txIn, txOut, txBuf, rxIn, rxOut, rxBuf,
                              device, wi, space, avail>>
IrqTxOff ==
    /\ isr = "tx" /\ (space = 0 \/ txOut = txIn) /\ isr' = "test"
    /\ irqEnable' = IF space > 0 THEN irqEnable \ {"WE"} ELSE irqEnable
    /\ Handler /\ UNCHANGED <<txIn, txOut, txBuf, rxIn, rxOut, rxBuf,
                              device, wi, space, avail>>

TimeoutMutant ==            \* counts on past the end
    /\ setup.clock /\ isr = "off" /\ ac' = FALSE
    /\ hostInactive' = IF ac THEN 0 ELSE hostInactive + 1
    /\ UNCHANGED <<setup, program, routine, host, txFifo, rxFifo, pause,
                   txIn, txOut, txBuf, rxIn, rxOut, rxBuf, irqEnable, timeout>>

(* The alarm: every second, at interrupt level, if there is a clock.       *)
Timeout ==
    /\ setup.clock /\ isr = "off" /\ ac' = FALSE
    /\ hostInactive' = IF ac THEN 0
                       ELSE IF hostInactive < IntMax - 2 THEN hostInactive + 1
                       ELSE hostInactive
    /\ UNCHANGED <<setup, program, routine, host, txFifo, rxFifo, pause,
                   txIn, txOut, txBuf, rxIn, rxOut, rxBuf, irqEnable, timeout>>

-----------------------------------------------------------------------------
(* The host.  A connected one polls the device, and its silence between    *)
(* characters raises the read interrupt.                                   *)
HostTake ==
    /\ connected /\ txFifo # <<>> /\ txFifo' = Tail(txFifo)
    /\ heard' = (heard + 1) % Marks
    /\ UNCHANGED <<setup, driver, program, routine, rxFifo, pause, ac,
                   connected, written, typed, taken>>

HostSend ==
    /\ connected /\ Len(rxFifo) < Depth
    /\ "read" \in setup.calls \/ typed < setup.typed
    /\ rxFifo' = Append(rxFifo, typed) /\ typed' = (typed + 1) % Marks
    /\ ac' = TRUE
    /\ UNCHANGED <<setup, driver, program, routine, txFifo, pause,
                   connected, written, heard, taken>>

HostPoll ==
    /\ connected /\ ac' = TRUE /\ pause' = (pause \/ rxFifo # <<>>)
    /\ UNCHANGED <<setup, driver, program, routine, host, txFifo, rxFifo>>

Plug ==
    /\ connected' = ~connected
    /\ UNCHANGED <<setup, driver, program, routine, device,
                   written, typed, heard, taken>>

-----------------------------------------------------------------------------
Write == WriteSnap \/ WriteCopy \/ WriteAdvance \/ Kick
         \/ WriteSpin \/ WriteCheck
Read  == ReadSnap \/ ReadCopy \/ ReadAdvance \/ ReadSpin \/ ReadCheck
         \/ ReadEnable
Irq   == IrqEnter \/ IrqTest \/ IrqRx \/ IrqRxFull \/ IrqRxOff
         \/ IrqTx \/ IrqTxOff

Next ==
    \/ WriteCall \/ Write \/ ReadCall \/ Read \/ CloseCall \/ Closing \/ Ioctl
    \/ Irq \/ Timeout
    \/ HostTake \/ HostSend \/ HostPoll \/ Plug

(* The processor runs, the alarm comes again and again, and a host that is *)
(* connected takes characters and polls; nobody has to send any.           *)
Fairness ==
    /\ WF_vars(Write \/ Read \/ Closing) /\ WF_vars(Irq) /\ WF_vars(Timeout)
    /\ SF_vars(HostTake) /\ SF_vars(HostPoll)

Spec == Init /\ [][Next]_vars /\ Fairness

-----------------------------------------------------------------------------
Stream == INSTANCE CharStream WITH Capacity <- BufLen - 1 + Depth,
                                   next <- written, taken <- heard,
                                   queue <- txFifo \o Ring(txBuf, txOut, txIn)
Typing == INSTANCE CharStream WITH Capacity <- BufLen - 1 + Depth,
                                   next <- typed, taken <- taken,
                                   queue <- Ring(rxBuf, rxOut, rxIn) \o rxFifo

(* What the program writes comes out at the host in order, nothing lost    *)
(* and nothing twice, whatever the interrupt routine does to the ring      *)
(* between the steps of altera_avalon_jtag_uart_write.                     *)
TxStream == Stream!Spec

(* What a read has copied is what it then takes off the ring.              *)
ReadsInOrder ==
    pc = "radvance" =>
        /\ chunk <= Used(rxIn, rxOut)
        /\ got = SubSeq(Ring(rxBuf, rxOut, rxIn), 1, chunk)

(* The same for what the host types, up to the program: also the           *)
(* characters a read has copied are not written over by the interrupt      *)
(* routine before the read takes them off the ring.                        *)
RxStream == Typing!Spec /\ []ReadsInOrder

(* Characters in the transmit ring are never forgotten: the write          *)
(* interrupt is on, or write has still to turn it on.                      *)
TxArmed ==
    txIn # txOut => \/ "WE" \in irqEnable
                    \/ pc \in {"snap", "copy", "advance", "kick"}

(* The receive interrupt is off only while there is something to read, so  *)
(* that a read which waits is woken, or while a read has still to turn it  *)
(* on again.                                                               *)
RxArmed ==
    "RE" \notin irqEnable =>
        \/ rxIn # rxOut
        \/ moved > 0 /\ pc \in {"rsnap", "rcopy", "radvance", "renable"}

(* Without a system clock a write that may block writes everything: it     *)
(* does not give up (-EIO, "Host not connected") nor write a part.         *)
WritesWhole ==
    [][~setup.clock /\ pc \in {"kick", "check"} /\ pc' = "idle" /\ ~nonblock
         /\ left + moved > 0
       => ret' = "all"]_vars

(* A write, or a close that waits for the ring to drain, ends if the host  *)
(* stays, or if there is a clock that finds out that it does not; unless   *)
(* the timeout was set to more than can be counted.  Without a clock or a  *)
(* host a printf of main.c may be the last.                                *)
Draining == pc \in {"snap", "copy", "advance", "kick", "spin", "check",
                    "closing"}
WriteReturns ==
    (<>[]connected \/ (setup.clock /\ <>[](timeout < IntMax - 1))) =>
        (Draining ~> pc = "idle")

(* A read that waits returns when the host sends something and pauses.     *)
ReadReturns ==
    <>[]connected => ((pc = "rspin" /\ rxFifo # <<>>) ~> pc = "idle")
=============================================================================
