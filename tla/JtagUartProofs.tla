-------------------------- MODULE JtagUartProofs --------------------------
(***************************************************************************)
(* Proofs about the console driver, for rings and FIFOs of every size and  *)
(* every program: nothing leaves its range, neither interrupt is off while *)
(* somebody waits for what it would do, and each ring with its FIFO is the *)
(* stream of CharStream.                                                   *)
(***************************************************************************)
EXTENDS JtagUart, SequenceTheorems, TLAPS

-----------------------------------------------------------------------------
(* Facts about numbers and sequences.                                      *)

(* A remainder is smaller than the modulus.                                *)
LEMMA ModRange ==
    ASSUME NEW a \in Int, NEW m \in Nat, m > 0 PROVE a % m \in 0 .. m - 1
BY SMT

(* What the minimum of two numbers is.                                     *)
LEMMA MinOfTwo ==
    ASSUME NEW a \in Int, NEW b \in Int
    PROVE  /\ Min({a, b}) \in {a, b}
           /\ Min({a, b}) <= a /\ Min({a, b}) <= b
<1>1. \E x \in {a, b} : \A y \in {a, b} : x <= y
  OBVIOUS
<1> QED BY <1>1 DEF Min

(* The end of a queue that something is taken from ...                     *)
LEMMA TailOfSeq ==
    ASSUME NEW S, NEW s \in Seq(S), s # <<>>
    PROVE  /\ Tail(s) \in Seq(S) /\ Len(Tail(s)) = Len(s) - 1
           /\ Head(s) \in S /\ Len(s) > 0
OBVIOUS

(* ... or put into.                                                        *)
LEMMA AppendToSeq ==
    ASSUME NEW S, NEW s \in Seq(S), NEW x \in S
    PROVE  /\ Append(s, x) \in Seq(S) /\ Len(Append(s, x)) = Len(s) + 1
           /\ s \o <<x>> \in Seq(S) /\ Len(s \o <<x>>) = Len(s) + 1
           /\ Append(s, x) # <<>> /\ s \o <<x>> # <<>> /\ s \o <<>> = s
<1>1. /\ Append(s, x) \in Seq(S) /\ Len(Append(s, x)) = Len(s) + 1
      /\ Append(s, x) # <<>>
  BY AppendProperties
<1>2. Append(s, x) = s \o <<x>>
  BY AppendIsConcat
<1>3. s \o <<>> = s
  <2>1. <<>> \in Seq(S)
    OBVIOUS
  <2> QED BY <2>1, ConcatEmptySeq
<1> QED BY <1>1, <1>2, <1>3

(* The length of a queue; only the empty one has none.                     *)
LEMMA LenOfSeq ==
    ASSUME NEW S, NEW s \in Seq(S)
    PROVE  Len(s) \in Nat /\ (s = <<>> <=> Len(s) = 0) /\ <<>> \in Seq(S)
OBVIOUS

(* The sizes.                                                              *)
LEMMA Sizes ==
    /\ BufLen \in Nat /\ BufLen > 1
    /\ Depth \in Nat /\ Threshold \in Nat /\ Threshold < Depth
    /\ IntMax \in Nat /\ IntMax > 3
    /\ Marks \in Nat /\ Marks > 0
BY JtagAssumption

(* The room seen by write lies in one piece behind txIn and is not all of  *)
(* the ring.                                                               *)
LEMMA RoomInOnePiece ==
    ASSUME NEW in \in 0 .. BufLen - 1, NEW out \in 0 .. BufLen - 1
    PROVE  Room(in, out) \in 0 .. BufLen - 1 /\ in + Room(in, out) <= BufLen
BY Sizes DEF Room

(* And so do the characters seen by read behind rxOut.                     *)
LEMMA HeldInOnePiece ==
    ASSUME NEW in \in 0 .. BufLen - 1, NEW out \in 0 .. BufLen - 1
    PROVE  /\ Held(in, out) \in 0 .. BufLen - 1
           /\ out + Held(in, out) <= BufLen
           /\ Held(in, out) = 0 => in = out
BY Sizes DEF Held

(* An index that does not pass the end of the ring stays in it.            *)
LEMMA WrapInRing ==
    ASSUME NEW i \in 0 .. BufLen - 1, NEW n \in Nat, i + n <= BufLen
    PROVE  Wrap(i + n) \in 0 .. BufLen - 1
BY Sizes DEF Wrap

(* A full ring is not an empty one.                                        *)
LEMMA FullNotEmpty ==
    ASSUME NEW i \in 0 .. BufLen - 1 PROVE Wrap(i + 1) # i
BY Sizes DEF Wrap

(* A function on 1 .. n is a sequence.                                     *)
LEMMA SeqByIndex ==
    ASSUME NEW S, NEW n \in Nat, NEW F(_), \A k \in 1 .. n : F(k) \in S
    PROVE  [k \in 1 .. n |-> F(k)] \in Seq(S)
OBVIOUS

(* Nothing in front of a sequence.                                         *)
LEMMA LateOnEmpty == \A x : <<>> \o <<x>> = <<x>> /\ <<>> \o <<>> = <<>>
OBVIOUS

-----------------------------------------------------------------------------
(* The inductive invariant adds what the locals of the program and of the  *)
(* interrupt routine know.  The pieces copied lie inside the ring and are  *)
(* not longer than the call has left.  The room counted when the control   *)
(* register was read can only have grown.  The routine finds the FIFO      *)
(* empty only after it has put a character into the ring.                  *)
Inner ==
    /\ pc \in {"copy", "advance"} =>
           chunk > 0 /\ chunk <= left /\ txIn + chunk <= BufLen
    /\ pc \in {"rcopy", "radvance"} =>
           chunk > 0 /\ chunk <= left /\ rxOut + chunk <= BufLen
    /\ pause => rxFifo # <<>>
    /\ isr \in {"rx", "rxoff", "tx"} => space <= Depth - Len(txFifo)
    /\ isr = "rx" => rxFifo # <<>> \/ rxIn # rxOut
    /\ isr = "rxoff" /\ avail => rxIn # rxOut

(* A call that returns leaves its locals as they were before it.           *)
LEMMA ReturnTypeOK ==
    ASSUME NEW r \in {"all", "short", "EWOULDBLOCK", "EIO", "ENOTTY", "ok",
                     "connected", "unconnected"}, Return(r)
    PROVE  ProgramOK'
<1>1. <<>> \in Seq(0 .. Marks - 1)
  OBVIOUS
<1>2. 0 \in 0 .. BufLen - 1
  BY Sizes
<1> QED BY <1>1, <1>2 DEF Return, ProgramOK

(* The rings, the interrupt enables and the timeout.                       *)
LEMMA DriverStep ==
    ASSUME TypeOK, Inner, [Next]_vars PROVE DriverOK'
<1> USE DEF driver, Thread, Handler
<1>1. ASSUME UNCHANGED <<txIn, txOut, txBuf, rxIn, rxOut, rxBuf,
                         irqEnable, timeout, hostInactive>>
      PROVE  DriverOK'
  BY <1>1 DEF TypeOK, DriverOK
<1>2. CASE WriteCopy
  BY <1>2, JtagAssumption, ModRange
     DEF WriteCopy, Goto, TypeOK, DriverOK, HostOK, ProgramOK
<1>3. CASE WriteAdvance
  <2>1. Wrap(txIn + chunk) \in 0 .. BufLen - 1
    BY <1>3, WrapInRing, Sizes
       DEF WriteAdvance, TypeOK, DriverOK, ProgramOK, Inner
  <2> QED BY <1>3, <2>1 DEF WriteAdvance, TypeOK, DriverOK
<1>4. CASE Kick \/ ReadEnable
  BY <1>4 DEF Kick, ReadEnable, TypeOK, DriverOK
<1>5. CASE ReadAdvance
  <2>1. Wrap(rxOut + chunk) \in 0 .. BufLen - 1
    BY <1>5, WrapInRing, Sizes
       DEF ReadAdvance, TypeOK, DriverOK, ProgramOK, Inner
  <2> QED BY <1>5, <2>1 DEF ReadAdvance, TypeOK, DriverOK
<1>6. CASE Ioctl
  BY <1>6, JtagAssumption DEF Ioctl, TypeOK, DriverOK
<1>7. CASE Timeout
  BY <1>7, Sizes DEF Timeout, TypeOK, DriverOK
<1>8. CASE IrqRx
  <2>1. Wrap(rxIn + 1) \in 0 .. BufLen - 1
    BY WrapInRing, Sizes DEF TypeOK, DriverOK
  <2>2. rxFifo # <<>> => Head(rxFifo) \in 0 .. Marks - 1
    BY TailOfSeq DEF TypeOK, DeviceOK
  <2> QED BY <1>8, <2>1, <2>2 DEF IrqRx, TypeOK, DriverOK
<1>9. CASE IrqTx
  <2>1. Wrap(txOut + 1) \in 0 .. BufLen - 1
    BY WrapInRing, Sizes DEF TypeOK, DriverOK
  <2> QED BY <1>9, <2>1 DEF IrqTx, TypeOK, DriverOK
<1>10. CASE IrqRxOff \/ IrqTxOff
  BY <1>10 DEF IrqRxOff, IrqTxOff, TypeOK, DriverOK
<1>11. CASE WriteCall \/ WriteSnap \/ WriteSpin \/ WriteCheck \/ ReadCall
         \/ ReadSnap \/ ReadCopy \/ ReadSpin \/ ReadCheck \/ CloseCall
         \/ Closing \/ IrqEnter \/ IrqTest \/ IrqRxFull \/ HostTake
         \/ HostSend \/ HostPoll \/ Plug
  BY <1>11, <1>1
     DEF WriteCall, WriteSnap, WriteSpin, WriteCheck, ReadCall, ReadSnap,
     ReadCopy, ReadSpin, ReadCheck, CloseCall, Closing, IrqEnter, IrqTest,
     IrqRxFull, HostTake, HostSend, HostPoll, Plug
<1>12. CASE UNCHANGED vars
  BY <1>12, <1>1 DEF vars
<1> QED
  BY <1>2, <1>3, <1>4, <1>5, <1>6, <1>7, <1>8, <1>9, <1>10, <1>11, <1>12
     DEF Next, Write, Read, Irq

(* The locals of the call in progress.                                     *)
LEMMA ProgramStep ==
    ASSUME TypeOK, Inner, [Next]_vars PROVE ProgramOK'
<1> USE DEF program, Thread, Handler
<1>1. ASSUME UNCHANGED <<pc, left, moved, nonblock, seen, chunk, got, ret>>
      PROVE  ProgramOK'
  BY <1>1 DEF TypeOK, ProgramOK
<1>2. CASE WriteCall \/ ReadCall \/ CloseCall
  <2>1. PICK label \in {"snap", "rsnap", "renable", "closing"},
              count \in Nat, flag \in BOOLEAN : Call(label, count, flag)
    BY <1>2, JtagAssumption
       DEF WriteCall, ReadCall, CloseCall, TypeOK, Setting
  <2> QED BY <2>1 DEF Call, TypeOK, ProgramOK
<1>3. CASE WriteSnap
  <2>1. /\ Room(txIn, txOut) \in 0 .. BufLen - 1
        /\ left \in Nat /\ txOut \in 0 .. BufLen - 1
    BY RoomInOnePiece DEF TypeOK, DriverOK, ProgramOK
  <2>2. ~(left = 0 \/ Room(txIn, txOut) = 0)
           => Min({Room(txIn, txOut), left}) \in 0 .. BufLen - 1
    <3>1. Room(txIn, txOut) \in Int /\ left \in Int
      BY <2>1, Sizes
    <3>2. Min({Room(txIn, txOut), left}) \in {Room(txIn, txOut), left}
      BY <3>1, MinOfTwo, Zenon
    <3>3. Min({Room(txIn, txOut), left}) <= Room(txIn, txOut)
      BY <3>1, MinOfTwo, Zenon
    <3> QED BY <2>1, <3>2, <3>3, Sizes
  <2> QED BY <1>3, <2>1, <2>2 DEF WriteSnap, TypeOK, ProgramOK
<1>4. CASE WriteCopy \/ WriteSpin \/ ReadSpin \/ ReadCheck
  BY <1>4
     DEF WriteCopy, WriteSpin, ReadSpin, ReadCheck, Goto, TypeOK, ProgramOK
<1>5. CASE WriteAdvance
  BY <1>5, Sizes DEF WriteAdvance, TypeOK, ProgramOK, Inner
<1>6. CASE ReadAdvance
  BY <1>6, Sizes, LenOfSeq DEF ReadAdvance, TypeOK, ProgramOK, Inner
<1>7. CASE Kick \/ WriteCheck \/ ReadEnable
  <2>1. CASE Return(Moved)
    BY <2>1, ReturnTypeOK DEF Moved
  <2>2. CASE Goto("spin") \/ Goto("snap")
    BY <2>2 DEF Goto, TypeOK, ProgramOK
  <2> QED BY <1>7, <2>1, <2>2 DEF Kick, WriteCheck, ReadEnable
<1>8. CASE ReadSnap
  <2>1. Held(rxIn, rxOut) \in 0 .. BufLen - 1 /\ left \in Nat
    BY HeldInOnePiece DEF TypeOK, DriverOK, ProgramOK
  <2>2. Min({Held(rxIn, rxOut), left}) \in 0 .. BufLen - 1
    <3>1. Held(rxIn, rxOut) \in Int /\ left \in Int
      BY <2>1, Sizes
    <3>2. Min({Held(rxIn, rxOut), left}) \in {Held(rxIn, rxOut), left}
      BY <3>1, MinOfTwo, Zenon
    <3>3. Min({Held(rxIn, rxOut), left}) <= Held(rxIn, rxOut)
      BY <3>1, MinOfTwo, Zenon
    <3> QED BY <2>1, <3>2, <3>3, Sizes
  <2> QED BY <1>8, <2>2 DEF ReadSnap, TypeOK, DriverOK, ProgramOK
<1>9. CASE ReadCopy
  <2>1. \A k \in 1 .. chunk : rxBuf[rxOut + k - 1] \in 0 .. Marks - 1
    BY <1>9, Sizes
       DEF ReadCopy, TypeOK, DriverOK, ProgramOK, Inner
  <2>2. [k \in 1 .. chunk |-> rxBuf[rxOut + k - 1]] \in Seq(0 .. Marks - 1)
    BY <2>1, SeqByIndex DEF TypeOK, ProgramOK
  <2> QED BY <1>9, <2>2 DEF ReadCopy, TypeOK, ProgramOK
<1>10. CASE Closing
  <2>1. Return("ok") \/ Return("EWOULDBLOCK")
    BY <1>10 DEF Closing
  <2> QED BY <2>1, ReturnTypeOK
<1>11. CASE Ioctl
  <2>1. \/ Return("ENOTTY") \/ Return("ok")
        \/ Return("connected") \/ Return("unconnected")
    BY <1>11 DEF Ioctl
  <2> QED BY <2>1, ReturnTypeOK
<1>12. CASE IrqEnter \/ IrqTest \/ IrqRx \/ IrqRxFull \/ IrqRxOff \/ IrqTx
         \/ IrqTxOff \/ Timeout \/ HostTake \/ HostSend \/ HostPoll
         \/ Plug
  BY <1>12, <1>1
     DEF IrqEnter, IrqTest, IrqRx, IrqRxFull, IrqRxOff, IrqTx, IrqTxOff, Timeout,
     HostTake, HostSend, HostPoll, Plug
<1>13. CASE UNCHANGED vars
  BY <1>13, <1>1 DEF vars
<1> QED
  BY <1>2, <1>3, <1>4, <1>5, <1>6, <1>7, <1>8, <1>9, <1>10, <1>11, <1>12, <1>13
     DEF Next, Write, Read, Irq

(* The locals of the interrupt routine.                                    *)
LEMMA RoutineStep ==
    ASSUME TypeOK, Inner, [Next]_vars PROVE RoutineOK'
<1> USE DEF routine, Thread, Handler
<1>1. ASSUME UNCHANGED <<isr, wi, space, avail>>
      PROVE  RoutineOK'
  BY <1>1 DEF TypeOK, RoutineOK
<1>2. CASE IrqEnter \/ IrqRxFull \/ IrqRxOff \/ IrqTxOff
  BY <1>2 DEF IrqEnter, IrqRxFull, IrqRxOff, IrqTxOff, TypeOK, RoutineOK
<1>3. CASE IrqTest
  <2>1. Len(txFifo) \in Nat /\ Len(txFifo) <= Depth
    BY LenOfSeq DEF TypeOK, DeviceOK
  <2>2. WI \in BOOLEAN /\ Depth - Len(txFifo) \in 0 .. Depth
    BY <2>1, Sizes DEF WI
  <2>3. isr' \in {"off", "rx", "tx"} /\ avail' \in BOOLEAN
    BY <1>3 DEF IrqTest
  <2>4. wi' \in BOOLEAN
    BY <1>3, <2>2 DEF IrqTest
  <2>5. space' \in 0 .. Depth
    BY <1>3, <2>2, Sizes DEF IrqTest
  <2> QED BY <2>3, <2>4, <2>5 DEF RoutineOK
<1>4. CASE IrqRx
  <2>1. avail' \in BOOLEAN
    BY <1>4, Zenon DEF IrqRx
  <2>2. isr' \in {"rx", "rxoff"} /\ UNCHANGED <<wi, space>>
    BY <1>4 DEF IrqRx
  <2> QED BY <2>1, <2>2 DEF TypeOK, RoutineOK
<1>5. CASE IrqTx
  BY <1>5, Sizes DEF IrqTx, TypeOK, RoutineOK
<1>6. CASE WriteCall \/ WriteSnap \/ WriteCopy \/ WriteAdvance \/ Kick
         \/ WriteSpin \/ WriteCheck \/ ReadCall \/ ReadSnap \/ ReadCopy
         \/ ReadAdvance \/ ReadSpin \/ ReadCheck \/ ReadEnable
         \/ CloseCall \/ Closing \/ Ioctl \/ Timeout \/ HostTake
         \/ HostSend \/ HostPoll \/ Plug
  BY <1>6, <1>1
     DEF WriteCall, WriteSnap, WriteCopy, WriteAdvance, Kick, WriteSpin,
     WriteCheck, ReadCall, ReadSnap, ReadCopy, ReadAdvance, ReadSpin,
     ReadCheck, ReadEnable, CloseCall, Closing, Ioctl, Timeout, HostTake,
     HostSend, HostPoll, Plug
<1>7. CASE UNCHANGED vars
  BY <1>7, <1>1 DEF vars
<1> QED
  BY <1>2, <1>3, <1>4, <1>5, <1>6, <1>7 DEF Next, Write, Read, Irq

(* The FIFOs of the device.                                                *)
LEMMA DeviceStep ==
    ASSUME TypeOK, Inner, [Next]_vars PROVE DeviceOK'
<1> USE DEF device, Thread, Handler
<1>1. ASSUME UNCHANGED <<txFifo, rxFifo, pause, ac>>
      PROVE  DeviceOK'
  BY <1>1 DEF TypeOK, DeviceOK
<1>2. CASE IrqRx
  <2> DEFINE S == 0 .. Marks - 1
  <2>1. rxFifo \in Seq(S) /\ typed \in S /\ Len(rxFifo) <= Depth
    BY DEF TypeOK, DeviceOK, HostOK
  <2>2. PICK late \in BOOLEAN :
           /\ late => Len(rxFifo) < Depth
           /\ ac' = (ac \/ late) /\ pause' = FALSE /\ txFifo' = txFifo
           /\ rxFifo' = (IF rxFifo = <<>> THEN <<>> ELSE Tail(rxFifo))
                         \o (IF late THEN <<typed>> ELSE <<>>)
    BY <1>2, LateOnEmpty DEF IrqRx
  <2> DEFINE q == IF rxFifo = <<>> THEN <<>> ELSE Tail(rxFifo)
  <2>3. q \in Seq(S) /\ Len(q) <= Depth /\ Len(q) \in Nat
    <3>1. CASE rxFifo = <<>>
      BY <2>1, <3>1, Sizes
    <3>2. CASE rxFifo # <<>>
      BY <2>1, <3>2, Sizes
    <3> QED BY <3>1, <3>2
  <2>4. rxFifo' \in Seq(S) /\ Len(rxFifo') <= Depth
    <3>1. CASE late
      BY <2>1, <2>2, <2>3, <3>1, Sizes, q \o <<typed>> = Append(q, typed)
    <3>2. CASE ~late
      BY <2>2, <2>3, <3>2, q \o <<>> = q
    <3> QED BY <3>1, <3>2
  <2> QED BY <2>2, <2>4 DEF TypeOK, DeviceOK
<1>3. CASE IrqTx
  <2>1. /\ txBuf[txOut] \in 0 .. Marks - 1
        /\ space \in Nat /\ space > 0 /\ space <= Depth - Len(txFifo)
    BY <1>3 DEF IrqTx, TypeOK, DriverOK, RoutineOK, Inner
  <2> QED BY <1>3, <2>1, AppendToSeq, LenOfSeq, Sizes
          DEF IrqTx, TypeOK, DeviceOK
<1>4. CASE Timeout
  BY <1>4 DEF Timeout, TypeOK, DeviceOK
<1>5. CASE HostTake
  BY <1>5, Sizes DEF HostTake, TypeOK, DeviceOK
<1>6. CASE HostSend
  BY <1>6, Sizes DEF HostSend, TypeOK, DeviceOK, HostOK
<1>7. CASE HostPoll
  BY <1>7 DEF HostPoll, TypeOK, DeviceOK
<1>8. CASE WriteCall \/ WriteSnap \/ WriteCopy \/ WriteAdvance \/ Kick
         \/ WriteSpin \/ WriteCheck \/ ReadCall \/ ReadSnap \/ ReadCopy
         \/ ReadAdvance \/ ReadSpin \/ ReadCheck \/ ReadEnable
         \/ CloseCall \/ Closing \/ Ioctl \/ IrqEnter \/ IrqTest
         \/ IrqRxFull \/ IrqRxOff \/ IrqTxOff \/ Plug
  BY <1>8, <1>1
     DEF WriteCall, WriteSnap, WriteCopy, WriteAdvance, Kick, WriteSpin,
     WriteCheck, ReadCall, ReadSnap, ReadCopy, ReadAdvance, ReadSpin,
     ReadCheck, ReadEnable, CloseCall, Closing, Ioctl, IrqEnter, IrqTest,
     IrqRxFull, IrqRxOff, IrqTxOff, Plug
<1>9. CASE UNCHANGED vars
  BY <1>9, <1>1 DEF vars
<1> QED
  BY <1>2, <1>3, <1>4, <1>5, <1>6, <1>7, <1>8, <1>9 DEF Next, Write, Read, Irq

(* The counters of the characters.                                         *)
LEMMA HostStep ==
    ASSUME TypeOK, Inner, [Next]_vars PROVE HostOK'
<1> USE DEF host, Thread, Handler
<1>1. ASSUME UNCHANGED <<connected, written, typed, heard, taken>>
      PROVE  HostOK'
  BY <1>1 DEF TypeOK, HostOK
<1>2. CASE WriteAdvance \/ ReadAdvance
  BY <1>2, ModRange, Sizes
     DEF WriteAdvance, ReadAdvance, TypeOK, HostOK, ProgramOK
<1>3. CASE IrqRx \/ HostTake \/ HostSend
  BY <1>3, ModRange, Sizes DEF IrqRx, HostTake, HostSend, TypeOK, HostOK
<1>4. CASE Plug
  BY <1>4 DEF Plug, TypeOK, HostOK
<1>5. CASE WriteCall \/ WriteSnap \/ WriteCopy \/ Kick \/ WriteSpin
         \/ WriteCheck \/ ReadCall \/ ReadSnap \/ ReadCopy \/ ReadSpin
         \/ ReadCheck \/ ReadEnable \/ CloseCall \/ Closing \/ Ioctl
         \/ IrqEnter \/ IrqTest \/ IrqRxFull \/ IrqRxOff \/ IrqTx
         \/ IrqTxOff \/ Timeout \/ HostPoll
  BY <1>5, <1>1
     DEF WriteCall, WriteSnap, WriteCopy, Kick, WriteSpin, WriteCheck, ReadCall,
     ReadSnap, ReadCopy, ReadSpin, ReadCheck, ReadEnable, CloseCall, Closing,
     Ioctl, IrqEnter, IrqTest, IrqRxFull, IrqRxOff, IrqTx, IrqTxOff, Timeout,
     HostPoll
<1>6. CASE UNCHANGED vars
  BY <1>6, <1>1 DEF vars
<1> QED
  BY <1>2, <1>3, <1>4, <1>5, <1>6 DEF Next, Write, Read, Irq

(* What the locals know.                                                   *)
LEMMA InnerStep ==
    ASSUME TypeOK, Inner, [Next]_vars PROVE Inner'
<1> USE DEF driver, device, host, routine, program, Thread, Handler
<1>1. ASSUME UNCHANGED <<txIn, rxIn, rxOut, txFifo, rxFifo, pause, pc,
                         left, chunk, isr, avail, space>>
      PROVE  Inner'
  BY <1>1 DEF Inner
<1>2. CASE WriteCall \/ ReadCall \/ CloseCall
  BY <1>2 DEF WriteCall, ReadCall, CloseCall, Call, Inner
<1>3. CASE WriteSnap
  <2>1. /\ Room(txIn, txOut) \in 0 .. BufLen - 1 /\ left \in Nat
        /\ txIn + Room(txIn, txOut) <= BufLen /\ txIn \in Nat
    <3>1. left \in Nat /\ txIn \in 0 .. BufLen - 1 /\ txOut \in 0 .. BufLen - 1
      BY DEF TypeOK, DriverOK, ProgramOK
    <3> QED BY <3>1, RoomInOnePiece, Sizes
  <2>2. CASE left = 0 \/ Room(txIn, txOut) = 0
    BY <1>3, <2>2 DEF WriteSnap, Inner
  <2>3. CASE ~(left = 0 \/ Room(txIn, txOut) = 0)
    <3> DEFINE n == Min({Room(txIn, txOut), left})
    <3>1. Room(txIn, txOut) \in Int /\ left \in Int
      BY <2>1, Sizes
    <3>2. n \in {Room(txIn, txOut), left}
      BY <3>1, MinOfTwo, Zenon
    <3>3. n <= Room(txIn, txOut) /\ n <= left
      BY <3>1, MinOfTwo, Zenon
    <3>4. n > 0 /\ txIn + n <= BufLen
      BY <2>1, <2>3, <3>2, <3>3, Sizes
    <3>5. /\ pc' = "copy" /\ chunk' = n
          /\ UNCHANGED <<left, txIn, rxIn, rxOut, txFifo, rxFifo, pause, isr,
                         avail, space>>
      BY <1>3, <2>3 DEF WriteSnap
    <3> QED BY <3>3, <3>4, <3>5 DEF Inner
  <2> QED BY <2>2, <2>3
<1>4. CASE WriteCopy
  BY <1>4 DEF WriteCopy, Goto, Inner
<1>5. CASE WriteAdvance \/ ReadAdvance
  BY <1>5 DEF WriteAdvance, ReadAdvance, Inner
<1>6. CASE Kick \/ WriteSpin \/ WriteCheck \/ ReadSpin \/ ReadCheck
      \/ ReadEnable \/ Closing \/ Ioctl
  BY <1>6
     DEF Kick, WriteSpin, WriteCheck, ReadSpin, ReadCheck, ReadEnable, Closing,
     Ioctl, Goto, Return, Inner
<1>7. CASE ReadSnap
  <2> DEFINE n == Min({Held(rxIn, rxOut), left})
  <2>1. /\ left \in Nat /\ rxOut \in 0 .. BufLen - 1
        /\ Held(rxIn, rxOut) \in 0 .. BufLen - 1
        /\ rxOut + Held(rxIn, rxOut) <= BufLen
    BY HeldInOnePiece DEF TypeOK, DriverOK, ProgramOK
  <2>2. Held(rxIn, rxOut) \in Int /\ left \in Int
    BY <2>1, Sizes
  <2>3. n \in Int /\ n <= Held(rxIn, rxOut) /\ n <= left
    BY <2>2, MinOfTwo
  <2>4. rxOut + n <= BufLen
    BY <2>1, <2>3, Sizes
  <2>5. /\ chunk' = n /\ UNCHANGED <<left, txIn, rxIn, rxOut, txFifo, rxFifo,
                                     pause, isr, avail, space>>
        /\ pc' \in {"rcopy", "renable", "rspin"} /\ (pc' = "rcopy" => n > 0)
    BY <1>7 DEF ReadSnap
  <2> QED BY <2>3, <2>4, <2>5 DEF Inner
<1>8. CASE ReadCopy
  BY <1>8 DEF ReadCopy, Inner
<1>9. CASE IrqEnter \/ IrqRxOff
  BY <1>9 DEF IrqEnter, IrqRxOff, Inner
<1>10. CASE IrqRxFull
  BY <1>10, FullNotEmpty DEF IrqRxFull, RxFull, TypeOK, DriverOK, Inner
<1>11. CASE IrqTest
  <2>1. RI => rxFifo # <<>>
    BY LenOfSeq, Sizes DEF RI, Inner, TypeOK, DeviceOK
  <2>2. Len(txFifo) \in Nat
    BY LenOfSeq DEF TypeOK, DeviceOK
  <2> QED BY <1>11, <2>1, <2>2, Sizes DEF IrqTest, Inner
<1>12. CASE IrqRx
  <2>1. Wrap(rxIn + 1) # rxOut /\ isr = "rx"
    BY <1>12 DEF IrqRx, RxFull
  <2>2. CASE rxFifo = <<>>
    <3>1. rxIn # rxOut
      BY <2>1, <2>2 DEF Inner
    <3>2. /\ pause' = FALSE /\ isr' = "rxoff"
          /\ UNCHANGED <<txIn, rxIn, rxOut, txFifo, pc, left, chunk, space>>
      BY <1>12, <2>2 DEF IrqRx
    <3> QED BY <2>1, <3>1, <3>2 DEF Inner
  <2>3. CASE rxFifo # <<>>
    <3>1. /\ pause' = FALSE /\ isr' = "rx" /\ rxIn' = Wrap(rxIn + 1)
          /\ UNCHANGED <<txIn, rxOut, txFifo, pc, left, chunk, space>>
      BY <1>12, <2>1, <2>3 DEF IrqRx
    <3> QED BY <2>1, <3>1 DEF Inner
  <2> QED BY <2>2, <2>3
<1>13. CASE IrqTx
  <2>1. /\ txBuf[txOut] \in 0 .. Marks - 1 /\ space \in 0 .. Depth
        /\ txFifo \in Seq(0 .. Marks - 1)
    BY DEF TypeOK, DriverOK, DeviceOK, RoutineOK
  <2>2. Len(txFifo') = Len(txFifo) + 1 /\ Len(txFifo) \in Nat
    BY <1>13, <2>1 DEF IrqTx
  <2> QED BY <1>13, <2>1, <2>2, Sizes DEF IrqTx, Inner
<1>14. CASE IrqTxOff \/ Timeout \/ Plug
  BY <1>14 DEF IrqTxOff, Timeout, Plug, Inner
<1>15. CASE HostTake
  <2>1. txFifo \in Seq(0 .. Marks - 1) /\ space \in 0 .. Depth
    BY DEF TypeOK, DeviceOK, RoutineOK
  <2>2. Len(txFifo') = Len(txFifo) - 1 /\ Len(txFifo) \in Nat
    BY <1>15, <2>1 DEF HostTake
  <2> QED BY <1>15, <2>1, <2>2, Sizes DEF HostTake, Inner
<1>16. CASE HostSend
  BY <1>16 DEF HostSend, Inner
<1>17. CASE HostPoll
  BY <1>17 DEF HostPoll, Inner
<1>18. CASE UNCHANGED vars
  BY <1>18, <1>1 DEF vars
<1> QED
  BY <1>2, <1>3, <1>4, <1>5, <1>6, <1>7, <1>8, <1>9, <1>10, <1>11, <1>12,
     <1>13, <1>14, <1>15, <1>16, <1>17, <1>18
     DEF Next, Write, Read, Irq

-----------------------------------------------------------------------------
(* The invariant holds at the start ...                                    *)
LEMMA InitInvariant ==
    ASSUME Init PROVE TypeOK /\ Inner
<1>0. <<>> \in Seq(0 .. Marks - 1) /\ Len(<<>>) = 0
  OBVIOUS
<1>1. DriverOK
  BY JtagAssumption DEF Init, DriverOK
<1>2. ProgramOK
  <2>1. 0 \in 0 .. BufLen - 1
    BY Sizes
  <2> QED BY <1>0, <2>1 DEF Init, ProgramOK
<1>3. RoutineOK
  BY Sizes DEF Init, RoutineOK
<1>4. DeviceOK
  <2>1. /\ txFifo = <<>> /\ rxFifo = <<>>
        /\ pause \in BOOLEAN /\ ac \in BOOLEAN
    BY DEF Init
  <2>2. Len(txFifo) = 0 /\ Len(rxFifo) = 0
    BY <1>0, <2>1
  <2> QED BY <1>0, <2>1, <2>2, Sizes DEF DeviceOK
<1>5. HostOK
  BY Sizes DEF Init, HostOK
<1>6. Inner
  BY DEF Init, Inner
<1> QED BY <1>1, <1>2, <1>3, <1>4, <1>5, <1>6 DEF Init, TypeOK

(* ... and after every step.                                               *)
LEMMA StepInvariant ==
    ASSUME TypeOK, Inner, [Next]_vars PROVE TypeOK' /\ Inner'
<1>1. setup' = setup
  BY DEF Next, Write, Read, Irq, Thread, Handler, vars,
     WriteCall, WriteSnap, WriteCopy, WriteAdvance, Kick, WriteSpin,
     WriteCheck, ReadCall, ReadSnap, ReadCopy, ReadAdvance, ReadSpin,
     ReadCheck, ReadEnable, CloseCall, Closing, Ioctl, IrqEnter, IrqTest,
     IrqRx, IrqRxFull, IrqRxOff, IrqTx, IrqTxOff, Timeout,
     HostTake, HostSend, HostPoll, Plug
<1> QED BY <1>1, DriverStep, ProgramStep, RoutineStep, DeviceStep, HostStep,
           InnerStep DEF TypeOK

(* Nothing leaves its range, whatever the sizes of the rings and the FIFOs *)
(* and whichever calls the program makes: no index of a ring is out of it  *)
(* and the interrupt routine never writes to a full FIFO.                  *)
THEOREM ConsoleTypeCorrect == Spec => [](TypeOK /\ Inner)
<1>1. Init => TypeOK /\ Inner
  BY InitInvariant
<1>2. TypeOK /\ Inner /\ [Next]_vars => (TypeOK /\ Inner)'
  BY StepInvariant
<1> QED BY <1>1, <1>2, PTL DEF Spec

-----------------------------------------------------------------------------
(* The transmit interrupt goes off in IrqTxOff only, and there the ring is *)
(* empty or the FIFO full; a call that has put something into the ring     *)
(* passes Kick before it waits or returns.                                 *)
LEMMA TxArmedStep ==
    ASSUME TypeOK, TxArmed, [Next]_vars PROVE TxArmed'
<1> USE DEF Thread, Handler, Goto, Call, Return, driver, program, device,
            routine, host
<1>1. CASE WriteCall \/ WriteSnap \/ WriteCopy \/ WriteAdvance \/ WriteSpin
           \/ WriteCheck
  BY <1>1 DEF WriteCall, WriteSnap, WriteCopy, WriteAdvance, WriteSpin,
              WriteCheck, TxArmed
<1>2. CASE Kick
  BY <1>2 DEF Kick, TxArmed
<1>3. CASE ReadCall \/ ReadSnap \/ ReadCopy \/ ReadAdvance \/ ReadSpin
           \/ ReadCheck \/ ReadEnable \/ CloseCall \/ Closing \/ Ioctl
  BY <1>3 DEF ReadCall, ReadSnap, ReadCopy, ReadAdvance, ReadSpin, ReadCheck,
              ReadEnable, CloseCall, Closing, Ioctl, TxArmed
<1>4. CASE IrqEnter \/ IrqTest \/ IrqRx \/ IrqRxFull \/ IrqRxOff
  BY <1>4 DEF IrqEnter, IrqTest, IrqRx, IrqRxFull, IrqRxOff, TxArmed
<1>5. CASE IrqTx
  BY <1>5 DEF IrqTx, TxArmed
<1>6. CASE IrqTxOff
  BY <1>6, Sizes DEF IrqTxOff, TxArmed, TypeOK, RoutineOK
<1>7. CASE Timeout \/ HostTake \/ HostSend \/ HostPoll \/ Plug
  BY <1>7 DEF Timeout, HostTake, HostSend, HostPoll, Plug, TxArmed
<1>8. CASE UNCHANGED vars
  BY <1>8 DEF vars, TxArmed
<1> QED BY <1>1, <1>2, <1>3, <1>4, <1>5, <1>6, <1>7, <1>8
        DEF Next, Write, Read, Irq

(* What a printf has put into the ring is never left there with the write  *)
(* interrupt off.                                                          *)
THEOREM TransmitAlwaysArmed == Spec => []TxArmed
<1>1. Init => TxArmed
  BY DEF Init, TxArmed
<1>2. TypeOK /\ TxArmed /\ [Next]_vars => TxArmed'
  BY TxArmedStep
<1> QED BY <1>1, <1>2, ConsoleTypeCorrect, PTL DEF Spec

(* The receive interrupt goes off in IrqRxOff only, with a character in    *)
(* the ring; a read that empties the ring passes ReadEnable before it      *)
(* returns, and does not wait, having moved something.                     *)
LEMMA RxArmedStep ==
    ASSUME TypeOK, Inner, RxArmed, [Next]_vars PROVE RxArmed'
<1> USE DEF Thread, Handler, Goto, Call, Return, driver, program, device,
            routine, host
<1>1. CASE WriteCall \/ WriteSnap \/ WriteCopy \/ WriteAdvance \/ WriteSpin
           \/ WriteCheck \/ Kick
  BY <1>1 DEF WriteCall, WriteSnap, WriteCopy, WriteAdvance, WriteSpin,
              WriteCheck, Kick, RxArmed
<1>2. CASE ReadCall \/ CloseCall \/ Closing \/ Ioctl \/ ReadCopy \/ ReadSpin
  BY <1>2 DEF ReadCall, CloseCall, Closing, Ioctl, ReadCopy, ReadSpin, RxArmed
<1>3. CASE ReadSnap
  BY <1>3 DEF ReadSnap, RxArmed
<1>4. CASE ReadAdvance
  BY <1>4 DEF ReadAdvance, RxArmed, Inner, TypeOK, ProgramOK
<1>5. CASE ReadCheck
  BY <1>5 DEF ReadCheck, RxArmed
<1>6. CASE ReadEnable
  BY <1>6 DEF ReadEnable, RxArmed
<1>7. CASE IrqEnter \/ IrqTest \/ IrqRxFull \/ IrqTx \/ IrqTxOff
  BY <1>7 DEF IrqEnter, IrqTest, IrqRxFull, IrqTx, IrqTxOff, RxArmed
<1>8. CASE IrqRx
  <2>1. RxArmed \/ UNCHANGED <<rxIn, rxOut>>
    BY DEF RxArmed
  <2>2. Wrap(rxIn + 1) # rxOut
    BY <1>8 DEF IrqRx, RxFull
  <2> QED BY <1>8, <2>2 DEF IrqRx, RxArmed
<1>9. CASE IrqRxOff
  BY <1>9 DEF IrqRxOff, RxArmed, Inner
<1>10. CASE Timeout \/ HostTake \/ HostSend \/ HostPoll \/ Plug
  BY <1>10 DEF Timeout, HostTake, HostSend, HostPoll, Plug, RxArmed
<1>11. CASE UNCHANGED vars
  BY <1>11 DEF vars, RxArmed
<1> QED BY <1>1, <1>2, <1>3, <1>4, <1>5, <1>6, <1>7, <1>8, <1>9, <1>10, <1>11
        DEF Next, Write, Read, Irq

(* A read never waits for a character with the receive interrupt off.      *)
THEOREM ReceiveAlwaysArmed == Spec => []RxArmed
<1>1. Init => RxArmed
  BY DEF Init, RxArmed
<1>2. TypeOK /\ Inner /\ RxArmed /\ [Next]_vars => RxArmed'
  BY RxArmedStep
<1> QED BY <1>1, <1>2, ConsoleTypeCorrect, PTL DEF Spec

-----------------------------------------------------------------------------
(* The alarm is the only one to count idle seconds.                        *)
NeverIdle == ~setup.clock => hostInactive = 0

(* Only the alarm counts, and there is none.                              *)
LEMMA NeverIdleStep ==
    ASSUME NeverIdle, [Next]_vars PROVE NeverIdle'
<1>1. CASE Timeout
  BY <1>1 DEF Timeout, NeverIdle
<1>2. CASE ~Timeout
  <2>1. UNCHANGED <<setup, hostInactive>>
    BY <1>2 DEF Next, Write, Read, Irq, Thread, Handler, vars, driver,
       WriteCall, WriteSnap, WriteCopy, WriteAdvance, Kick, WriteSpin,
       WriteCheck, ReadCall, ReadSnap, ReadCopy, ReadAdvance, ReadSpin,
       ReadCheck, ReadEnable, CloseCall, Closing, Ioctl, IrqEnter, IrqTest,
       IrqRx, IrqRxFull, IrqRxOff, IrqTx, IrqTxOff,
       HostTake, HostSend, HostPoll, Plug
  <2> QED BY <2>1 DEF NeverIdle
<1> QED BY <1>1, <1>2

(* In a build without a system clock, like this one, a write that may      *)
(* block returns only when all is written: "Host not connected" is never   *)
(* reported.                                                               *)
THEOREM WritesWithoutClockAreWhole == Spec => WritesWhole
<1>1. Init => NeverIdle
  BY DEF Init, NeverIdle
<1>2. NeverIdle /\ [Next]_vars => NeverIdle'
  BY NeverIdleStep
<1>3. ASSUME TypeOK, NeverIdle, [Next]_vars, ~setup.clock,
             pc \in {"kick", "check"}, pc' = "idle", ~nonblock,
             left + moved > 0
      PROVE  ret' = "all"
  <2>1. hostInactive = 0 /\ left \in Nat /\ moved \in Nat
    BY <1>3 DEF NeverIdle, TypeOK, ProgramOK
  <2>2. Kick
    BY <1>3, <2>1 DEF Next, Write, Read, Irq, Thread, Handler, vars, driver,
       program, Goto, Call, Return,
       WriteCall, WriteSnap, WriteCopy, WriteAdvance, WriteSpin,
       WriteCheck, ReadCall, ReadSnap, ReadCopy, ReadAdvance, ReadSpin,
       ReadCheck, ReadEnable, CloseCall, Closing, Ioctl, IrqEnter, IrqTest,
       IrqRx, IrqRxFull, IrqRxOff, IrqTx, IrqTxOff, Timeout,
       HostTake, HostSend, HostPoll, Plug
  <2>3. left = 0 /\ ret' = Moved
    BY <1>3, <2>2 DEF Kick, Return, Goto
  <2> QED BY <1>3, <2>1, <2>3 DEF Moved
<1>4. TypeOK /\ NeverIdle /\ [Next]_vars =>
        [~setup.clock /\ pc \in {"kick", "check"} /\ pc' = "idle" /\ ~nonblock
           /\ left + moved > 0 => ret' = "all"]_vars
  BY <1>3
<1> QED BY <1>1, <1>2, <1>4, ConsoleTypeCorrect, PTL DEF Spec, WritesWhole

-----------------------------------------------------------------------------
(* The rings as sequences.                                                 *)
Index == 0 .. BufLen - 1
Chars == 0 .. Marks - 1
Buffer == [Index -> Chars]

(* What lies in n places from i on.                                        *)
Piece(buf, i, n) == [k \in 1 .. n |-> buf[i + k - 1]]

(* The characters of a ring, by their places in it.                        *)
LEMMA RingIs ==
    ASSUME NEW buf \in Buffer, NEW out \in Index, NEW in \in Index
    PROVE  /\ Used(in, out) \in Index
           /\ Ring(buf, out, in) \in Seq(Chars) /\ Len(Ring(buf, out, in)) = Used(in, out)
           /\ \A k \in 1 .. Used(in, out) :
                 /\ Wrap(out + k - 1) \in Index
                 /\ Ring(buf, out, in)[k] = buf[Wrap(out + k - 1)]
<1> DEFINE n == Used(in, out)
<1>1. n \in Index /\ n \in Nat
  BY Sizes DEF Used, Index
<1> HIDE DEF n
<1>2. ASSUME NEW k \in 1 .. n PROVE Wrap(out + k - 1) \in Index
  BY <1>1, Sizes DEF Wrap, Index
<1>3. Ring(buf, out, in) = [k \in 1 .. n |-> buf[Wrap(out + k - 1)]]
  BY DEF Ring, n
<1>4. \A k \in 1 .. n : buf[Wrap(out + k - 1)] \in Chars
  BY <1>2 DEF Buffer
<1>5. [k \in 1 .. n |-> buf[Wrap(out + k - 1)]] \in Seq(Chars)
  BY <1>1, <1>4
<1>6. Len([k \in 1 .. n |-> buf[Wrap(out + k - 1)]]) = n
  BY <1>1
<1> QED BY <1>1, <1>2, <1>3, <1>5, <1>6 DEF n

(* Where the used places are not: the n places from in on, if there are so *)
(* many free.                                                              *)
LEMMA FreePlaces ==
    ASSUME NEW out \in Index, NEW in \in Index, NEW n \in Nat,
           in + n <= BufLen, Used(in, out) + n <= BufLen - 1,
           NEW k \in 1 .. Used(in, out)
    PROVE  Wrap(out + k - 1) \notin in .. in + n - 1
BY Sizes DEF Used, Wrap, Index

(* Writing to free places changes nothing ...                              *)
LEMMA RingOther ==
    ASSUME NEW buf \in Buffer, NEW out \in Index, NEW in \in Index,
           NEW n \in Nat, in + n <= BufLen, Used(in, out) + n <= BufLen - 1,
           NEW new \in Buffer,
           \A i \in Index : i \notin in .. in + n - 1 => new[i] = buf[i]
    PROVE  Ring(new, out, in) = Ring(buf, out, in)
<1>1. \A k \in 1 .. Used(in, out) :
         new[Wrap(out + k - 1)] = buf[Wrap(out + k - 1)]
  BY FreePlaces, RingIs
<1>2. /\ Ring(new, out, in) \in Seq(Chars) /\ Ring(buf, out, in) \in Seq(Chars)
      /\ Len(Ring(new, out, in)) = Used(in, out) /\ Len(Ring(buf, out, in)) = Used(in, out)
      /\ \A k \in 1 .. Used(in, out) : Ring(new, out, in)[k] = Ring(buf, out, in)[k]
  BY <1>1, RingIs
<1> QED BY <1>2, SeqEqual

(* ... until the inner end moves over them.                                *)
LEMMA RingPut ==
    ASSUME NEW buf \in Buffer, NEW out \in Index, NEW in \in Index,
           NEW n \in Nat, in + n <= BufLen, Used(in, out) + n <= BufLen - 1
    PROVE  /\ Wrap(in + n) \in Index
           /\ Used(Wrap(in + n), out) = Used(in, out) + n
           /\ Piece(buf, in, n) \in Seq(Chars)
           /\ Ring(buf, out, Wrap(in + n)) = Ring(buf, out, in) \o Piece(buf, in, n)
<1> DEFINE u == Used(in, out)
           w == Wrap(in + n)
           r == Ring(buf, out, in)
           q == Ring(buf, out, w)
           t == Piece(buf, in, n)
<1>1. t \in Seq(Chars) /\ Len(t) = n /\ \A k \in 1 .. n : t[k] = buf[in + k - 1]
  <2>1. \A k \in 1 .. n : in + k - 1 \in Index
    BY Sizes DEF Index
  <2>2. \A k \in 1 .. n : buf[in + k - 1] \in Chars
    BY <2>1 DEF Buffer
  <2> QED BY <2>2 DEF Piece
<1>2. w \in Index /\ Used(w, out) = u + n /\ u \in Nat
  BY Sizes DEF Used, Wrap, Index
<1>3. /\ r \in Seq(Chars) /\ Len(r) = u
      /\ \A k \in 1 .. u : r[k] = buf[Wrap(out + k - 1)]
  BY RingIs
<1>4. /\ q \in Seq(Chars) /\ Len(q) = u + n
      /\ \A k \in 1 .. u + n : q[k] = buf[Wrap(out + k - 1)]
  <2> HIDE DEF w
  <2>1. /\ q \in Seq(Chars) /\ Len(q) = Used(w, out)
        /\ \A k \in 1 .. Used(w, out) : q[k] = buf[Wrap(out + k - 1)]
    BY <1>2, RingIs
  <2> QED BY <1>2, <2>1
<1>5. ASSUME NEW k \in u + 1 .. u + n PROVE Wrap(out + k - 1) = in + (k - u) - 1
  BY Sizes DEF Used, Wrap, Index
<1> HIDE DEF u, w, r, q, t
<1>6. /\ r \o t \in Seq(Chars) /\ Len(r \o t) = u + n
      /\ \A k \in 1 .. u + n : (r \o t)[k] = IF k <= u THEN r[k] ELSE t[k - u]
  BY <1>1, <1>3, ConcatProperties
<1>7. ASSUME NEW k \in 1 .. u + n PROVE q[k] = (r \o t)[k]
  <2>1. CASE k <= u
    <3>1. k \in 1 .. u
      BY <1>2, <2>1
    <3> QED BY <1>3, <1>4, <1>6, <2>1, <3>1
  <2>2. CASE ~(k <= u)
    <3>1. k \in u + 1 .. u + n /\ k - u \in 1 .. n
      BY <1>2, <2>2
    <3>2. Wrap(out + k - 1) = in + (k - u) - 1
      BY <1>5, <3>1
    <3> QED BY <1>1, <1>4, <1>6, <2>2, <3>1, <3>2
  <2> QED BY <2>1, <2>2
<1>8. q = r \o t
  BY <1>4, <1>6, <1>7, SeqEqual
<1> QED BY <1>1, <1>2, <1>8 DEF u, w, r, q, t

(* The outer end moves over what is taken.                                 *)
LEMMA RingTake ==
    ASSUME NEW buf \in Buffer, NEW out \in Index, NEW in \in Index,
           NEW n \in Nat, out + n <= BufLen, n <= Used(in, out)
    PROVE  /\ Wrap(out + n) \in Index
           /\ Used(in, Wrap(out + n)) = Used(in, out) - n
           /\ \A k \in 1 .. Used(in, out) - n :
                 Ring(buf, Wrap(out + n), in)[k] = Ring(buf, out, in)[n + k]
           /\ \A k \in 1 .. n : Ring(buf, out, in)[k] = buf[out + k - 1]
<1> DEFINE u == Used(in, out)
           w == Wrap(out + n)
<1>1. w \in Index /\ Used(in, w) = u - n /\ u \in Nat
  BY Sizes DEF Used, Wrap, Index
<1>2. \A k \in 1 .. u - n : Ring(buf, w, in)[k] = buf[Wrap(w + k - 1)]
  <2> HIDE DEF w
  <2> QED BY <1>1, RingIs
<1>3. \A k \in 1 .. u : Ring(buf, out, in)[k] = buf[Wrap(out + k - 1)]
  BY RingIs
<1>4. ASSUME NEW k \in 1 .. u - n PROVE Wrap(w + k - 1) = Wrap(out + (n + k) - 1)
  BY Sizes DEF Used, Wrap, Index
<1>5. ASSUME NEW k \in 1 .. n PROVE Wrap(out + k - 1) = out + k - 1
  BY Sizes DEF Wrap, Index
<1>6. ASSUME NEW k \in 1 .. u - n PROVE n + k \in 1 .. u
  BY <1>1
<1>7. ASSUME NEW k \in 1 .. n PROVE k \in 1 .. u
  BY <1>1
<1> HIDE DEF u, w
<1>8. \A k \in 1 .. u - n : Ring(buf, w, in)[k] = Ring(buf, out, in)[n + k]
  BY <1>2, <1>3, <1>4, <1>6
<1>9. \A k \in 1 .. n : Ring(buf, out, in)[k] = buf[out + k - 1]
  BY <1>3, <1>5, <1>7
<1> QED BY <1>1, <1>8, <1>9 DEF u, w

(* A queue of two parts: something is taken from the first, ...            *)
LEMMA TakeFirst ==
    ASSUME NEW s \in Seq(Chars), NEW t \in Seq(Chars), NEW n \in 0 .. Len(s),
           NEW r \in Seq(Chars), Len(r) = Len(s) - n,
           \A k \in 1 .. Len(s) - n : r[k] = s[n + k]
    PROVE  r \o t = SubSeq(s \o t, n + 1, Len(s \o t))
<1> DEFINE q == s \o t
           m == Len(s) + Len(t)
           h == SubSeq(q, n + 1, m)
<1>1. Len(s) \in Nat /\ Len(t) \in Nat /\ n \in Nat /\ n <= Len(s)
  OBVIOUS
<1>2. /\ q \in Seq(Chars) /\ Len(q) = m
      /\ \A k \in 1 .. m : q[k] = IF k <= Len(s) THEN s[k] ELSE t[k - Len(s)]
  BY ConcatProperties
<1>3. /\ r \o t \in Seq(Chars) /\ Len(r \o t) = m - n
      /\ \A k \in 1 .. m - n : (r \o t)[k] =
            IF k <= Len(s) - n THEN r[k] ELSE t[k - (Len(s) - n)]
  <2>1. /\ r \o t \in Seq(Chars) /\ Len(r \o t) = Len(r) + Len(t)
        /\ \A k \in 1 .. Len(r) + Len(t) : (r \o t)[k] =
              IF k <= Len(r) THEN r[k] ELSE t[k - Len(r)]
    BY ConcatProperties
  <2>2. Len(r) + Len(t) = m - n
    BY <1>1
  <2> QED BY <2>1, <2>2
<1> HIDE DEF q
<1>4. /\ h \in Seq(Chars) /\ Len(h) = m - n
      /\ \A k \in 1 .. m - n : h[k] = q[n + k]
  <2>1. \A k \in n + 1 .. m : q[k] \in Chars
    <3>1. \A k \in 1 .. m : q[k] \in Chars
      BY <1>2, ElementOfSeq
    <3> QED BY <1>1, <3>1
  <2>2. m \in Int /\ n + 1 \in Int
    BY <1>1
  <2> HIDE DEF m
  <2>3. /\ h \in Seq(Chars) /\ Len(h) = IF n + 1 <= m THEN m - (n + 1) + 1 ELSE 0
        /\ \A i \in 1 .. m - (n + 1) + 1 : h[i] = q[n + 1 + i - 1]
    BY <2>1, <2>2, SubSeqProperties
  <2>4. m - (n + 1) + 1 = m - n /\ (~(n + 1 <= m) => m - n = 0)
    BY <1>1, <2>2 DEF m
  <2>5. \A i \in 1 .. m - n : n + 1 + i - 1 = n + i
    BY <1>1, <2>2
  <2> QED BY <2>3, <2>4, <2>5
<1> HIDE DEF h
<1>5. ASSUME NEW k \in 1 .. m - n PROVE (r \o t)[k] = h[k]
  <2>1. n + k \in 1 .. m /\ k \in Nat /\ m \in Nat
    BY <1>1
  <2>2. h[k] = IF n + k <= Len(s) THEN s[n + k] ELSE t[n + k - Len(s)]
    BY <1>2, <1>4, <2>1
  <2>3. CASE n + k <= Len(s)
    <3>1. k <= Len(s) - n /\ k \in 1 .. Len(s) - n
      BY <1>1, <2>1, <2>3
    <3> QED BY <1>3, <2>2, <2>3, <3>1
  <2>4. CASE ~(n + k <= Len(s))
    <3>1. ~(k <= Len(s) - n) /\ k - (Len(s) - n) = n + k - Len(s)
      BY <1>1, <2>1, <2>4
    <3> QED BY <1>3, <2>2, <2>4, <3>1
  <2> QED BY <2>3, <2>4
<1>6. r \o t = h
  BY <1>3, <1>4, <1>5, SeqEqual
<1> QED BY <1>2, <1>6 DEF h, q

(* ... or goes over from the one to the other.                             *)
LEMMA PassOver ==
    ASSUME NEW s \in Seq(Chars), NEW t \in Seq(Chars), t # <<>>,
           NEW r \in Seq(Chars), Len(r) = Len(t) - 1,
           \A k \in 1 .. Len(t) - 1 : r[k] = t[k + 1]
    PROVE  Append(s, t[1]) \o r = s \o t
<1>1. t[1] \in Chars /\ Len(t) \in Nat /\ Len(t) > 0
  OBVIOUS
<1>2. Append(s, t[1]) = s \o <<t[1]>> /\ <<t[1]>> \in Seq(Chars)
  BY <1>1, AppendIsConcat
<1>3. (s \o <<t[1]>>) \o r = s \o (<<t[1]>> \o r)
  BY <1>2, ConcatAssociative
<1>4. <<t[1]>> \o r = t
  <2>1. /\ <<t[1]>> \o r \in Seq(Chars) /\ Len(<<t[1]>> \o r) = 1 + Len(r)
        /\ \A k \in 1 .. 1 + Len(r) : (<<t[1]>> \o r)[k] =
              IF k <= 1 THEN <<t[1]>>[k] ELSE r[k - 1]
    <3>1. Len(<<t[1]>>) = 1
      OBVIOUS
    <3> QED BY <1>2, <3>1, ConcatProperties
  <2>2. 1 + Len(r) = Len(t)
    BY <1>1
  <2>3. ASSUME NEW k \in 1 .. Len(t) PROVE (<<t[1]>> \o r)[k] = t[k]
    <3>1. CASE k = 1
      BY <2>1, <2>2, <2>3, <3>1
    <3>2. CASE k # 1
      <4>1. ~(k <= 1) /\ k - 1 \in 1 .. Len(t) - 1 /\ (k - 1) + 1 = k
        BY <1>1, <3>2
      <4>2. (<<t[1]>> \o r)[k] = r[k - 1]
        BY <2>1, <2>2, <4>1
      <4> QED BY <4>1, <4>2
    <3> QED BY <3>1, <3>2
  <2> QED BY <2>1, <2>2, <2>3, SeqEqual
<1> QED BY <1>2, <1>3, <1>4

-----------------------------------------------------------------------------
(* What write knows of the ring it has looked at: the places it fills are  *)
(* free, for the interrupt routine only takes away, and once filled they   *)
(* hold the next characters.                                               *)
TxQueue == txFifo \o Ring(txBuf, txOut, txIn)
TxInv ==
    /\ pc \in {"copy", "advance"} => Used(txIn, txOut) + chunk <= BufLen - 1
    /\ pc = "advance" =>
          \A k \in 1 .. chunk : txBuf[txIn + k - 1] = (written + k - 1) % Marks

(* What read knows: the characters it takes are there, and those it has    *)
(* copied are still the same.                                              *)
RxQueue == Ring(rxBuf, rxOut, rxIn) \o rxFifo
RxInv ==
    /\ pc \in {"rcopy", "radvance"} => chunk <= Used(rxIn, rxOut)
    /\ ReadsInOrder

(* The types of what the streams are made of.                              *)
LEMMA Typed ==
    ASSUME TypeOK
    PROVE  /\ txIn \in Index /\ txOut \in Index /\ txBuf \in Buffer
           /\ rxIn \in Index /\ rxOut \in Index /\ rxBuf \in Buffer
           /\ txFifo \in Seq(Chars) /\ Len(txFifo) \in Nat /\ Len(txFifo) <= Depth
           /\ rxFifo \in Seq(Chars) /\ Len(rxFifo) \in Nat /\ Len(rxFifo) <= Depth
           /\ written \in Chars /\ typed \in Chars /\ heard \in Chars /\ taken \in Chars
           /\ chunk \in Nat /\ left \in Nat
BY LenOfSeq, Sizes
   DEF TypeOK, DriverOK, DeviceOK, HostOK, ProgramOK, Index, Buffer, Chars

(* The queues are sequences of characters, as long as their two parts.     *)
LEMMA QueueTypes ==
    ASSUME TypeOK
    PROVE  /\ Ring(txBuf, txOut, txIn) \in Seq(Chars)
           /\ Len(Ring(txBuf, txOut, txIn)) = Used(txIn, txOut)
           /\ Ring(rxBuf, rxOut, rxIn) \in Seq(Chars)
           /\ Len(Ring(rxBuf, rxOut, rxIn)) = Used(rxIn, rxOut)
           /\ Used(txIn, txOut) \in Nat /\ Used(rxIn, rxOut) \in Nat
           /\ TxQueue \in Seq(Chars) /\ Len(TxQueue) = Len(txFifo) + Used(txIn, txOut)
           /\ RxQueue \in Seq(Chars) /\ Len(RxQueue) = Used(rxIn, rxOut) + Len(rxFifo)
<1>1. /\ Ring(txBuf, txOut, txIn) \in Seq(Chars)
      /\ Len(Ring(txBuf, txOut, txIn)) = Used(txIn, txOut)
      /\ Ring(rxBuf, rxOut, rxIn) \in Seq(Chars)
      /\ Len(Ring(rxBuf, rxOut, rxIn)) = Used(rxIn, rxOut)
      /\ Used(txIn, txOut) \in Index /\ Used(rxIn, rxOut) \in Index
  BY Typed, RingIs
<1>2. Used(txIn, txOut) \in Nat /\ Used(rxIn, rxOut) \in Nat
  BY <1>1, Sizes DEF Index
<1>3. TxQueue \in Seq(Chars) /\ Len(TxQueue) = Len(txFifo) + Used(txIn, txOut)
  BY <1>1, Typed, ConcatProperties DEF TxQueue
<1>4. RxQueue \in Seq(Chars) /\ Len(RxQueue) = Used(rxIn, rxOut) + Len(rxFifo)
  BY <1>1, Typed, ConcatProperties DEF RxQueue
<1> QED BY <1>1, <1>2, <1>3, <1>4

(* What a call has seen fits.                                              *)
LEMMA RoomFits ==
    ASSUME NEW in \in Index, NEW out \in Index
    PROVE  /\ Used(in, out) + Room(in, out) <= BufLen - 1
           /\ Held(in, out) <= Used(in, out)
           /\ Room(in, out) \in Int /\ Held(in, out) \in Int
BY Sizes DEF Room, Held, Used, Index

(* A queue has room for a character.                                       *)
LEMMA Capacity == BufLen - 1 + Depth \in Nat /\ BufLen - 1 + Depth >= 2
BY Sizes

(* Steps that have nothing to do with the way out.                         *)
LEMMA TxQuiet ==
    ASSUME TxInv, UNCHANGED <<txIn, txOut, txBuf, txFifo, written, heard>>,
           pc' \notin {"copy", "advance"} \/ UNCHANGED <<pc, chunk>>
    PROVE  TxInv' /\ UNCHANGED <<written, heard, TxQueue>>
BY DEF TxInv, TxQueue

(* All steps but five are of this kind.                                    *)
LEMMA TxOthers ==
    ASSUME TxInv, [Next]_vars,
           ~(WriteSnap \/ WriteCopy \/ WriteAdvance \/ IrqTx \/ HostTake)
    PROVE  TxInv' /\ UNCHANGED <<written, heard, TxQueue>>
<1> USE DEF Thread, Handler, driver, program, device, routine, host
<1>1. CASE WriteCall \/ Kick \/ WriteSpin \/ WriteCheck \/ ReadCall \/ CloseCall
  BY <1>1, TxQuiet DEF WriteCall, Kick, WriteSpin, WriteCheck, ReadCall, CloseCall,
                       Call, Goto, Return
<1>2. CASE ReadSnap \/ ReadCopy \/ ReadAdvance
  BY <1>2, TxQuiet DEF ReadSnap, ReadCopy, ReadAdvance
<1>3. CASE ReadSpin \/ ReadCheck \/ ReadEnable \/ Closing \/ Ioctl
  BY <1>3, TxQuiet DEF ReadSpin, ReadCheck, ReadEnable, Closing, Ioctl, Goto, Return
<1>4. CASE IrqEnter \/ IrqTest \/ IrqRx \/ IrqRxFull \/ IrqRxOff \/ IrqTxOff
  BY <1>4, TxQuiet DEF IrqEnter, IrqTest, IrqRx, IrqRxFull, IrqRxOff, IrqTxOff
<1>5. CASE Timeout \/ HostSend \/ HostPoll \/ Plug
  BY <1>5, TxQuiet DEF Timeout, HostSend, HostPoll, Plug
<1>6. CASE UNCHANGED vars
  BY <1>6, TxQuiet DEF vars
<1> QED BY <1>1, <1>2, <1>3, <1>4, <1>5, <1>6 DEF Next, Write, Read, Irq

(* The five steps of the way out.                                          *)
LEMMA TxStep ==
    ASSUME TypeOK, TypeOK', Inner, TxInv, [Next]_vars
    PROVE  TxInv' /\ [Stream!Next]_<<written, heard, TxQueue>>
<1> USE DEF Thread, Handler, driver, program, device, routine, host
<1> DEFINE ring == Ring(txBuf, txOut, txIn)
           u == Used(txIn, txOut)
           n == chunk
<1>1. /\ txIn \in Index /\ txOut \in Index /\ txBuf \in Buffer
      /\ txIn' \in Index /\ txOut' \in Index /\ txBuf' \in Buffer
      /\ txFifo \in Seq(Chars) /\ txFifo' \in Seq(Chars)
      /\ Len(txFifo) \in Nat /\ Len(txFifo) <= Depth
      /\ written \in Chars /\ n \in Nat /\ left \in Nat
  <2>1. /\ txIn' \in Index /\ txOut' \in Index /\ txBuf' \in Buffer
        /\ txFifo' \in Seq(Chars)
    BY DEF TypeOK, DriverOK, DeviceOK, Index, Buffer, Chars
  <2> QED BY <2>1, Typed
<1>2. ring \in Seq(Chars) /\ Len(ring) = u /\ u \in Nat
  BY QueueTypes
<1>3. CASE WriteSnap
  <2>1. UNCHANGED <<txIn, txOut, txBuf, txFifo, written, heard>>
    BY <1>3 DEF WriteSnap
  <2>2. UNCHANGED <<written, heard, TxQueue>>
    BY <2>1 DEF TxQueue
  <2>3. pc' = "kick" \/ (pc' = "copy" /\ chunk' = Min({Room(txIn, txOut), left}))
    BY <1>3 DEF WriteSnap
  <2>4. u + Room(txIn, txOut) <= BufLen - 1 /\ Room(txIn, txOut) \in Int
    BY <1>1, RoomFits
  <2>5. /\ Min({Room(txIn, txOut), left}) <= Room(txIn, txOut)
        /\ Min({Room(txIn, txOut), left}) \in Int
    <3>1. left \in Int
      BY <1>1
    <3>2. /\ Min({Room(txIn, txOut), left}) \in {Room(txIn, txOut), left}
          /\ Min({Room(txIn, txOut), left}) <= Room(txIn, txOut)
      BY <2>4, <3>1, MinOfTwo
    <3> QED BY <2>4, <3>1, <3>2
  <2>6. u + Min({Room(txIn, txOut), left}) <= BufLen - 1
    <3> DEFINE m == Min({Room(txIn, txOut), left})
    <3> HIDE DEF m, u
    <3> QED BY <1>2, <2>4, <2>5, Sizes DEF m
  <2> QED BY <2>1, <2>2, <2>3, <2>6 DEF TxInv
<1>4. CASE WriteCopy
  <2>1. /\ pc = "copy" /\ pc' = "advance" /\ chunk' = chunk
        /\ UNCHANGED <<txIn, txOut, txFifo, written, heard>>
        /\ txBuf' = [i \in DOMAIN txBuf |->
                       IF i \in txIn .. txIn + chunk - 1
                       THEN (written + i - txIn) % Marks ELSE txBuf[i]]
    BY <1>4 DEF WriteCopy, Goto
  <2>2. u + n <= BufLen - 1 /\ txIn + n <= BufLen
    BY <2>1 DEF TxInv, Inner
  <2>3. DOMAIN txBuf = Index
    BY <1>1 DEF Buffer
  <2>4. Ring(txBuf', txOut, txIn) = ring
    <3>1. \A i \in Index : i \notin txIn .. txIn + n - 1 => txBuf'[i] = txBuf[i]
      BY <2>1, <2>3
    <3> QED BY <1>1, <2>2, <3>1, RingOther
  <2>5. ASSUME NEW k \in 1 .. n PROVE txBuf'[txIn + k - 1] = (written + k - 1) % Marks
    <3>1. /\ txIn + k - 1 \in Index /\ txIn + k - 1 \in txIn .. txIn + n - 1
          /\ written + (txIn + k - 1) - txIn = written + k - 1
      BY <1>1, <2>2, Sizes DEF Index, Chars
    <3>2. txBuf'[txIn + k - 1] = (written + (txIn + k - 1) - txIn) % Marks
      BY <2>1, <2>3, <3>1
    <3> QED BY <3>1, <3>2
  <2>6. TxInv'
    BY <2>1, <2>2, <2>5 DEF TxInv
  <2> QED BY <2>1, <2>4, <2>6 DEF TxQueue
<1>5. CASE WriteAdvance
  <2>1. /\ pc = "advance" /\ pc' = "snap" /\ txIn' = Wrap(txIn + n)
        /\ UNCHANGED <<txOut, txBuf, txFifo, heard>>
        /\ written' = (written + n) % Marks
    BY <1>5 DEF WriteAdvance
  <2>2. u + n <= BufLen - 1 /\ txIn + n <= BufLen /\ n > 0
    BY <2>1 DEF TxInv, Inner
  <2> DEFINE new == Piece(txBuf, txIn, n)
  <2>3. new = [k \in 1 .. n |-> (written + k - 1) % Marks]
    BY <2>1 DEF TxInv, Piece
  <2>4. /\ new \in Seq(Chars)
        /\ Ring(txBuf, txOut, Wrap(txIn + n)) = Ring(txBuf, txOut, txIn) \o new
    BY <1>1, <2>2, RingPut
  <2> HIDE DEF new
  <2>5. new \in Seq(Chars) /\ Ring(txBuf, txOut, txIn') = ring \o new
    BY <2>1, <2>4
  <2> HIDE DEF ring
  <2>6. TxQueue' = TxQueue \o new
    <3>1. (txFifo \o ring) \o new = txFifo \o (ring \o new)
      BY <1>1, <1>2, <2>5, ConcatAssociative
    <3>2. TxQueue' = txFifo \o Ring(txBuf, txOut, txIn')
      BY <2>1 DEF TxQueue
    <3> QED BY <2>5, <3>1, <3>2 DEF TxQueue, ring
  <2>7. Len(TxQueue) + n <= BufLen - 1 + Depth
    <3>1. Len(TxQueue) = Len(txFifo) + u
      BY QueueTypes
    <3> QED BY <1>1, <1>2, <2>2, <3>1, Sizes
  <2>8. n \in 1 .. BufLen - 1 + Depth
    BY <1>1, <1>2, <2>2, Sizes
  <2>9. Stream!Put(n)
    BY <2>1, <2>3, <2>6, <2>7 DEF Stream!Put, TxQueue
  <2>10. TxInv'
    BY <2>1 DEF TxInv
  <2> QED BY <2>8, <2>9, <2>10 DEF Stream!Next
<1>6. CASE IrqTx
  <2>1. /\ txOut # txIn /\ txFifo' = Append(txFifo, txBuf[txOut])
        /\ txOut' = Wrap(txOut + 1)
        /\ UNCHANGED <<txIn, txBuf, written, heard, pc, chunk>>
    BY <1>6 DEF IrqTx
  <2>2. 1 <= u /\ txOut + 1 <= BufLen
    BY <1>1, <2>1, Sizes DEF Used, Index
  <2> DEFINE r == Ring(txBuf, txOut', txIn)
  <2>3. /\ Used(txIn, txOut') = u - 1
        /\ \A k \in 1 .. u - 1 : r[k] = ring[1 + k]
        /\ \A k \in 1 .. 1 : ring[k] = txBuf[txOut + k - 1]
    BY <1>1, <2>1, <2>2, RingTake
  <2>4. r \in Seq(Chars) /\ Len(r) = u - 1
    BY <1>1, <2>3, RingIs
  <2>5. ring[1] = txBuf[txOut]
    <3>1. txOut + 1 - 1 = txOut
      BY <1>1, Sizes DEF Index
    <3> QED BY <2>3, <3>1
  <2>6. ring # <<>>
    BY <1>2, <2>2, LenOfSeq
  <2>7. \A k \in 1 .. u - 1 : r[k] = ring[k + 1]
    BY <1>2, <2>3
  <2>8. TxQueue' = txFifo' \o r
    BY <2>1 DEF TxQueue
  <2> HIDE DEF r, ring, u
  <2>9. Append(txFifo, ring[1]) \o r = txFifo \o ring
    BY <1>1, <1>2, <2>4, <2>6, <2>7, PassOver
  <2>10. TxQueue' = TxQueue
    BY <2>1, <2>5, <2>8, <2>9 DEF TxQueue, ring
  <2>11. TxInv'
    <3>1. pc \in {"copy", "advance"} => Used(txIn, txOut') + chunk <= BufLen - 1
      BY <1>1, <1>2, <2>3, Sizes DEF TxInv, u
    <3> QED BY <2>1, <3>1 DEF TxInv
  <2> QED BY <2>1, <2>10, <2>11
<1>7. CASE HostTake
  <2>1. /\ txFifo # <<>> /\ txFifo' = Tail(txFifo) /\ heard' = (heard + 1) % Marks
        /\ UNCHANGED <<txIn, txOut, txBuf, written, pc, chunk>>
    BY <1>7 DEF HostTake
  <2>2. /\ Tail(txFifo) \in Seq(Chars) /\ Len(Tail(txFifo)) = Len(txFifo) - 1
        /\ \A k \in 1 .. Len(Tail(txFifo)) : Tail(txFifo)[k] = txFifo[k + 1]
        /\ Len(txFifo) > 0
    BY <1>1, <2>1, HeadTailProperties, LenOfSeq
  <2>3. Tail(txFifo) \o ring = SubSeq(txFifo \o ring, 1 + 1, Len(txFifo \o ring))
    <3>1. 1 \in 0 .. Len(txFifo)
      BY <1>1, <2>2
    <3>2. \A k \in 1 .. Len(txFifo) - 1 : Tail(txFifo)[k] = txFifo[1 + k]
      BY <1>1, <2>2
    <3> HIDE DEF ring
    <3> QED BY <1>1, <1>2, <2>2, <3>1, <3>2, TakeFirst
  <2>4. Stream!Take(1)
    <3>1. TxQueue' = Tail(txFifo) \o ring
      BY <2>1 DEF TxQueue
    <3>2. 1 <= Len(TxQueue)
      BY <1>1, <1>2, <2>2, QueueTypes
    <3> QED BY <2>1, <2>3, <3>1, <3>2 DEF Stream!Take, TxQueue
  <2>5. TxInv'
    BY <2>1 DEF TxInv
  <2>6. 1 \in 1 .. BufLen - 1 + Depth
    BY Capacity
  <2> QED BY <2>4, <2>5, <2>6 DEF Stream!Next
<1> QED BY <1>3, <1>4, <1>5, <1>6, <1>7, TxOthers

(* What is written comes out in order and once, for rings and FIFOs of     *)
(* every size.                                                             *)
THEOREM WritesComeOutInOrder == Spec => TxStream
<1>1. Init => TxInv /\ Stream!Init
  <2> SUFFICES ASSUME Init PROVE TxInv /\ Stream!Init
    OBVIOUS
  <2>1. pc = "idle" /\ txIn = 0 /\ txOut = 0 /\ txFifo = <<>> /\ written = 0 /\ heard = 0
    BY DEF Init
  <2>2. TxInv
    BY <2>1 DEF TxInv
  <2>3. Used(0, 0) = 0
    BY DEF Used
  <2>4. TypeOK
    BY InitInvariant
  <2>5. TxQueue = <<>>
    <3>1. Len(TxQueue) = 0 /\ TxQueue \in Seq(Chars)
      BY <2>1, <2>3, <2>4, QueueTypes, LenOfSeq
    <3> QED BY <3>1, LenOfSeq
  <2> QED BY <2>1, <2>2, <2>5 DEF Stream!Init, TxQueue
<1>2. TypeOK /\ TypeOK' /\ Inner /\ TxInv /\ [Next]_vars
         => TxInv' /\ [Stream!Next]_<<written, heard, TxQueue>>
  BY TxStep
<1>3. [Stream!Next]_<<written, heard, TxQueue>>
         <=> [Stream!Next]_<<written, heard, txFifo \o Ring(txBuf, txOut, txIn)>>
  BY DEF TxQueue
<1> QED BY <1>1, <1>2, <1>3, ConsoleTypeCorrect, PTL DEF Spec, TxStream, Stream!Spec

-----------------------------------------------------------------------------
(* The front of a sequence does not depend on what follows.                *)
LEMMA FrontOf ==
    ASSUME NEW s \in Seq(Chars), NEW t \in Seq(Chars), NEW n \in 0 .. Len(s)
    PROVE  SubSeq(s \o t, 1, n) = SubSeq(s, 1, n)
<1> DEFINE q == s \o t
<1>1. Len(s) \in Nat /\ Len(t) \in Nat /\ n \in Nat /\ n <= Len(s)
  OBVIOUS
<1>2. /\ q \in Seq(Chars) /\ Len(q) = Len(s) + Len(t)
      /\ \A k \in 1 .. Len(s) + Len(t) : q[k] = IF k <= Len(s) THEN s[k] ELSE t[k - Len(s)]
  BY ConcatProperties
<1>3. \A k \in 1 .. n : k \in 1 .. Len(s) + Len(t) /\ k \in 1 .. Len(s) /\ k <= Len(s)
  BY <1>1
<1>4. \A k \in 1 .. n : q[k] = s[k]
  BY <1>2, <1>3
<1>5. \A k \in 1 .. n : s[k] \in Chars
  BY <1>3, ElementOfSeq
<1> HIDE DEF q
<1>6. SubSeq(q, 1, n) = [k \in 1 .. n |-> q[k]]
  BY <1>1, <1>2
<1>7. SubSeq(s, 1, n) = [k \in 1 .. n |-> s[k]]
  BY <1>1
<1>8. SubSeq(q, 1, n) = SubSeq(s, 1, n)
  BY <1>4, <1>6, <1>7
<1> QED BY <1>8 DEF q

(* Steps that have nothing to do with the way in.                          *)
LEMMA RxQuiet ==
    ASSUME RxInv, UNCHANGED <<rxIn, rxOut, rxBuf, rxFifo, typed, taken>>,
           pc' \notin {"rcopy", "radvance"} \/ UNCHANGED <<pc, chunk, got>>
    PROVE  RxInv' /\ UNCHANGED <<typed, taken, RxQueue>>
BY DEF RxInv, RxQueue, ReadsInOrder

(* All steps but five are of this kind.                                    *)
LEMMA RxOthers ==
    ASSUME RxInv, [Next]_vars,
           ~(ReadSnap \/ ReadCopy \/ ReadAdvance \/ IrqRx \/ HostSend)
    PROVE  RxInv' /\ UNCHANGED <<typed, taken, RxQueue>>
<1> USE DEF Thread, Handler, driver, program, device, routine, host
<1>1. CASE WriteCall \/ Kick \/ WriteSpin \/ WriteCheck \/ ReadCall \/ CloseCall
  BY <1>1, RxQuiet DEF WriteCall, Kick, WriteSpin, WriteCheck, ReadCall, CloseCall,
                       Call, Goto, Return
<1>2. CASE WriteSnap \/ WriteCopy \/ WriteAdvance
  BY <1>2, RxQuiet DEF WriteSnap, WriteCopy, WriteAdvance, Goto
<1>3. CASE ReadSpin \/ ReadCheck \/ ReadEnable \/ Closing \/ Ioctl
  BY <1>3, RxQuiet DEF ReadSpin, ReadCheck, ReadEnable, Closing, Ioctl, Goto, Return
<1>4. CASE IrqEnter \/ IrqTest \/ IrqTx \/ IrqRxFull \/ IrqRxOff \/ IrqTxOff
  BY <1>4, RxQuiet DEF IrqEnter, IrqTest, IrqTx, IrqRxFull, IrqRxOff, IrqTxOff
<1>5. CASE Timeout \/ HostTake \/ HostPoll \/ Plug
  BY <1>5, RxQuiet DEF Timeout, HostTake, HostPoll, Plug
<1>6. CASE UNCHANGED vars
  BY <1>6, RxQuiet DEF vars
<1> QED BY <1>1, <1>2, <1>3, <1>4, <1>5, <1>6 DEF Next, Write, Read, Irq

(* One character is put at the end of the queue.                           *)
LEMMA PutOne ==
    ASSUME TypeOK, Len(rxFifo) < Depth, typed' = (typed + 1) % Marks,
           RxQueue' = RxQueue \o <<typed>>, UNCHANGED taken
    PROVE  Typing!Next
<1>1. Len(RxQueue) + 1 <= BufLen - 1 + Depth
  <2>1. Len(RxQueue) = Used(rxIn, rxOut) + Len(rxFifo)
    BY QueueTypes
  <2>2. Used(rxIn, rxOut) \in Index /\ Len(rxFifo) \in Nat
    BY Typed, RingIs
  <2> QED BY <2>1, <2>2, Sizes DEF Index
<1>2. [k \in 1 .. 1 |-> (typed + k - 1) % Marks] = <<typed>>
  <2>1. typed \in 0 .. Marks - 1
    BY Typed DEF Chars
  <2>2. (typed + 1 - 1) % Marks = typed
    BY <2>1, Sizes
  <2>3. \A k \in 1 .. 1 : k = 1
    OBVIOUS
  <2>4. \A k \in 1 .. 1 : (typed + k - 1) % Marks = typed
    BY <2>2, <2>3
  <2>5. <<typed>> = [k \in 1 .. 1 |-> typed]
    OBVIOUS
  <2> QED BY <2>4, <2>5
<1>3. Typing!Put(1)
  BY <1>1, <1>2 DEF Typing!Put, RxQueue
<1>4. 1 \in 1 .. BufLen - 1 + Depth
  BY Capacity
<1> QED BY <1>3, <1>4 DEF Typing!Next

(* The interrupt routine reads the data register.                          *)
LEMMA RxArrives ==
    ASSUME TypeOK, TypeOK', RxInv, IrqRx
    PROVE  RxInv' /\ [Typing!Next]_<<typed, taken, RxQueue>>
<1> DEFINE ring == Ring(rxBuf, rxOut, rxIn)
           u == Used(rxIn, rxOut)
<1>1. /\ rxIn \in Index /\ rxOut \in Index /\ rxBuf \in Buffer
      /\ rxBuf' \in Buffer /\ rxFifo' \in Seq(Chars)
      /\ rxFifo \in Seq(Chars) /\ typed \in Chars /\ chunk \in Nat
  <2>1. rxBuf' \in Buffer /\ rxFifo' \in Seq(Chars)
    BY DEF TypeOK, DriverOK, DeviceOK, Index, Buffer, Chars
  <2> QED BY <2>1, Typed
<1>2. ring \in Seq(Chars) /\ Len(ring) = u /\ u \in Nat
  BY QueueTypes
<1>3. PICK late \in BOOLEAN :
         LET arrived == IF late THEN <<typed>> ELSE <<>> IN
         /\ late => connected /\ Len(rxFifo) < Depth
         /\ typed' = IF late THEN (typed + 1) % Marks ELSE typed
         /\ IF rxFifo = <<>>
            THEN rxFifo' = arrived /\ UNCHANGED <<rxBuf, rxIn>>
            ELSE /\ rxFifo' = Tail(rxFifo) \o arrived
                 /\ rxBuf' = [rxBuf EXCEPT ![rxIn] = Head(rxFifo)]
                 /\ rxIn' = Wrap(rxIn + 1)
  BY DEF IrqRx
<1>4. /\ UNCHANGED <<rxOut, taken, pc, chunk, got>> /\ Wrap(rxIn + 1) # rxOut
  BY DEF IrqRx, RxFull, program
<1> DEFINE arrived == IF late THEN <<typed>> ELSE <<>>
<1>5. arrived \in Seq(Chars)
  BY <1>1
<1> HIDE DEF arrived
<1>6. ASSUME NEW t \in Seq(Chars), Ring(rxBuf', rxOut, rxIn') = ring \o t,
             Used(rxIn', rxOut) = u + Len(t)
      PROVE  RxInv'
  <2>1. pc \in {"rcopy", "radvance"} => chunk <= u
    BY DEF RxInv
  <2>2. Len(t) \in Nat
    BY <1>6, LenOfSeq
  <2>3. pc \in {"rcopy", "radvance"} => chunk <= Used(rxIn', rxOut')
    <3> HIDE DEF u
    <3> QED BY <1>1, <1>2, <1>4, <1>6, <2>1, <2>2
  <2>4. pc = "radvance" => got = SubSeq(Ring(rxBuf', rxOut', rxIn'), 1, chunk)
    <3>1. SUFFICES ASSUME pc = "radvance" PROVE got = SubSeq(ring \o t, 1, chunk)
      BY <1>4, <1>6
    <3>2. chunk \in 0 .. Len(ring) /\ got = SubSeq(ring, 1, chunk)
      BY <1>1, <1>2, <2>1, <3>1 DEF RxInv, ReadsInOrder
    <3> HIDE DEF ring
    <3> QED BY <1>2, <1>6, <3>2, FrontOf
  <2> QED BY <1>4, <2>3, <2>4 DEF RxInv, ReadsInOrder
<1>7. RxInv' /\ RxQueue' = (ring \o rxFifo) \o arrived
  <2>1. CASE rxFifo = <<>>
    <3>1. rxFifo' = arrived /\ UNCHANGED <<rxBuf, rxIn>>
      BY <1>3, <2>1 DEF arrived
    <3>2. RxInv'
      BY <1>4, <3>1 DEF RxInv, ReadsInOrder
    <3>3. ring \o rxFifo = ring
      <4> HIDE DEF ring
      <4> QED BY <1>2, <2>1, ConcatEmptySeq
    <3>4. RxQueue' = ring \o arrived
      BY <1>4, <3>1 DEF RxQueue
    <3> QED BY <3>2, <3>3, <3>4
  <2>2. CASE rxFifo # <<>>
    <3>1. /\ rxFifo' = Tail(rxFifo) \o arrived
          /\ rxBuf' = [rxBuf EXCEPT ![rxIn] = Head(rxFifo)]
          /\ rxIn' = Wrap(rxIn + 1)
      BY <1>3, <2>2 DEF arrived
    <3>2. u + 1 <= BufLen - 1 /\ rxIn + 1 <= BufLen
      BY <1>1, <1>4, Sizes DEF Used, Wrap, Index
    <3>3. Ring(rxBuf', rxOut, rxIn) = ring
      <4>1. \A i \in Index : i \notin rxIn .. rxIn + 1 - 1 => rxBuf'[i] = rxBuf[i]
        BY <1>1, <3>1, Sizes DEF Index, Buffer
      <4> QED BY <1>1, <3>2, <4>1, RingOther
    <3>4. /\ Used(Wrap(rxIn + 1), rxOut) = u + 1
          /\ Ring(rxBuf', rxOut, Wrap(rxIn + 1)) =
                Ring(rxBuf', rxOut, rxIn) \o Piece(rxBuf', rxIn, 1)
      BY <1>1, <3>2, RingPut
    <3>5. /\ Head(rxFifo) = rxFifo[1] /\ rxFifo[1] \in Chars
          /\ Tail(rxFifo) \in Seq(Chars) /\ Len(Tail(rxFifo)) = Len(rxFifo) - 1
          /\ \A k \in 1 .. Len(rxFifo) - 1 : Tail(rxFifo)[k] = rxFifo[k + 1]
      BY <1>1, <2>2, HeadTailProperties
    <3>6. Piece(rxBuf', rxIn, 1) = <<rxFifo[1]>>
      <4>1. rxBuf'[rxIn + 1 - 1] = rxFifo[1]
        BY <1>1, <3>1, <3>5, Sizes DEF Index, Buffer
      <4>2. \A k \in 1 .. 1 : k = 1
        OBVIOUS
      <4>3. \A k \in 1 .. 1 : rxBuf'[rxIn + k - 1] = rxFifo[1]
        BY <4>1, <4>2
      <4>4. <<rxFifo[1]>> = [k \in 1 .. 1 |-> rxFifo[1]]
        OBVIOUS
      <4> QED BY <4>3, <4>4 DEF Piece
    <3>7. /\ <<rxFifo[1]>> \in Seq(Chars) /\ Len(<<rxFifo[1]>>) = 1
      BY <3>5
    <3>8. /\ Ring(rxBuf', rxOut, rxIn') = ring \o <<rxFifo[1]>>
          /\ Used(rxIn', rxOut) = u + 1
      BY <3>1, <3>3, <3>4, <3>6
    <3>9. RxInv'
      <4> HIDE DEF ring, u
      <4> QED BY <1>6, <3>7, <3>8
    <3> HIDE DEF ring, u
    <3>10. (ring \o <<rxFifo[1]>>) \o Tail(rxFifo) = ring \o rxFifo
      BY <1>1, <1>2, <2>2, <3>5, PassOver, AppendIsConcat
    <3>11. ring \o <<rxFifo[1]>> \in Seq(Chars)
      BY <1>2, <3>7, ConcatProperties
    <3>12. RxQueue' = (ring \o <<rxFifo[1]>>) \o (Tail(rxFifo) \o arrived)
      BY <1>4, <3>1, <3>8 DEF RxQueue
    <3>13. RxQueue' = ((ring \o <<rxFifo[1]>>) \o Tail(rxFifo)) \o arrived
      <4> DEFINE a == ring \o <<rxFifo[1]>>
                 b == Tail(rxFifo)
      <4>1. a \in Seq(Chars) /\ b \in Seq(Chars) /\ RxQueue' = a \o (b \o arrived)
        BY <3>5, <3>11, <3>12
      <4> HIDE DEF a, b
      <4>2. (a \o b) \o arrived = a \o (b \o arrived)
        BY <1>5, <4>1, ConcatAssociative
      <4>3. RxQueue' = (a \o b) \o arrived
        BY <4>1, <4>2
      <4> QED BY <4>3 DEF a, b
    <3> QED BY <3>9, <3>10, <3>13
  <2> QED BY <2>1, <2>2
<1>8. RxQueue' = RxQueue \o arrived
  BY <1>7 DEF RxQueue
<1>9. CASE late
  <2>1. /\ Len(rxFifo) < Depth /\ typed' = (typed + 1) % Marks
        /\ arrived = <<typed>>
    BY <1>3, <1>9 DEF arrived
  <2> QED BY <1>4, <1>7, <1>8, <2>1, PutOne
<1>10. CASE ~late
  <2>1. typed' = typed /\ arrived = <<>>
    BY <1>3, <1>10 DEF arrived
  <2>2. RxQueue \o <<>> = RxQueue
    BY QueueTypes, ConcatEmptySeq
  <2> QED BY <1>4, <1>7, <1>8, <2>1, <2>2
<1> QED BY <1>9, <1>10

(* The five steps of the way in.                                           *)
LEMMA RxStep ==
    ASSUME TypeOK, TypeOK', Inner, RxInv, [Next]_vars
    PROVE  RxInv' /\ [Typing!Next]_<<typed, taken, RxQueue>>
<1> USE DEF Thread, Handler, driver, program, device, routine, host
<1> DEFINE ring == Ring(rxBuf, rxOut, rxIn)
           u == Used(rxIn, rxOut)
           n == chunk
<1>1. /\ rxIn \in Index /\ rxOut \in Index /\ rxBuf \in Buffer
      /\ rxFifo \in Seq(Chars) /\ rxFifo' \in Seq(Chars)
      /\ Len(rxFifo) \in Nat /\ typed \in Chars /\ n \in Nat /\ left \in Nat
  <2>1. rxFifo' \in Seq(Chars)
    BY DEF TypeOK, DeviceOK, Chars
  <2> QED BY <2>1, Typed
<1>2. ring \in Seq(Chars) /\ Len(ring) = u /\ u \in Nat
  BY QueueTypes
<1>3. CASE ReadSnap
  <2>1. /\ UNCHANGED <<rxIn, rxOut, rxBuf, rxFifo, typed, taken>>
        /\ pc' # "radvance" /\ chunk' = Min({Held(rxIn, rxOut), left})
    BY <1>3 DEF ReadSnap
  <2>2. Held(rxIn, rxOut) <= u /\ Held(rxIn, rxOut) \in Int
    BY <1>1, RoomFits
  <2>3. /\ Min({Held(rxIn, rxOut), left}) \in {Held(rxIn, rxOut), left}
        /\ Min({Held(rxIn, rxOut), left}) <= Held(rxIn, rxOut)
    <3>1. left \in Int
      BY <1>1
    <3> QED BY <2>2, <3>1, MinOfTwo
  <2>4. chunk' \in Int /\ chunk' <= Held(rxIn, rxOut)
    BY <1>1, <2>1, <2>2, <2>3
  <2>5. chunk' <= u
    <3> HIDE DEF u
    <3> QED BY <1>2, <2>2, <2>4
  <2> QED BY <2>1, <2>5 DEF RxInv, ReadsInOrder, RxQueue
<1>4. CASE ReadCopy
  <2>1. /\ pc = "rcopy" /\ UNCHANGED <<rxIn, rxOut, rxBuf, rxFifo, typed, taken, chunk>>
        /\ got' = [k \in 1 .. n |-> rxBuf[rxOut + k - 1]]
    BY <1>4 DEF ReadCopy
  <2>2. n <= u /\ rxOut + n <= BufLen
    BY <2>1 DEF RxInv, Inner
  <2>3. \A k \in 1 .. n : ring[k] = rxBuf[rxOut + k - 1]
    BY <1>1, <2>2, RingTake
  <2>4. SubSeq(ring, 1, n) = [k \in 1 .. n |-> ring[k]]
    <3> HIDE DEF ring
    <3> QED BY <1>1, <1>2, <2>2
  <2>5. got' = SubSeq(ring, 1, n)
    <3> HIDE DEF ring
    <3> QED BY <2>1, <2>3, <2>4
  <2> QED BY <2>1, <2>2, <2>5 DEF RxInv, ReadsInOrder, RxQueue
<1>5. CASE ReadAdvance
  <2>1. /\ pc = "radvance" /\ pc' \in {"rsnap", "renable"}
        /\ rxOut' = Wrap(rxOut + n) /\ taken' = (taken + n) % Marks
        /\ UNCHANGED <<rxIn, rxBuf, rxFifo, typed>>
    BY <1>5 DEF ReadAdvance
  <2>2. n <= u /\ rxOut + n <= BufLen /\ n > 0
    BY <2>1 DEF RxInv, Inner
  <2> DEFINE r == Ring(rxBuf, Wrap(rxOut + n), rxIn)
  <2>3. /\ Wrap(rxOut + n) \in Index /\ Used(rxIn, Wrap(rxOut + n)) = u - n
        /\ \A k \in 1 .. u - n : r[k] = ring[n + k]
    BY <1>1, <2>2, RingTake
  <2>4. r \in Seq(Chars) /\ Len(r) = u - n
    BY <1>1, <2>3, RingIs
  <2>5. RxQueue' = r \o rxFifo
    BY <2>1 DEF RxQueue
  <2> HIDE DEF r, ring, u
  <2>6. r \o rxFifo = SubSeq(ring \o rxFifo, n + 1, Len(ring \o rxFifo))
    <3>1. n \in 0 .. Len(ring)
      BY <1>1, <1>2, <2>2
    <3>2. \A k \in 1 .. Len(ring) - n : r[k] = ring[n + k]
      BY <1>2, <2>3
    <3> QED BY <1>1, <1>2, <2>4, <3>1, <3>2, TakeFirst
  <2>7. n <= Len(RxQueue) /\ n \in 1 .. BufLen - 1 + Depth
    <3>1. Len(RxQueue) = u + Len(rxFifo) /\ u \in Index
      BY <1>1, QueueTypes, RingIs DEF u
    <3> QED BY <1>1, <1>2, <2>2, <3>1, Sizes DEF Index
  <2>8. Typing!Take(n)
    BY <2>1, <2>5, <2>6, <2>7 DEF Typing!Take, RxQueue, ring
  <2>9. RxInv'
    BY <2>1 DEF RxInv, ReadsInOrder
  <2> QED BY <2>7, <2>8, <2>9 DEF Typing!Next
<1>6. CASE IrqRx
  BY <1>6, RxArrives
<1>7. CASE HostSend
  <2>1. /\ Len(rxFifo) < Depth /\ typed' = (typed + 1) % Marks
        /\ rxFifo' = Append(rxFifo, typed)
        /\ UNCHANGED <<rxIn, rxOut, rxBuf, taken, pc, chunk, got>>
    BY <1>7 DEF HostSend
  <2>2. RxQueue' = RxQueue \o <<typed>>
    <3>1. Append(rxFifo, typed) = rxFifo \o <<typed>> /\ <<typed>> \in Seq(Chars)
      BY <1>1, AppendIsConcat
    <3>2. (ring \o rxFifo) \o <<typed>> = ring \o (rxFifo \o <<typed>>)
      <4> HIDE DEF ring
      <4> QED BY <1>1, <1>2, <3>1, ConcatAssociative
    <3>3. RxQueue' = ring \o (rxFifo \o <<typed>>)
      BY <2>1, <3>1 DEF RxQueue
    <3> QED BY <3>2, <3>3 DEF RxQueue
  <2>3. Typing!Next
    BY <2>1, <2>2, PutOne
  <2>4. RxInv'
    BY <2>1 DEF RxInv, ReadsInOrder
  <2> QED BY <2>3, <2>4
<1> QED BY <1>3, <1>4, <1>5, <1>6, <1>7, RxOthers

(* What the host types comes in in order and once, and what a read has     *)
(* copied is what it takes, for rings and FIFOs of every size.             *)
THEOREM ReadsComeInInOrder == Spec => RxStream
<1>1. Init => RxInv /\ Typing!Init
  <2> SUFFICES ASSUME Init PROVE RxInv /\ Typing!Init
    OBVIOUS
  <2>1. pc = "idle" /\ rxIn = 0 /\ rxOut = 0 /\ rxFifo = <<>> /\ typed = 0 /\ taken = 0
    BY DEF Init
  <2>2. RxInv
    BY <2>1 DEF RxInv, ReadsInOrder
  <2>3. Used(0, 0) = 0
    BY DEF Used
  <2>4. TypeOK
    BY InitInvariant
  <2>5. RxQueue = <<>>
    <3>1. Len(RxQueue) = 0 /\ RxQueue \in Seq(Chars)
      BY <2>1, <2>3, <2>4, QueueTypes, LenOfSeq
    <3> QED BY <3>1, LenOfSeq
  <2> QED BY <2>1, <2>2, <2>5 DEF Typing!Init, RxQueue
<1>2. TypeOK /\ TypeOK' /\ Inner /\ RxInv /\ [Next]_vars
         => RxInv' /\ [Typing!Next]_<<typed, taken, RxQueue>>
  BY RxStep
<1>3. [Typing!Next]_<<typed, taken, RxQueue>>
         <=> [Typing!Next]_<<typed, taken, Ring(rxBuf, rxOut, rxIn) \o rxFifo>>
  BY DEF RxQueue
<1>4. RxInv => ReadsInOrder
  BY DEF RxInv
<1> QED BY <1>1, <1>2, <1>3, <1>4, ConsoleTypeCorrect, PTL DEF Spec, RxStream, Typing!Spec
=============================================================================
