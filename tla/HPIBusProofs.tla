---------------------------- MODULE HPIBusProofs ----------------------------
(***************************************************************************)
(* Proofs about the wires to the USB chip, for words, addresses and any    *)
(* pace of the program: calls arrive as they were made, whatever the       *)
(* button has done before them, and the bus is driven from one side.       *)
(***************************************************************************)
EXTENDS HPIBus, TLAPS

-----------------------------------------------------------------------------
(* The accesses of the calls, one by one.                                  *)
Stores(port, value) ==
    temp' = temp /\ sw' = [sw EXCEPT ![port] = value]
Loads == temp' = pins.data_in /\ sw' = sw

LEMMA WriteAccess ==
    ASSUME op = "write", Access, step \in Nat, step > 0
    PROVE  /\ step \in 1 .. 6 /\ step' = step + 1 /\ since' = 0 /\ since = MinGap
           /\ step = 1 => Stores("address", addr)
           /\ step = 2 => Stores("cs", 0)
           /\ step = 3 => Stores("w", 0)
           /\ step = 4 => Stores("data", data)
           /\ step = 5 => Stores("w", 1)
           /\ step = 6 => Stores("cs", 1)
<1>1. Accesses = WriteCall /\ Len(WriteCall) = 6
  BY DEF Accesses, WriteCall
<1>2. step \in 1 .. 6 /\ step' = step + 1 /\ since' = 0 /\ since = MinGap
  BY <1>1 DEF Access
<1> DEFINE a == WriteCall[step]
<1>3. IF a = Load THEN temp' = pins.data_in /\ UNCHANGED sw
      ELSE sw' = [sw EXCEPT ![a.port] = a.value] /\ UNCHANGED temp
  BY <1>1 DEF Access
<1>4. step = 1 => a = Set("address", addr)
  BY DEF WriteCall
<1>5. step = 2 => a = Set("cs", 0)
  BY DEF WriteCall
<1>6. step = 3 => a = Set("w", 0)
  BY DEF WriteCall
<1>7. step = 4 => a = Set("data", data)
  BY DEF WriteCall
<1>8. step = 5 => a = Set("w", 1)
  BY DEF WriteCall
<1>9. step = 6 => a = Set("cs", 1)
  BY DEF WriteCall
<1> HIDE DEF a
<1>10. \A port, value : port # "load" /\ a = Set(port, value) => Stores(port, value)
  BY <1>3 DEF Set, Load, Stores
<1> QED BY <1>2, <1>4, <1>5, <1>6, <1>7, <1>8, <1>9, <1>10

LEMMA ReadAccess ==
    ASSUME op = "read", Access, step \in Nat, step > 0
    PROVE  /\ step \in 1 .. 6 /\ step' = step + 1 /\ since' = 0 /\ since = MinGap
           /\ step = 1 => Stores("address", addr)
           /\ step = 2 => Stores("r", 0)
           /\ step = 3 => Stores("cs", 0)
           /\ step = 4 => Loads
           /\ step = 5 => Stores("r", 1)
           /\ step = 6 => Stores("cs", 1)
<1>1. Accesses = ReadCall /\ Len(ReadCall) = 6
  BY DEF Accesses, ReadCall
<1>2. step \in 1 .. 6 /\ step' = step + 1 /\ since' = 0 /\ since = MinGap
  BY <1>1 DEF Access
<1> DEFINE a == ReadCall[step]
<1>3. IF a = Load THEN temp' = pins.data_in /\ UNCHANGED sw
      ELSE sw' = [sw EXCEPT ![a.port] = a.value] /\ UNCHANGED temp
  BY <1>1 DEF Access
<1>4. step = 1 => a = Set("address", addr)
  BY DEF ReadCall
<1>5. step = 2 => a = Set("r", 0)
  BY DEF ReadCall
<1>6. step = 3 => a = Set("cs", 0)
  BY DEF ReadCall
<1>7. step = 4 => a = Load
  BY DEF ReadCall
<1>8. step = 5 => a = Set("r", 1)
  BY DEF ReadCall
<1>9. step = 6 => a = Set("cs", 1)
  BY DEF ReadCall
<1> HIDE DEF a
<1>10. \A port, value : port # "load" /\ a = Set(port, value) => Stores(port, value)
  BY <1>3 DEF Set, Load, Stores
<1>11. a = Load => Loads
  BY <1>3 DEF Loads
<1> QED BY <1>2, <1>4, <1>5, <1>6, <1>7, <1>8, <1>9, <1>10, <1>11

LEMMA InitAccess ==
    ASSUME op = "init", Access, step \in Nat, step > 0
    PROVE  /\ step \in 1 .. 10 /\ step' = step + 1 /\ since' = 0 /\ since = MinGap
           /\ step = 1 => Stores("reset", 1)
           /\ step = 2 => Stores("cs", 1)
           /\ step = 3 => Stores("r", 1)
           /\ step = 4 => Stores("w", 1)
           /\ step = 5 => Stores("address", 0)
           /\ step = 6 => Stores("data", 0)
           /\ step = 7 => Stores("cs", 0)
           /\ step = 8 => Stores("reset", 0)
           /\ step = 9 => Stores("reset", 1)
           /\ step = 10 => Stores("cs", 1)
<1>1. Accesses = InitCall /\ Len(InitCall) = 10
  BY DEF Accesses, InitCall
<1>2. step \in 1 .. 10 /\ step' = step + 1 /\ since' = 0 /\ since = MinGap
  BY <1>1 DEF Access
<1> DEFINE a == InitCall[step]
<1>3. IF a = Load THEN temp' = pins.data_in /\ UNCHANGED sw
      ELSE sw' = [sw EXCEPT ![a.port] = a.value] /\ UNCHANGED temp
  BY <1>1 DEF Access
<1>4. step = 1 => a = Set("reset", 1)
  BY DEF InitCall
<1>5. step = 2 => a = Set("cs", 1)
  BY DEF InitCall
<1>6. step = 3 => a = Set("r", 1)
  BY DEF InitCall
<1>7. step = 4 => a = Set("w", 1)
  BY DEF InitCall
<1>8. step = 5 => a = Set("address", 0)
  BY DEF InitCall
<1>9. step = 6 => a = Set("data", 0)
  BY DEF InitCall
<1>10. step = 7 => a = Set("cs", 0)
  BY DEF InitCall
<1>11. step = 8 => a = Set("reset", 0)
  BY DEF InitCall
<1>12. step = 9 => a = Set("reset", 1)
  BY DEF InitCall
<1>13. step = 10 => a = Set("cs", 1)
  BY DEF InitCall
<1> HIDE DEF a
<1>14. \A port, value : port # "load" /\ a = Set(port, value) => Stores(port, value)
  BY <1>3 DEF Set, Load, Stores
<1> QED BY <1>2, <1>4, <1>5, <1>6, <1>7, <1>8, <1>9, <1>10, <1>11, <1>12, <1>13, <1>14

(* What a store does to the ports.                                         *)
PortTypes == [address : Addresses, data : Data, r : 0 .. 1, w : 0 .. 1,
              cs : 0 .. 1, reset : 0 .. 1]
Signals == {"r", "w", "cs", "reset"}

LEMMA StoreSignal ==
    ASSUME sw \in PortTypes, NEW v \in 0 .. 1, NEW port \in Signals, Stores(port, v)
    PROVE  /\ sw' \in PortTypes /\ temp' = temp
           /\ sw'.address = sw.address /\ sw'.data = sw.data
           /\ sw'.r = IF port = "r" THEN v ELSE sw.r
           /\ sw'.w = IF port = "w" THEN v ELSE sw.w
           /\ sw'.cs = IF port = "cs" THEN v ELSE sw.cs
<1>1. port \in {"r", "w", "cs", "reset"}
  BY DEF Signals
<1>2. CASE port = "r"
  BY <1>2 DEF Stores, PortTypes
<1>3. CASE port = "w"
  BY <1>3 DEF Stores, PortTypes
<1>4. CASE port = "cs"
  BY <1>4 DEF Stores, PortTypes
<1>5. CASE port = "reset"
  BY <1>5 DEF Stores, PortTypes
<1> QED BY <1>1, <1>2, <1>3, <1>4, <1>5

LEMMA StoreAddress ==
    ASSUME sw \in PortTypes, NEW x \in Addresses, Stores("address", x)
    PROVE  /\ sw' \in PortTypes /\ temp' = temp
           /\ sw'.address = x /\ sw'.data = sw.data
           /\ sw'.r = sw.r /\ sw'.w = sw.w /\ sw'.cs = sw.cs
BY DEF Stores, PortTypes

LEMMA StoreData ==
    ASSUME sw \in PortTypes, NEW d \in Data, Stores("data", d)
    PROVE  /\ sw' \in PortTypes /\ temp' = temp
           /\ sw'.address = sw.address /\ sw'.data = d
           /\ sw'.r = sw.r /\ sw'.w = sw.w /\ sw'.cs = sw.cs
BY DEF Stores, PortTypes

LEMMA WriteEffect ==
    ASSUME TypeOK, op = "write", Access
    PROVE  /\ step \in 1 .. 6 /\ step' = step + 1
           /\ since' = 0 /\ since = MinGap
           /\ sw' \in PortTypes /\ temp' = temp
           /\ sw'.address = IF step = 1 THEN addr ELSE sw.address
           /\ sw'.data = IF step = 4 THEN data ELSE sw.data
           /\ sw'.r = sw.r
           /\ sw'.w = IF step = 3 THEN 0 ELSE IF step = 5 THEN 1 ELSE sw.w
           /\ sw'.cs = IF step = 2 THEN 0 ELSE IF step = 6 THEN 1 ELSE sw.cs
<1>1. /\ step \in 1 .. 6 /\ step \in Nat /\ step > 0 /\ sw \in PortTypes
      /\ addr \in Addresses /\ data \in Data /\ 0 \in Addresses /\ 0 \in Data
      /\ {0, 1} \subseteq 0 .. 1 /\ Signals = {"r", "w", "cs", "reset"}
  <2>1. step \in Nat /\ step > 0
    BY DEF TypeOK
  <2> QED BY <2>1, WriteAccess, BusAssumption DEF TypeOK, PortTypes, Signals
<1>2. step' = step + 1 /\ since' = 0 /\ since = MinGap
  BY <1>1, WriteAccess
<1>3. CASE step = 1
  <2>1. Stores("address", addr)
    BY <1>1, <1>3, WriteAccess
  <2> QED BY <1>1, <1>2, <1>3, <2>1, StoreAddress
<1>4. CASE step = 2
  <2>1. Stores("cs", 0)
    BY <1>1, <1>4, WriteAccess
  <2> QED BY <1>1, <1>2, <1>4, <2>1, StoreSignal
<1>5. CASE step = 3
  <2>1. Stores("w", 0)
    BY <1>1, <1>5, WriteAccess
  <2> QED BY <1>1, <1>2, <1>5, <2>1, StoreSignal
<1>6. CASE step = 4
  <2>1. Stores("data", data)
    BY <1>1, <1>6, WriteAccess
  <2> QED BY <1>1, <1>2, <1>6, <2>1, StoreData
<1>7. CASE step = 5
  <2>1. Stores("w", 1)
    BY <1>1, <1>7, WriteAccess
  <2> QED BY <1>1, <1>2, <1>7, <2>1, StoreSignal
<1>8. CASE step = 6
  <2>1. Stores("cs", 1)
    BY <1>1, <1>8, WriteAccess
  <2> QED BY <1>1, <1>2, <1>8, <2>1, StoreSignal
<1> QED BY <1>1, <1>3, <1>4, <1>5, <1>6, <1>7, <1>8

LEMMA ReadEffect ==
    ASSUME TypeOK, op = "read", Access
    PROVE  /\ step \in 1 .. 6 /\ step' = step + 1
           /\ since' = 0 /\ since = MinGap
           /\ sw' \in PortTypes /\ temp' = IF step = 4 THEN pins.data_in ELSE temp
           /\ sw'.address = IF step = 1 THEN addr ELSE sw.address
           /\ sw'.data = sw.data
           /\ sw'.r = IF step = 2 THEN 0 ELSE IF step = 5 THEN 1 ELSE sw.r
           /\ sw'.w = sw.w
           /\ sw'.cs = IF step = 3 THEN 0 ELSE IF step = 6 THEN 1 ELSE sw.cs
<1>1. /\ step \in 1 .. 6 /\ step \in Nat /\ step > 0 /\ sw \in PortTypes
      /\ addr \in Addresses /\ data \in Data /\ 0 \in Addresses /\ 0 \in Data
      /\ {0, 1} \subseteq 0 .. 1 /\ Signals = {"r", "w", "cs", "reset"}
  <2>1. step \in Nat /\ step > 0
    BY DEF TypeOK
  <2> QED BY <2>1, ReadAccess, BusAssumption DEF TypeOK, PortTypes, Signals
<1>2. step' = step + 1 /\ since' = 0 /\ since = MinGap
  BY <1>1, ReadAccess
<1>3. CASE step = 1
  <2>1. Stores("address", addr)
    BY <1>1, <1>3, ReadAccess
  <2> QED BY <1>1, <1>2, <1>3, <2>1, StoreAddress
<1>4. CASE step = 2
  <2>1. Stores("r", 0)
    BY <1>1, <1>4, ReadAccess
  <2> QED BY <1>1, <1>2, <1>4, <2>1, StoreSignal
<1>5. CASE step = 3
  <2>1. Stores("cs", 0)
    BY <1>1, <1>5, ReadAccess
  <2> QED BY <1>1, <1>2, <1>5, <2>1, StoreSignal
<1>6. CASE step = 4
  <2>1. Loads
    BY <1>1, <1>6, ReadAccess
  <2> QED BY <1>1, <1>2, <1>6, <2>1 DEF Loads
<1>7. CASE step = 5
  <2>1. Stores("r", 1)
    BY <1>1, <1>7, ReadAccess
  <2> QED BY <1>1, <1>2, <1>7, <2>1, StoreSignal
<1>8. CASE step = 6
  <2>1. Stores("cs", 1)
    BY <1>1, <1>8, ReadAccess
  <2> QED BY <1>1, <1>2, <1>8, <2>1, StoreSignal
<1> QED BY <1>1, <1>3, <1>4, <1>5, <1>6, <1>7, <1>8

LEMMA InitEffect ==
    ASSUME TypeOK, op = "init", Access
    PROVE  /\ step \in 1 .. 10 /\ step' = step + 1
           /\ since' = 0 /\ since = MinGap
           /\ sw' \in PortTypes /\ temp' = temp
           /\ sw'.address = IF step = 5 THEN 0 ELSE sw.address
           /\ sw'.data = IF step = 6 THEN 0 ELSE sw.data
           /\ sw'.r = IF step = 3 THEN 1 ELSE sw.r
           /\ sw'.w = IF step = 4 THEN 1 ELSE sw.w
           /\ sw'.cs = IF step = 2 THEN 1 ELSE IF step = 7 THEN 0 ELSE IF step = 10 THEN 1 ELSE sw.cs
<1>1. /\ step \in 1 .. 10 /\ step \in Nat /\ step > 0 /\ sw \in PortTypes
      /\ addr \in Addresses /\ data \in Data /\ 0 \in Addresses /\ 0 \in Data
      /\ {0, 1} \subseteq 0 .. 1 /\ Signals = {"r", "w", "cs", "reset"}
  <2>1. step \in Nat /\ step > 0
    BY DEF TypeOK
  <2> QED BY <2>1, InitAccess, BusAssumption DEF TypeOK, PortTypes, Signals
<1>2. step' = step + 1 /\ since' = 0 /\ since = MinGap
  BY <1>1, InitAccess
<1>3. CASE step = 1
  <2>1. Stores("reset", 1)
    BY <1>1, <1>3, InitAccess
  <2> QED BY <1>1, <1>2, <1>3, <2>1, StoreSignal
<1>4. CASE step = 2
  <2>1. Stores("cs", 1)
    BY <1>1, <1>4, InitAccess
  <2> QED BY <1>1, <1>2, <1>4, <2>1, StoreSignal
<1>5. CASE step = 3
  <2>1. Stores("r", 1)
    BY <1>1, <1>5, InitAccess
  <2> QED BY <1>1, <1>2, <1>5, <2>1, StoreSignal
<1>6. CASE step = 4
  <2>1. Stores("w", 1)
    BY <1>1, <1>6, InitAccess
  <2> QED BY <1>1, <1>2, <1>6, <2>1, StoreSignal
<1>7. CASE step = 5
  <2>1. Stores("address", 0)
    BY <1>1, <1>7, InitAccess
  <2> QED BY <1>1, <1>2, <1>7, <2>1, StoreAddress
<1>8. CASE step = 6
  <2>1. Stores("data", 0)
    BY <1>1, <1>8, InitAccess
  <2> QED BY <1>1, <1>2, <1>8, <2>1, StoreData
<1>9. CASE step = 7
  <2>1. Stores("cs", 0)
    BY <1>1, <1>9, InitAccess
  <2> QED BY <1>1, <1>2, <1>9, <2>1, StoreSignal
<1>10. CASE step = 8
  <2>1. Stores("reset", 0)
    BY <1>1, <1>10, InitAccess
  <2> QED BY <1>1, <1>2, <1>10, <2>1, StoreSignal
<1>11. CASE step = 9
  <2>1. Stores("reset", 1)
    BY <1>1, <1>11, InitAccess
  <2> QED BY <1>1, <1>2, <1>11, <2>1, StoreSignal
<1>12. CASE step = 10
  <2>1. Stores("cs", 1)
    BY <1>1, <1>12, InitAccess
  <2> QED BY <1>1, <1>2, <1>12, <2>1, StoreSignal
<1> QED BY <1>1, <1>3, <1>4, <1>5, <1>6, <1>7, <1>8, <1>9, <1>10, <1>11, <1>12

-----------------------------------------------------------------------------
(* The inductive invariant.                                                *)

\* A clock has passed since the access before step k.
Clocked(k) == step > k \/ (step = k /\ since > 0)

(* The ports hold what the call has stored so far.                         *)
WritePorts ==
    op = "write" =>
        /\ sw.r = 1
        /\ sw.cs = IF step \in 3 .. 6 THEN 0 ELSE 1
        /\ sw.w = IF step \in 4 .. 5 THEN 0 ELSE 1
        /\ step > 1 => sw.address = addr
        /\ step > 4 => sw.data = data
ReadPorts ==
    op = "read" =>
        /\ sw.w = 1
        /\ sw.r = IF step \in 3 .. 5 THEN 0 ELSE 1
        /\ sw.cs = IF step \in 4 .. 6 THEN 0 ELSE 1
InitPorts ==
    op = "init" =>
        /\ step > 3 => sw.r = 1
        /\ step > 4 => sw.w = 1
        /\ step > 10 => sw.cs = 1

(* The pins follow a clock later.                                          *)
PinsFollow ==
    ~disturbed /\ Clocked(2) /\ since > 0 =>
        /\ pins.RST_N = 1 /\ pins.WR_N = sw.w /\ pins.RD_N = sw.r
        /\ pins.CS_N = sw.cs /\ pins.ADDR = sw.address /\ pins.buffer = sw.data

(* A reset of hpi_io_intf raises both strobes, so that they are high where *)
(* the program has raised them, whatever the button does.                  *)
WriteHigh ==
    /\ op = "write" /\ (~Clocked(4) \/ Clocked(6)) => pins.WR_N = 1
    /\ op = "read" => pins.WR_N = 1
    /\ op = "init" /\ Clocked(5) => pins.WR_N = 1
ReadHigh ==
    /\ op = "read" /\ (~Clocked(3) \/ Clocked(6)) => pins.RD_N = 1
    /\ op = "write" => pins.RD_N = 1
    /\ op = "init" /\ Clocked(4) => pins.RD_N = 1

(* The bus before the strobe of a write ends, and the chip's view of it.   *)
Carried ==
    op = "write" /\ ~disturbed /\ step = 6 /\ since = 0 =>
        /\ pins.RST_N = 1 /\ pins.WR_N = 0 /\ pins.CS_N = 0 /\ pins.RD_N = 1
        /\ pins.ADDR = addr /\ kept = data
StrobesSoFar ==
    /\ op = "write" /\ ~disturbed =>
          strobes = IF Clocked(6) THEN << <<addr, data>> >> ELSE << >>
    /\ op = "read" => strobes = << >>

(* The chip's answer on its way to IO_read.                                *)
Answered ==
    op = "read" /\ ~disturbed =>
        /\ step = 4 /\ since > 1 => pins.data_in = answer
        /\ step = 5 /\ since = 0 => ChipDrives
        /\ step > 4 => temp = answer

Ports == WritePorts /\ ReadPorts /\ InitPorts
BusInv == /\ TypeOK /\ Ports /\ PinsFollow /\ WriteHigh /\ ReadHigh
          /\ Carried /\ StrobesSoFar /\ Answered

LEMMA Ranges ==
    ASSUME TypeOK
    PROVE  /\ step \in Nat /\ step > 0 /\ since \in Nat /\ since <= MinGap
           /\ MinGap \in Nat /\ MinGap >= 2
           /\ op \in {"write", "read"} => step <= 7
           /\ op = "init" => step <= 11
<1>1. Len(WriteCall) = 6 /\ Len(ReadCall) = 6 /\ Len(InitCall) = 10
  BY DEF WriteCall, ReadCall, InitCall
<1>2. /\ op \in {"write", "read"} => Len(Accesses) = 6
      /\ op = "init" => Len(Accesses) = 10
  BY <1>1 DEF Accesses
<1> DEFINE n == Len(Accesses)
<1>3. step \in 1 .. n + 1 /\ since \in 0 .. MinGap /\ op \in {"init", "write", "read"}
  BY DEF TypeOK
<1>4. n \in {6, 10} /\ (op # "init" => n = 6) /\ (op = "init" => n = 10)
  BY <1>2, <1>3
<1> HIDE DEF n
<1> QED BY <1>3, <1>4, BusAssumption

LEMMA Finished ==
    ASSUME TypeOK, Done
    PROVE  /\ op \in {"write", "read"} => step = 7
           /\ op = "init" => step = 11
           /\ since = MinGap
<1>1. Len(WriteCall) = 6 /\ Len(ReadCall) = 6 /\ Len(InitCall) = 10
  BY DEF WriteCall, ReadCall, InitCall
<1>2. /\ op \in {"write", "read"} => Len(Accesses) = 6
      /\ op = "init" => Len(Accesses) = 10
  BY <1>1 DEF Accesses
<1> DEFINE n == Len(Accesses)
<1>3. step = n + 1 /\ since = MinGap
  BY DEF Done
<1>4. (op \in {"write", "read"} => n = 6) /\ (op = "init" => n = 10)
  BY <1>2
<1> HIDE DEF n
<1> QED BY <1>3, <1>4

(* The properties.                                                         *)
LEMMA BusInvGives == BusInv => TypeOK /\ WritesArrive /\ ReadsReturn /\ NoContention
<1> SUFFICES ASSUME BusInv PROVE TypeOK /\ WritesArrive /\ ReadsReturn /\ NoContention
  OBVIOUS
<1> USE DEF BusInv
<1>1. WritesArrive
  <2>1. SUFFICES ASSUME Done, ~disturbed
        PROVE  /\ op = "write" => strobes = << <<addr, data>> >>
               /\ op = "read" => strobes = << >>
    BY DEF WritesArrive
  <2> QED BY <2>1, Finished DEF StrobesSoFar, Clocked
<1>2. ReadsReturn
  BY Finished DEF ReadsReturn, Answered
<1>3. NoContention
  <2>1. SUFFICES ASSUME op # "init", sw.w = 0, pins.RD_N = 0 PROVE FALSE
    BY DEF NoContention, DesignDrives, ChipDrives
  <2> QED BY <2>1 DEF Ports, WritePorts, ReadPorts, ReadHigh, TypeOK
<1> QED BY <1>1, <1>2, <1>3

LEMMA InitBus == Init => BusInv
<1> SUFFICES ASSUME Init PROVE BusInv
  OBVIOUS
<1>1. TypeOK
  <2>1. step \in 1 .. Len(Accesses) + 1
    BY DEF Init, Accesses, InitCall
  <2>2. strobes \in Seq(Addresses \X Data)
    <3>1. << >> \in Seq(Addresses \X Data)
      OBVIOUS
    <3> QED BY <3>1 DEF Init
  <2>3. since \in 0 .. MinGap /\ addr \in Addresses
        /\ {data, temp, kept, answer} \subseteq Data
    BY BusAssumption DEF Init
  <2>4. sw \in [address : Addresses, data : Data, r : 0 .. 1, w : 0 .. 1,
                 cs : 0 .. 1, reset : 0 .. 1]
    BY BusAssumption DEF Init
  <2>5. pins \in [ADDR : Addresses, buffer : Data, RD_N : 0 .. 1,
                   WR_N : 0 .. 1, CS_N : 0 .. 1, RST_N : 0 .. 1, data_in : Data]
    BY BusAssumption DEF Init
  <2> QED BY <2>4, <2>5, <2>1, <2>2, <2>3 DEF Init, TypeOK
<1>2. op = "init" /\ step = 1 /\ since = 0
  BY DEF Init
<1> QED BY <1>1, <1>2 DEF BusInv, Ports, WritePorts, ReadPorts, InitPorts, PinsFollow,
           WriteHigh, ReadHigh, Carried, StrobesSoFar, Answered, Clocked

-----------------------------------------------------------------------------
(* Types.                                                                  *)
PinTypes == [ADDR : Addresses, buffer : Data, RD_N : 0 .. 1,
             WR_N : 0 .. 1, CS_N : 0 .. 1, RST_N : 0 .. 1, data_in : Data]

LEMMA BusData == ASSUME TypeOK PROVE OTG_DATA \in Data
<1>1. pins.buffer \in Data
  BY DEF TypeOK
<1> QED BY <1>1 DEF TypeOK, OTG_DATA

LEMMA PinsNext ==
    ASSUME TypeOK, Clock
    PROVE  /\ pins' \in PinTypes
           /\ Reset => /\ pins'.RST_N = 0 /\ pins'.RD_N = 1 /\ pins'.WR_N = 1
           /\ ~Reset => /\ pins'.RST_N = 1 /\ pins'.RD_N = sw.r /\ pins'.WR_N = sw.w
                        /\ pins'.CS_N = sw.cs /\ pins'.ADDR = sw.address
                        /\ pins'.buffer = sw.data /\ pins'.data_in = OTG_DATA
<1>1. /\ sw.address \in Addresses /\ sw.data \in Data /\ sw.r \in 0 .. 1
      /\ sw.w \in 0 .. 1 /\ sw.cs \in 0 .. 1
  BY DEF TypeOK
<1>2. pins' = Pins
  BY DEF Clock
<1>3. CASE Reset
  <2>1. pins' = [ADDR |-> 0, buffer |-> 0, RD_N |-> 1, WR_N |-> 1, CS_N |-> 0,
                 RST_N |-> 0, data_in |-> 0]
    BY <1>2, <1>3 DEF Pins
  <2> QED BY <1>3, <2>1, BusAssumption DEF PinTypes
<1>4. CASE ~Reset
  <2>1. pins' = [ADDR |-> sw.address, buffer |-> sw.data, RD_N |-> sw.r,
                 WR_N |-> sw.w, CS_N |-> sw.cs, RST_N |-> 1, data_in |-> OTG_DATA]
    BY <1>2, <1>4 DEF Pins
  <2> QED BY <1>1, <1>4, <2>1, BusData DEF PinTypes
<1> QED BY <1>3, <1>4

LEMMA ClockTypes == ASSUME TypeOK, Clock PROVE TypeOK'
<1>1. pins' \in PinTypes /\ kept' \in Data
  BY PinsNext, BusData DEF Clock
<1>2. since' \in 0 .. MinGap
  BY Ranges DEF Clock
<1>3. answer' \in Data
  BY DEF Clock, TypeOK
<1>4. strobes' \in Seq(Addresses \X Data)
  <2>1. <<pins.ADDR, OTG_DATA>> \in Addresses \X Data
    <3>1. pins.ADDR \in Addresses
      BY DEF TypeOK
    <3> QED BY <3>1, BusData
  <2>2. Append(strobes, <<pins.ADDR, OTG_DATA>>) \in Seq(Addresses \X Data)
    BY <2>1 DEF TypeOK
  <2> QED BY <2>2 DEF Clock, TypeOK
<1>5. disturbed' \in BOOLEAN /\ Reset' \in BOOLEAN
  BY DEF Clock, TypeOK
<1>6. UNCHANGED <<op, step, addr, data, temp, sw>> /\ Accesses' = Accesses
  BY DEF Clock, Accesses, WriteCall, ReadCall, InitCall
<1> QED BY <1>1, <1>2, <1>3, <1>4, <1>5, <1>6 DEF TypeOK, PinTypes

LEMMA AccessTypes == ASSUME TypeOK, Access PROVE TypeOK'
<1>1. op \in {"init", "write", "read"}
  BY DEF TypeOK
<1>2. sw' \in PortTypes /\ temp' \in Data /\ step' = step + 1 /\ since' = 0
  <2>1. pins.data_in \in Data /\ temp \in Data
    BY DEF TypeOK
  <2>2. CASE op = "init"
    BY <2>1, <2>2, InitEffect
  <2>3. CASE op = "write"
    BY <2>1, <2>3, WriteEffect
  <2>4. CASE op = "read"
    BY <2>1, <2>4, ReadEffect
  <2> QED BY <1>1, <2>2, <2>3, <2>4
<1>3. step' \in 1 .. Len(Accesses') + 1
  <2>1. Accesses' = Accesses
    BY DEF Access, Accesses, WriteCall, ReadCall, InitCall
  <2>2. Len(WriteCall) = 6 /\ Len(ReadCall) = 6 /\ Len(InitCall) = 10
    BY DEF WriteCall, ReadCall, InitCall
  <2>3. Len(Accesses) \in Nat /\ step <= Len(Accesses)
    BY <1>1, <2>2 DEF Accesses, Access
  <2> QED BY <1>2, <2>1, <2>3, Ranges
<1>4. since' \in 0 .. MinGap /\ kept' \in Data
  BY <1>2, Ranges, BusData DEF Access
<1>5. UNCHANGED <<op, addr, data, pins, answer, strobes, disturbed, Reset>>
  BY DEF Access, history
<1> QED BY <1>2, <1>3, <1>4, <1>5 DEF TypeOK, PortTypes

LEMMA CallTypes ==
    ASSUME TypeOK, NEW o \in {"write", "read"}, NEW x \in Addresses, NEW d \in Data,
           Call(o, x, d)
    PROVE  TypeOK'
<1>1. step' \in 1 .. Len(Accesses') + 1
  <2>1. op' \in {"write", "read"} /\ step' = 1
    BY DEF Call
  <2>2. Accesses' \in {WriteCall', ReadCall'}
    BY <2>1 DEF Accesses
  <2>3. Len(WriteCall') = 6 /\ Len(ReadCall') = 6
    BY DEF WriteCall, ReadCall
  <2> QED BY <2>1, <2>2, <2>3
<1>2. strobes' \in Seq(Addresses \X Data)
  <2>1. << >> \in Seq(Addresses \X Data)
    OBVIOUS
  <2> QED BY <2>1 DEF Call
<1> QED BY <1>1, <1>2 DEF Call, TypeOK

LEMMA ButtonTypes == ASSUME TypeOK, Button PROVE TypeOK'
<1>1. Accesses' = Accesses
  BY DEF Button, progVars, Accesses, WriteCall, ReadCall, InitCall
<1>2. Reset' \in BOOLEAN
  BY DEF Button
<1> QED BY <1>1, <1>2 DEF Button, progVars, history, TypeOK

-----------------------------------------------------------------------------
(* The steps.                                                              *)
LEMMA AccessKeeps == ASSUME BusInv, Access PROVE BusInv'
<1> USE DEF BusInv
<1>1. TypeOK' /\ step \in Nat /\ since = MinGap /\ since > 1 /\ MinGap \in Nat
  BY AccessTypes, Ranges DEF Access
<1>2. UNCHANGED <<op, addr, data, pins, answer, strobes, disturbed, Reset>>
  BY DEF Access, history
<1>3. step' = step + 1 /\ since' = 0
  BY DEF Access
<1>4. PinsFollow'
  BY <1>3 DEF PinsFollow
<1>5. CASE op = "init"
  <2>1. InitPorts'
    BY <1>1, <1>2, <1>5, InitEffect DEF Ports, InitPorts
  <2>2. WriteHigh' /\ ReadHigh'
    BY <1>1, <1>2, <1>3, <1>5 DEF WriteHigh, ReadHigh, Clocked
  <2> QED BY <1>1, <1>2, <1>4, <1>5, <2>1, <2>2
          DEF Ports, WritePorts, ReadPorts, Carried, StrobesSoFar, Answered
<1>6. CASE op = "write"
  <2>1. WritePorts'
    BY <1>1, <1>2, <1>6, WriteEffect DEF Ports, WritePorts
  <2>2. WriteHigh' /\ ReadHigh'
    BY <1>1, <1>2, <1>3, <1>6 DEF WriteHigh, ReadHigh, Clocked
  <2>3. StrobesSoFar'
    BY <1>1, <1>2, <1>3, <1>6 DEF StrobesSoFar, Clocked
  <2>4. Carried'
    <3>1. SUFFICES ASSUME ~disturbed, step = 5
          PROVE  /\ pins.RST_N = 1 /\ pins.WR_N = 0 /\ pins.CS_N = 0 /\ pins.RD_N = 1
                 /\ pins.ADDR = addr /\ kept' = data
      BY <1>1, <1>2, <1>3 DEF Carried
    <3>2. /\ sw.w = 0 /\ sw.cs = 0 /\ sw.r = 1 /\ sw.address = addr /\ sw.data = data
      BY <1>6, <3>1 DEF Ports, WritePorts
    <3>3. /\ pins.RST_N = 1 /\ pins.WR_N = 0 /\ pins.CS_N = 0 /\ pins.RD_N = 1
          /\ pins.ADDR = addr /\ pins.buffer = data
      BY <1>1, <3>1, <3>2 DEF PinsFollow, Clocked
    <3>4. kept' = data
      BY <3>2, <3>3 DEF Access, OTG_DATA, DesignDrives
    <3> QED BY <3>3, <3>4
  <2> QED BY <1>1, <1>2, <1>4, <1>6, <2>1, <2>2, <2>3, <2>4
          DEF Ports, ReadPorts, InitPorts, Answered
<1>7. CASE op = "read"
  <2>1. ReadPorts'
    BY <1>1, <1>2, <1>7, ReadEffect DEF Ports, ReadPorts
  <2>2. WriteHigh' /\ ReadHigh'
    BY <1>1, <1>2, <1>3, <1>7 DEF WriteHigh, ReadHigh, Clocked
  <2>3. StrobesSoFar'
    BY <1>2, <1>7 DEF StrobesSoFar
  <2>4. Answered'
    <3>1. temp' = IF step = 4 THEN pins.data_in ELSE temp
      BY <1>7, ReadEffect
    <3>2. ASSUME ~disturbed, step = 4 PROVE ChipDrives'
      BY <1>1, <1>2, <1>7, <3>2 DEF PinsFollow, Clocked, Ports, ReadPorts, ChipDrives
    <3> QED BY <1>1, <1>2, <1>3, <1>7, <3>1, <3>2 DEF Answered
  <2> QED BY <1>1, <1>2, <1>4, <1>7, <2>1, <2>2, <2>3, <2>4
          DEF Ports, WritePorts, InitPorts, Carried
<1> QED BY <1>5, <1>6, <1>7 DEF TypeOK

LEMMA ClockKeeps == ASSUME BusInv, Clock PROVE BusInv'
<1> USE DEF BusInv
<1>1. TypeOK' /\ UNCHANGED <<op, step, addr, data, temp, sw, Reset>>
  BY ClockTypes DEF Clock
<1>2. /\ step \in Nat /\ since \in Nat /\ since' \in Nat
      /\ since' > 0 /\ (since' > 1 => since > 0)
      /\ op = "write" => step <= 7
  BY Ranges DEF Clock
<1>3. disturbed' = (disturbed \/ Reset)
  BY DEF Clock
<1>4. Ports'
  BY <1>1 DEF Ports, WritePorts, ReadPorts, InitPorts
<1>5. PinsFollow'
  BY <1>1, <1>3, PinsNext DEF PinsFollow
<1>6. WriteHigh' /\ ReadHigh'
  <2>1. Reset => pins'.WR_N = 1 /\ pins'.RD_N = 1
    BY PinsNext
  <2>2. ~Reset => pins'.WR_N = sw.w /\ pins'.RD_N = sw.r
    BY PinsNext
  <2>3. WriteHigh'
    BY <1>1, <1>2, <2>1, <2>2 DEF WriteHigh, Clocked, Ports, WritePorts, ReadPorts,
                                  InitPorts
  <2>4. ReadHigh'
    BY <1>1, <1>2, <2>1, <2>2 DEF ReadHigh, Clocked, Ports, WritePorts, ReadPorts,
                                  InitPorts
  <2> QED BY <2>3, <2>4
<1>7. Carried'
  BY <1>2 DEF Carried
<1>8. StrobesSoFar'
  <2>1. strobes' = IF StrobeEnds THEN Append(strobes, <<pins.ADDR, OTG_DATA>>)
                                 ELSE strobes
    BY DEF Clock
  <2>2. CASE op = "read"
    <3>1. ~StrobeEnds
      BY <2>2 DEF StrobeEnds, WriteHigh
    <3> QED BY <1>1, <2>1, <2>2, <3>1 DEF StrobesSoFar
  <2>3. CASE op = "write" /\ ~disturbed' /\ step = 6 /\ since = 0
    <3>1. ~disturbed /\ ~Reset
      BY <1>3, <2>3
    <3>2. /\ pins.RST_N = 1 /\ pins.WR_N = 0 /\ pins.CS_N = 0 /\ pins.RD_N = 1
          /\ pins.ADDR = addr /\ kept = data
      BY <2>3, <3>1 DEF Carried
    <3>3. sw.w = 1 /\ pins'.WR_N = 1 /\ pins'.RST_N = 1
      BY <2>3, <3>1, PinsNext DEF Ports, WritePorts
    <3>4. OTG_DATA = data
      BY <3>2, <3>3 DEF OTG_DATA, DesignDrives, ChipDrives
    <3>5. StrobeEnds
      BY <3>2, <3>3 DEF StrobeEnds
    <3>6. strobes = << >>
      BY <1>2, <2>3, <3>1 DEF StrobesSoFar, Clocked
    <3>7. strobes' = << <<addr, data>> >>
      BY <2>1, <3>2, <3>4, <3>5, <3>6
    <3> QED BY <1>1, <1>2, <2>3, <3>7 DEF StrobesSoFar, Clocked
  <2>4. CASE op = "write" /\ ~disturbed' /\ ~(step = 6 /\ since = 0)
    <3>1. ~disturbed /\ ~Reset
      BY <1>3, <2>4
    <3>2. ~StrobeEnds
      <4>1. CASE ~Clocked(4) \/ Clocked(6)
        BY <2>4, <4>1 DEF StrobeEnds, WriteHigh
      <4>2. CASE Clocked(4) /\ ~Clocked(6)
        <5>1. step \in 4 .. 5
          BY <1>2, <2>4, <4>2 DEF Clocked
        <5>2. pins'.WR_N = 0 /\ pins'.CS_N = 0
          BY <2>4, <3>1, <5>1, PinsNext DEF Ports, WritePorts
        <5> QED BY <5>2 DEF StrobeEnds
      <4> QED BY <4>1, <4>2
    <3>3. Clocked(6)' <=> Clocked(6)
      BY <1>1, <1>2, <2>4 DEF Clocked
    <3> QED BY <1>1, <2>1, <2>4, <3>1, <3>2, <3>3 DEF StrobesSoFar
  <2> QED BY <1>1, <2>2, <2>3, <2>4 DEF StrobesSoFar
<1>9. Answered'
  <2>1. SUFFICES ASSUME op = "read", ~disturbed, ~Reset, step >= 4
        PROVE  /\ step = 4 /\ since' > 1 => pins'.data_in = answer'
               /\ step > 4 => temp = answer'
    <3>1. op' = op /\ step' = step /\ temp' = temp /\ since' # 0
      BY <1>1, <1>2
    <3>2. ~disturbed' => ~disturbed /\ ~Reset
      BY <1>3
    <3> QED BY <1>2, <3>1, <3>2 DEF Answered
  <2>2. sw.w = 1 /\ (step \in 4 .. 5 => sw.r = 0 /\ sw.cs = 0) /\ (step > 5 => sw.r = 1)
    BY <1>2, <2>1 DEF Ports, ReadPorts
  <2>3. step \in 4 .. 5 /\ since > 0 => ChipDrives
    BY <1>2, <2>1, <2>2 DEF PinsFollow, Clocked, ChipDrives
  <2>4. step = 5 => ChipDrives
    BY <1>2, <2>1, <2>3 DEF Answered
  <2>5. ~(step = 4 /\ since = 0) => answer' = answer
    <3>1. step > 5 => pins'.RD_N # 0
      BY <2>1, <2>2, PinsNext
    <3>2. ChipDrives \/ pins'.RD_N # 0 => answer' = answer
      BY DEF Clock
    <3> QED BY <1>2, <2>1, <2>3, <2>4, <3>1, <3>2
  <2>6. step = 4 /\ since > 0 => pins'.data_in = answer
    BY <2>1, <2>2, <2>3, PinsNext DEF OTG_DATA, DesignDrives
  <2> QED BY <1>2, <2>1, <2>5, <2>6 DEF Answered
<1> QED BY <1>1, <1>4, <1>5, <1>6, <1>7, <1>8, <1>9

LEMMA CallKeeps ==
    ASSUME BusInv, NEW o \in {"write", "read"}, NEW x \in Addresses, NEW d \in Data,
           Call(o, x, d)
    PROVE  BusInv'
<1> USE DEF BusInv
<1>1. /\ TypeOK' /\ op' = o /\ step' = 1 /\ strobes' = << >>
      /\ UNCHANGED <<since, temp, sw, pins, kept, answer, Reset>>
  BY CallTypes DEF Call
<1>2. Done /\ MinGap > 1 /\ op \in {"init", "write", "read"}
  BY Ranges DEF Call, TypeOK
<1>3. sw.r = 1 /\ sw.w = 1 /\ sw.cs = 1 /\ pins.WR_N = 1 /\ pins.RD_N = 1
  BY <1>2, Finished DEF Ports, WritePorts, ReadPorts, InitPorts, WriteHigh, ReadHigh,
                        Clocked
<1>4. Ports'
  BY <1>1, <1>3 DEF Ports, WritePorts, ReadPorts, InitPorts
<1>5. PinsFollow'
  BY <1>1 DEF PinsFollow, Clocked
<1>6. WriteHigh' /\ ReadHigh' /\ Carried' /\ StrobesSoFar' /\ Answered'
  BY <1>1, <1>3 DEF WriteHigh, ReadHigh, Carried, StrobesSoFar, Answered, Clocked
<1> QED BY <1>1, <1>4, <1>5, <1>6

LEMMA RestKeeps == ASSUME BusInv, Button \/ UNCHANGED vars PROVE BusInv'
<1>1. TypeOK'
  <2>1. CASE UNCHANGED vars
    <3>1. Accesses' = Accesses
      BY <2>1 DEF vars, progVars, Accesses, WriteCall, ReadCall, InitCall
    <3> QED BY <2>1, <3>1 DEF BusInv, TypeOK, vars, progVars, history
  <2> QED BY <2>1, ButtonTypes DEF BusInv
<1>2. UNCHANGED <<progVars, pins, kept, answer, history>>
  BY DEF Button, vars
<1> QED BY <1>1, <1>2 DEF BusInv, Ports, WritePorts, ReadPorts, InitPorts, PinsFollow,
           WriteHigh, ReadHigh, Carried, StrobesSoFar, Answered, Clocked, ChipDrives,
           progVars, history

LEMMA BusStep == BusInv /\ [Next]_vars => BusInv'
<1> SUFFICES ASSUME BusInv, [Next]_vars PROVE BusInv'
  OBVIOUS
<1>1. CASE Access
  BY <1>1, AccessKeeps
<1>2. CASE Clock
  BY <1>2, ClockKeeps
<1>3. CASE Button \/ UNCHANGED vars
  BY <1>3, RestKeeps
<1>4. ASSUME NEW o \in {"write", "read"}, NEW x \in Addresses, NEW d \in Data,
             Call(o, x, d)
      PROVE  BusInv'
  BY <1>4, CallKeeps
<1> QED BY <1>1, <1>2, <1>3, <1>4 DEF Next

-----------------------------------------------------------------------------
(* The results.                                                            *)

(* For all words and addresses: every register keeps its type              *)
(* (hpi_io_intf.sv, io_handler.c).                                         *)
THEOREM BusTypeCorrect == Spec => []TypeOK
<1> QED BY InitBus, BusStep, BusInvGives, PTL DEF Spec

(* At any pace of at least two clocks, a call that the button leaves alone *)
(* writes what it was given, once, and a read writes nothing, whatever the *)
(* button has done to the call before it (io_handler.c, hpi_io_intf.sv).   *)
THEOREM WritesAlwaysArrive == Spec => []WritesArrive
<1> QED BY InitBus, BusStep, BusInvGives, PTL DEF Spec

(* At such a pace IO_read returns the chip's answer of this call.          *)
THEOREM ReadsAlwaysReturn == Spec => []ReadsReturn
<1> QED BY InitBus, BusStep, BusInvGives, PTL DEF Spec

(* Whatever the button does, and when, the chip and the design never drive *)
(* the data bus together once IO_init has run.                             *)
THEOREM NeverContention == Spec => []NoContention
<1> QED BY InitBus, BusStep, BusInvGives, PTL DEF Spec
=============================================================================
