------------------------------- MODULE HPIBus -------------------------------
(***************************************************************************)
(* The wires between the Nios II and the USB chip: IO_init, IO_write and   *)
(* IO_read of io_handler.c, which move one signal per store, and           *)
(* hpi_io_intf.sv, which passes them on a clock later.  Only the direction *)
(* of the data bus follows the program at once.  All strobes are active    *)
(* low.  The button resets hpi_io_intf and the chip, never the program.    *)
(***************************************************************************)
EXTENDS Integers, Sequences

CONSTANTS
    Addresses, Data,    \* values of the two-bit address and of the data bus
    MinGap              \* clocks from one access of the program to the next

ASSUME BusAssumption ==
    /\ Addresses \subseteq Nat /\ 0 \in Addresses
    /\ Data \subseteq Nat /\ 0 \in Data
    /\ MinGap \in Nat /\ MinGap >= 2

VARIABLES
    op, step, since,    \* the program: call, next access, clocks since the last
    addr, data, temp,   \* the call's arguments, and what IO_read returns
    sw,                 \* the parallel ports the program writes
    pins,               \* the registers of hpi_io_intf
    kept,               \* what an undriven data bus still carries
    answer,             \* what the chip answers to the read in progress
    strobes,            \* history: writes the chip has seen in this call
    disturbed,          \* history: the button was seen in this call
    Reset               \* Reset_h

progVars == <<op, step, since, addr, data, temp, sw>>
history  == <<strobes, disturbed>>
vars == <<progVars, pins, kept, answer, history, Reset>>

Set(port, value) == [port |-> port, value |-> value]
Load == Set("load", 0)

(* Mutants: IO_write that changes its data after the strobe, and IO_read   *)
(* that leaves the chip reading.                                           *)
WriteCallLate == << Set("address", addr), Set("cs", 0), Set("w", 0),
                    Set("w", 1), Set("data", data), Set("cs", 1) >>
ReadCallOpen  == << Set("address", addr), Set("r", 0), Set("cs", 0), Load >>

InitCall  == << Set("reset", 1), Set("cs", 1), Set("r", 1), Set("w", 1),
                Set("address", 0), Set("data", 0),
                Set("cs", 0), Set("reset", 0), Set("reset", 1), Set("cs", 1) >>
WriteCall == << Set("address", addr), Set("cs", 0), Set("w", 0),
                Set("data", data), Set("w", 1), Set("cs", 1) >>
ReadCall  == << Set("address", addr), Set("r", 0), Set("cs", 0), Load,
                Set("r", 1), Set("cs", 1) >>

Accesses == CASE op = "init"  -> InitCall
              [] op = "write" -> WriteCall
              [] op = "read"  -> ReadCall

(* The data bus: driven by the design while the program writes, by the     *)
(* chip while it is selected and read, and else keeping its charge.        *)
DesignDrives == sw.w = 0
ChipDrives   == pins.CS_N = 0 /\ pins.RD_N = 0 /\ pins.RST_N = 1
OTG_DATA == IF DesignDrives THEN pins.buffer
            ELSE IF ChipDrives THEN answer ELSE kept

TypeOK ==
    /\ op \in {"init", "write", "read"} /\ step \in 1 .. Len(Accesses) + 1
    /\ since \in 0 .. MinGap
    /\ addr \in Addresses /\ data \in Data /\ temp \in Data
    /\ sw \in [address : Addresses, data : Data, r : 0 .. 1, w : 0 .. 1,
               cs : 0 .. 1, reset : 0 .. 1]
    /\ pins \in [ADDR : Addresses, buffer : Data, RD_N : 0 .. 1,
                 WR_N : 0 .. 1, CS_N : 0 .. 1, RST_N : 0 .. 1,
                 data_in : Data]
    /\ kept \in Data /\ answer \in Data
    /\ strobes \in Seq(Addresses \X Data)
    /\ disturbed \in BOOLEAN /\ Reset \in BOOLEAN

(* The parallel ports power up as 0; by the time the program runs they     *)
(* have passed hpi_io_intf.                                                *)
Init ==
    /\ op = "init" /\ step = 1 /\ since = 0
    /\ addr = 0 /\ data = 0 /\ temp = 0
    /\ sw = [address |-> 0, data |-> 0, r |-> 0, w |-> 0, cs |-> 0,
             reset |-> 0]
    /\ pins = [ADDR |-> 0, buffer |-> 0, RD_N |-> 0, WR_N |-> 0, CS_N |-> 0,
               RST_N |-> 1, data_in |-> 0]
    /\ kept = 0 /\ answer = 0 /\ strobes = << >>
    /\ disturbed = FALSE /\ Reset = FALSE

(* One access of the program. *)
Access ==
    /\ since = MinGap /\ step <= Len(Accesses)
    /\ LET a == Accesses[step]
       IN  IF a = Load THEN temp' = pins.data_in /\ UNCHANGED sw
           ELSE sw' = [sw EXCEPT ![a.port] = a.value] /\ UNCHANGED temp
    /\ step' = step + 1 /\ since' = 0 /\ kept' = OTG_DATA
    /\ UNCHANGED <<op, addr, data, pins, answer, history, Reset>>

Done == step = Len(Accesses) + 1 /\ since = MinGap

(* The program goes on to its next IO_write or IO_read. *)
Call(o, x, d) ==
    /\ Done
    /\ op' = o /\ step' = 1 /\ addr' = x /\ data' = d
    /\ strobes' = << >> /\ disturbed' = FALSE
    /\ UNCHANGED <<since, temp, sw, pins, kept, answer, Reset>>

(* The chip takes the data bus when a write strobe ends. *)
StrobeEnds == /\ pins.WR_N = 0 /\ pins.CS_N = 0
              /\ pins.RST_N = 1 /\ pins'.RST_N = 1
              /\ pins'.WR_N = 1 \/ pins'.CS_N = 1

\* Mutant: the register for reading takes what the design writes.
PinsReadBack ==
    IF Reset
    THEN [ADDR |-> 0, buffer |-> 0, RD_N |-> 1, WR_N |-> 1, CS_N |-> 0,
          RST_N |-> 0, data_in |-> 0]
    ELSE [ADDR |-> sw.address, buffer |-> sw.data, RD_N |-> sw.r,
          WR_N |-> sw.w, CS_N |-> sw.cs, RST_N |-> 1,
          data_in |-> pins.buffer]

Pins ==
    IF Reset
    THEN [ADDR |-> 0, buffer |-> 0, RD_N |-> 1, WR_N |-> 1, CS_N |-> 0,
          RST_N |-> 0, data_in |-> 0]
    ELSE [ADDR |-> sw.address, buffer |-> sw.data, RD_N |-> sw.r,
          WR_N |-> sw.w, CS_N |-> sw.cs, RST_N |-> 1,
          data_in |-> OTG_DATA]

Clock ==
    /\ pins' = Pins
    /\ kept' = OTG_DATA
    /\ since' = IF since < MinGap THEN since + 1 ELSE since
    /\ strobes' = IF StrobeEnds THEN Append(strobes, <<pins.ADDR, OTG_DATA>>)
                                ELSE strobes
    /\ IF ~ChipDrives /\ pins'.CS_N = 0 /\ pins'.RD_N = 0
       THEN answer' \in Data ELSE UNCHANGED answer
    /\ disturbed' = (disturbed \/ Reset)
    /\ UNCHANGED <<op, step, addr, data, temp, sw, Reset>>

Button == Reset' = ~Reset /\ UNCHANGED <<progVars, pins, kept, answer, history>>

Next == \/ Access \/ Clock \/ Button
        \/ \E o \in {"write", "read"}, x \in Addresses, d \in Data :
               Call(o, x, d)

Spec == Init /\ [][Next]_vars

-----------------------------------------------------------------------------
(* Unless the button is pressed meanwhile, the chip sees one write for     *)
(* each IO_write, at the address and with the data of the call, though the *)
(* design lets go of the bus a clock before the strobe ends; and IO_read   *)
(* writes nothing.                                                         *)
WritesArrive ==
    Done /\ ~disturbed => CASE op = "write" -> strobes = << <<addr, data>> >>
                            [] op = "read"  -> strobes = << >>
                            [] OTHER -> TRUE

(* IO_read returns what the chip answered, through the two registers on    *)
(* the way there and back.                                                 *)
ReadsReturn == Done /\ ~disturbed /\ op = "read" => temp = answer

(* Once the program has set up its ports, the design and the chip never    *)
(* drive the data bus together, the button notwithstanding.                *)
NoContention == ~(op # "init" /\ DesignDrives /\ ChipDrives)
=============================================================================
