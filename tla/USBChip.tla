------------------------------ MODULE USBChip ------------------------------
(***************************************************************************)
(* The CY7C67200 and the keyboard behind it, as far as main.c and usb.c    *)
(* rely on them.  Neither is part of the repository: what is said here is  *)
(* read off the program's use of the chip.                                 *)
(*                                                                         *)
(* The program writes a transfer list to the chip's memory and stores its  *)
(* address in HUSB_SIE1_pCurrentTDPtr.  The chip takes the list up, runs   *)
(* it, writes the outcome back over the list's control byte, and puts      *)
(* HUSB_TDListDone into its message register.  It uses the same register,  *)
(* which holds one message, to say that a device came or went.             *)
(***************************************************************************)
EXTENDS Integers

CONSTANTS
    Keys,           \* keys of the keyboard that mean something to the game
    MaxFaults,      \* failures of the chip or the bus though the keyboard is there
    MaxChanges,     \* times the keyboard is plugged in or pulled out
    Prompt,         \* a list is done before the program wakes from a sleep,
                    \* a command before its answer is read
    Slow,           \* no list runs before the program sleeps, or waits
    Quiet           \* the keyboard goes and comes only while no list is run,
                    \* and comes back only once its removal was noticed

ASSUME TimingAssumption ==
    /\ MaxFaults \in Nat /\ MaxChanges \in Nat
    /\ Prompt \in BOOLEAN /\ Slow \in BOOLEAN /\ Quiet \in BOOLEAN

(* The nine requests of the enumeration and the poll for a report. *)
SetAddress == 1
DeviceDesc1 == 2
DeviceDesc2 == 3
ConfigDesc1 == 4
ConfigDesc2 == 5
SetConfig == 6
ClassRequest == 7
HidDesc == 8
ReportDesc == 9
Poll == 10
Requests == SetAddress .. Poll

NoList     == 0
ListAt     == 1280          \* 0x0500, where every list is written
Descriptor == 1398          \* 0x0576, words main.c starts as a list
None       == "none"        \* no message, no command, no answer
NoKey      == "no key"      \* keycode 0
Leftover   == "leftover"    \* 0x20, a word of a list read as a keycode

(* 0x20 is the key 3, which means nothing to the game. *)
ASSUME KeysAssumption == NoKey \notin Keys /\ Leftover \notin Keys

VARIABLES
    mailbox,        \* the answer to the last command
    command,        \* EXEC_INT command the chip has yet to obey
    message, flag,  \* HPI_SIE1_MSG_ADR, HPI_STATUS_SIE1msg_FLAG
    list,           \* the request whose list is at 0x0500
    control,        \* its control byte, 0x0508
    pointer,        \* HUSB_SIE1_pCurrentTDPtr
    run,            \* the list the chip has taken up
    word,           \* low byte of 0x051e
    plugged, device,    \* there is a keyboard, and its USB state
    key, fresh,         \* the key held, and that it is still to be reported
    accepted, reported, \* history since the last restart: requests the
                        \* keyboard took, keys it reported
    faults, changes

mailVars  == <<mailbox, command>>
messVars  == <<message, flag>>
listVars  == <<list, control, pointer>>
devVars   == <<plugged, device>>
keyVars   == <<key, fresh>>
histVars  == <<accepted, reported>>
budgets   == <<faults, changes>>
chipVars  == <<mailVars, messVars, listVars, run, word, devVars, keyVars,
               histVars, budgets>>

(* A device answers at the default address after a bus reset, then at its  *)
(* own address, and its HID interface once it is configured.               *)
Unreset == 0
Default == 1
Addressed == 2
Configured == 3

ChipTypeOK ==
    /\ mailbox \in {None, "ack", "nak"} /\ command \in {None, "init", "reset"}
    /\ message \in {None, "done", "inserted", "removed"} /\ flag \in BOOLEAN
    /\ list \in Requests \cup {NoList} /\ control \in {"armed", "ok", "failed"}
    /\ pointer \in {NoList, ListAt, Descriptor}
    /\ run \in Requests \cup {NoList, Descriptor}
    /\ word \in Keys \cup {NoKey, Leftover}
    /\ plugged \in BOOLEAN /\ device \in Unreset .. Configured
    /\ key \in Keys \cup {NoKey} /\ fresh \in BOOLEAN
    /\ accepted \subseteq Requests /\ reported \subseteq Keys
    /\ faults \in 0 .. MaxFaults /\ changes \in 0 .. MaxChanges

ChipInit ==
    /\ mailbox = None /\ command = None /\ message = None /\ flag = FALSE
    /\ list = NoList /\ control = "failed" /\ pointer = NoList /\ run = NoList
    /\ word = NoKey /\ plugged \in BOOLEAN /\ device = Unreset
    /\ key = NoKey /\ fresh = FALSE /\ accepted = {} /\ reported = {}
    /\ faults = 0 /\ changes = 0

Busy == pointer # NoList \/ run # NoList

(* The chip obeys a command: after a bus reset the device is at address 0. *)
Obey ==
    /\ command # None
    /\ command' = None /\ mailbox' = "ack"
    /\ device' = IF command = "reset" /\ plugged THEN Default ELSE device
    /\ UNCHANGED <<messVars, listVars, run, word, plugged, keyVars, histVars,
                   budgets>>

Refuse ==
    /\ command # None /\ faults < MaxFaults
    /\ command' = None /\ mailbox' = "nak" /\ faults' = faults + 1
    /\ UNCHANGED <<messVars, listVars, run, word, devVars, keyVars, histVars,
                   changes>>

TakeUp ==
    /\ run = NoList /\ pointer # NoList
    /\ run' = IF pointer = ListAt THEN list ELSE Descriptor
    /\ pointer' = NoList
    /\ UNCHANGED <<mailVars, messVars, list, control, word, devVars, keyVars,
                   histVars, budgets>>

Say(m) == message' = m /\ flag' = TRUE

(* The device answers the request in run. *)
Answers ==
    /\ plugged
    /\ \/ run = SetAddress /\ device = Default
       \/ run \in DeviceDesc1 .. SetConfig /\ device >= Addressed
       \/ run \in ClassRequest .. ReportDesc /\ device = Configured
       \/ run = Poll /\ device = Configured /\ fresh

Succeed ==
    /\ run \in Requests /\ Answers
    /\ run' = NoList /\ control' = "ok" /\ Say("done")
    /\ accepted' = accepted \cup {run}
    /\ device' = CASE run = SetAddress -> Addressed
                   [] run = SetConfig -> Configured
                   [] OTHER -> device
    /\ IF run = Poll
       THEN /\ word' = key /\ fresh' = FALSE
            /\ reported' = reported \cup ({key} \cap Keys)
       ELSE /\ fresh' = (fresh \/ (run = SetConfig /\ key # NoKey))
            /\ UNCHANGED <<word, reported>>
    /\ UNCHANGED <<mailVars, list, pointer, plugged, key, budgets>>

(* No answer: nobody there, nothing to report, or a fault of the bus. *)
Fail ==
    /\ run \in Requests
    /\ IF Answers THEN faults < MaxFaults /\ faults' = faults + 1
                  ELSE UNCHANGED faults
    /\ run' = NoList /\ control' = "failed" /\ Say("done")
    /\ UNCHANGED <<mailVars, list, pointer, word, devVars, keyVars, histVars,
                   changes>>

(* What the chip makes of the words at 0x0576 is anybody's guess. *)
EndDescriptor ==
    /\ run = Descriptor /\ run' = NoList
    /\ Say("done") \/ UNCHANGED messVars
    /\ UNCHANGED <<mailVars, listVars, word, devVars, keyVars, histVars,
                   budgets>>

Unplug ==
    /\ plugged /\ changes < MaxChanges
    /\ plugged' = FALSE /\ device' = Unreset /\ fresh' = FALSE
    /\ changes' = changes + 1 /\ Say("removed")
    /\ UNCHANGED <<mailVars, listVars, run, word, key, histVars, faults>>

Plug ==
    /\ ~plugged /\ changes < MaxChanges
    /\ plugged' = TRUE
    /\ changes' = changes + 1 /\ Say("inserted")
    /\ UNCHANGED <<mailVars, listVars, run, word, device, keyVars, histVars,
                   faults>>

(* The player presses or releases a key; one is reported at a time. *)
PressKey(k) ==
    /\ k # key /\ key' = k /\ fresh' = (plugged /\ device = Configured)
    /\ UNCHANGED <<mailVars, messVars, listVars, run, word, devVars, histVars,
                   budgets>>
=============================================================================
