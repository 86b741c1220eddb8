------------------------------ MODULE USBHost ------------------------------
(***************************************************************************)
(* The program of the Nios II: main.c and the functions of usb.c it calls. *)
(* It enumerates the keyboard, polls it for ever and copies the first key  *)
(* of each report to the port the game reads.  An action is the code from  *)
(* one access of the chip to the next that another party can influence, pc *)
(* names the place in main.c, request the transfer being made.             *)
(***************************************************************************)
EXTENDS USBChip

CONSTANTS DetectReads, WatchReads   \* hot_plug_count: 1 + 5 and 1 + 7 reads

ASSUME ReadsAssumption ==
    DetectReads \in Nat \ {0} /\ WatchReads \in Nat \ {0}

VARIABLES
    pc, request,
    resent,             \* the list was sent before: sleep before looking
    usb_ctl_val,        \* the message last read
    hot_plug_count,
    keycode             \* the port keycode_base

locals == <<request, resent, usb_ctl_val, hot_plug_count, keycode>>
hostVars == <<pc, locals>>
vars == <<chipVars, hostVars>>

Places == {"USB_HOT_PLUG", "init", "initAck", "reset", "resetAck", "detect",
           "no device", "write", "start", "status", "sleep", "read", "clear",
           "check", "retry", "retryClear", "retryWait", "descriptor", "show",
           "watch", "removed"}

TypeOK ==
    /\ ChipTypeOK
    /\ pc \in Places /\ request \in Requests
    /\ resent \in BOOLEAN
    /\ usb_ctl_val \in {None, "done", "inserted", "removed"}
    /\ hot_plug_count \in 0 .. DetectReads + WatchReads
    /\ keycode \in Keys \cup {NoKey, Leftover}

Init ==
    /\ ChipInit
    /\ pc = "USB_HOT_PLUG" /\ request = SetAddress
    /\ resent = FALSE /\ usb_ctl_val = None
    /\ hot_plug_count = 0 /\ keycode = NoKey

Goto(from, to) == pc = from /\ pc' = to

(* UsbSoftReset stops the chip and clears its messages; the mailbox is     *)
(* left with "garbage".  The keycode port is not written.                  *)
SoftReset ==
    /\ Goto("USB_HOT_PLUG", "init")
    /\ mailbox' = None /\ command' = None /\ message' = None /\ flag' = FALSE
    /\ pointer' = NoList /\ run' = NoList
    /\ request' = SetAddress /\ accepted' = {} /\ reported' = {}
    /\ UNCHANGED <<list, control, word, devVars, keyVars, budgets, resent,
                   usb_ctl_val, hot_plug_count, keycode>>

(* STEP 1a, 1b: the message register is cleared once more. *)
StartInit ==
    /\ Goto("init", "initAck")
    /\ message' = None /\ command' = "init"
    /\ UNCHANGED <<mailbox, flag, listVars, run, word, devVars, keyVars,
                   histVars, budgets, locals>>

Acknowledged(next) ==
    /\ Prompt => command = None
    /\ pc' = IF mailbox = "ack" THEN next ELSE "USB_HOT_PLUG"
    /\ UNCHANGED <<chipVars, locals>>

(* Any bit of HPI_STATUS ends the wait, a device's coming or going too. *)
InitAck ==
    /\ pc = "initAck" /\ (mailbox # None \/ flag)
    /\ Acknowledged("reset")

StartReset ==
    /\ Goto("reset", "resetAck")
    /\ command' = "reset"
    /\ UNCHANGED <<mailbox, messVars, listVars, run, word, devVars, keyVars,
                   histVars, budgets, locals>>

(* The answer is read without waiting for it: that to init is still there. *)
ResetAck ==
    /\ pc = "resetAck"
    /\ Acknowledged("detect")

\* Mutant: hot_plug_count is not started anew.
LookForDeviceOn(n, found, gaveUp) ==
    /\ pc' = IF plugged THEN found
             ELSE IF hot_plug_count + 1 = n THEN gaveUp ELSE pc
    /\ hot_plug_count' = IF plugged THEN hot_plug_count
                                    ELSE hot_plug_count + 1
    /\ UNCHANGED <<chipVars, request, resent, usb_ctl_val, keycode>>

(* Reading ctl_reg until a device shows, at most n times. *)
LookForDevice(n, found, gaveUp) ==
    /\ pc' = IF plugged THEN found
             ELSE IF hot_plug_count + 1 = n THEN gaveUp ELSE pc
    /\ hot_plug_count' = IF pc' = pc THEN hot_plug_count + 1 ELSE 0
    /\ UNCHANGED <<chipVars, request, resent, usb_ctl_val, keycode>>

Detect == pc = "detect" /\ LookForDevice(DetectReads, "write", "no device")
Watch  == pc = "watch"  /\ LookForDevice(WatchReads, "write", "removed")

\* Mutant: the polling goes on with the new keyboard.
AwaitDevicePolling ==
    /\ pc \in {"no device", "removed"} /\ plugged
    /\ pc' = IF pc = "removed" THEN "write" ELSE "USB_HOT_PLUG"
    /\ UNCHANGED <<chipVars, locals>>

(* "Please insert": both loops leave by goto USB_HOT_PLUG. *)
AwaitDevice ==
    /\ pc \in {"no device", "removed"} /\ plugged
    /\ pc' = "USB_HOT_PLUG"
    /\ UNCHANGED <<chipVars, locals>>

\* Mutant: the lists of the enumeration are kept clear of the report.
WordKept(r) == word

(* What the words of each request's list put at 0x051e: the last word of a *)
(* transfer, null in three lists and in the others a link to 0x0520.  The  *)
(* list of a poll is shorter and leaves the word alone.                    *)
WordOfList(r) ==
    CASE r \in {SetAddress, SetConfig, ClassRequest} -> NoKey
      [] r = Poll -> word
      [] OTHER -> Leftover

(* One of the functions from UsbSetAddress to UsbGetReportDesc, or the     *)
(* same written out in main.c: the words of the list, ...                  *)
WriteList ==
    /\ Goto("write", "start")
    /\ list' = request /\ control' = "armed" /\ word' = WordOfList(request)
    /\ UNCHANGED <<mailVars, messVars, pointer, run, devVars, keyVars,
                   histVars, budgets, locals>>

\* Mutant: no usleep after resending.
StartListNoSleep ==
    /\ Goto("start", "status")
    /\ pointer' = ListAt
    /\ UNCHANGED <<mailVars, messVars, list, control, run, word, devVars,
                   keyVars, histVars, budgets, locals>>

(* ... and its address.  The program first looks for an answer at once,   *)
(* after each resending only when it has slept.                            *)
StartList ==
    /\ pc = "start"
    /\ pointer' = ListAt
    /\ pc' = IF resent THEN "sleep" ELSE "status"
    /\ UNCHANGED <<mailVars, messVars, list, control, run, word, devVars,
                   keyVars, histVars, budgets, locals>>

Sleep ==
    /\ Goto("sleep", "status")
    /\ Prompt => ~Busy
    /\ UNCHANGED <<chipVars, locals>>

(* HPI_STATUS_SIE1msg_FLAG: there is a message, or the list is sent again. *)
Status ==
    /\ pc = "status"
    /\ pc' = IF flag THEN "read" ELSE "write"
    /\ resent' = ~flag
    /\ UNCHANGED <<chipVars, request, usb_ctl_val, hot_plug_count, keycode>>

(* UsbWaitTDListDone reads the message, clears the register, and goes on   *)
(* only if the message was HUSB_TDListDone.  There is no end to the wait.  *)
ReadMessage ==
    /\ Goto("read", "clear")
    /\ flag' = FALSE /\ usb_ctl_val' = message
    /\ UNCHANGED <<mailVars, message, listVars, run, word, devVars, keyVars,
                   histVars, budgets, request, resent, hot_plug_count,
                   keycode>>

ClearMessage ==
    /\ pc = "clear"
    /\ message' = None
    /\ pc' = IF usb_ctl_val # "done" THEN "read"
             ELSE IF request = Poll THEN "show" ELSE "check"
    /\ UNCHANGED <<mailVars, flag, listVars, run, word, devVars, keyVars,
                   histVars, budgets, locals>>

\* Mutant: only a transfer that was seen to fail is tried again.
CheckFailedOnly ==
    /\ pc = "check"
    /\ IF control # "failed"
       THEN /\ request' = request + 1
            /\ pc' = IF request = ConfigDesc2 THEN "descriptor" ELSE "write"
       ELSE pc' = "retry" /\ UNCHANGED request
    /\ UNCHANGED <<chipVars, resent, usb_ctl_val, hot_plug_count, keycode>>

(* The control byte is 0x03 once the first transfer of the list was done.  *)
(* UsbGetConfigDesc2 is followed by the words at 0x0576.                   *)
Check ==
    /\ pc = "check"
    /\ IF control = "ok"
       THEN /\ request' = request + 1
            /\ pc' = IF request = ConfigDesc2 THEN "descriptor" ELSE "write"
       ELSE pc' = "retry" /\ UNCHANGED request
    /\ UNCHANGED <<chipVars, resent, usb_ctl_val, hot_plug_count, keycode>>

(* main.c writes the length of a report to 0x057c, from where it reads it  *)
(* back, and starts whatever these words make as a list; it does not wait. *)
StartDescriptor ==
    /\ Goto("descriptor", "write")
    /\ pointer' = Descriptor
    /\ UNCHANGED <<mailVars, messVars, list, control, run, word, devVars,
                   keyVars, histVars, budgets, locals>>

(* UsbGetRetryCnt, before goto USB_HOT_PLUG: if another list is done, wait *)
(* for a message after that one.                                           *)
RetryCount ==
    /\ pc = "retry"
    /\ flag' = FALSE
    /\ pc' = IF message = "done" THEN "retryClear" ELSE "USB_HOT_PLUG"
    /\ UNCHANGED <<mailVars, message, listVars, run, word, devVars, keyVars,
                   histVars, budgets, locals>>

RetryClear ==
    /\ Goto("retryClear", "retryWait")
    /\ message' = None
    /\ UNCHANGED <<mailVars, flag, listVars, run, word, devVars, keyVars,
                   histVars, budgets, locals>>

RetryWait ==
    /\ Goto("retryWait", "USB_HOT_PLUG")
    /\ flag
    /\ UNCHANGED <<chipVars, locals>>

(* The word at 0x051e goes to the port, whatever became of the transfer. *)
ShowKey ==
    /\ Goto("show", "watch")
    /\ keycode' = word
    /\ UNCHANGED <<chipVars, request, resent, usb_ctl_val, hot_plug_count>>

Program ==
    \/ SoftReset \/ StartInit \/ InitAck \/ StartReset \/ ResetAck
    \/ Detect \/ AwaitDevice
    \/ WriteList \/ StartList \/ Sleep \/ Status
    \/ ReadMessage \/ ClearMessage \/ Check \/ StartDescriptor
    \/ RetryCount \/ RetryClear \/ RetryWait
    \/ ShowKey \/ Watch

RunLists ==
    /\ Slow => pc \notin {"write", "start", "status"}
    /\ TakeUp \/ Succeed \/ Fail \/ EndDescriptor
    /\ UNCHANGED hostVars

Chip ==
    \/ (Obey \/ Refuse) /\ UNCHANGED hostVars
    \/ RunLists

User ==
    /\ \/ Unplug /\ (Quiet => pc = "watch")
       \/ Plug /\ (Quiet => pc \in {"no device", "removed"})
       \/ \E k \in Keys \cup {NoKey} : PressKey(k)
    /\ UNCHANGED hostVars

Next == Program \/ Chip \/ User

(* The program runs for ever, and the chip does what it was told. *)
Spec == Init /\ [][Next]_vars /\ WF_vars(Program) /\ WF_vars(Chip)

-----------------------------------------------------------------------------
(* Requests are made in order: the program goes on to the next only when   *)
(* the keyboard has taken every one before it since the last restart,      *)
(* though lists are sent twice and an answer does not say to which list.   *)
EnumeratedInOrder == \A r \in Requests : r < request => r \in accepted

(* When the control byte is accepted, the chip is through with the list:   *)
(* no run is left over to answer the next request.                         *)
NothingOutstanding == pc = "check" /\ control = "ok" => ~Busy

(* The port shows a key of the game only if the keyboard has reported that *)
(* key since the last restart: no key of an earlier keyboard comes back    *)
(* from the chip's memory.                                                 *)
PortShowsReports ==
    [][keycode' # keycode /\ keycode' \in Keys => keycode' \in reported]_vars

(* A key that stays pressed comes to the port, and a key that stays        *)
(* released leaves it, from any start and after any failure or removal.    *)
Shown(k) == IF k \in Keys THEN keycode = k ELSE keycode \notin Keys
KeyReachesGame ==
    \A k \in Keys \cup {NoKey} :
        <>[](plugged /\ key = k) => <>[]Shown(k)

(* main.c, "the keyboard has been removed": a removal is noticed. *)
RemovalNoticed ==
    request = Poll /\ ~plugged ~> plugged \/ pc \in {"removed", "no device"}
=============================================================================
