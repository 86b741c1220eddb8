--------------------------- MODULE USBHostProofs ---------------------------
(***************************************************************************)
(* Theorems about the USB host program, for any number of reads, failures  *)
(* and removals and for every set of keys.  That no list is left over      *)
(* needs Prompt; types and keycodes are right without it.                  *)
(***************************************************************************)
EXTENDS USBHost, TLAPS

(* The requests are numbers, none of them another kind of list.            *)
LEMMA RequestNumbers ==
    /\ Requests = 1 .. 10 /\ SetAddress = 1 /\ Poll = 10 /\ ConfigDesc2 = 5
    /\ NoList \notin Requests /\ Descriptor \notin Requests
    /\ NoList # Descriptor /\ ListAt # NoList /\ ListAt # Descriptor
BY DEF Requests, SetAddress, Poll, ConfigDesc2, NoList, Descriptor, ListAt

-----------------------------------------------------------------------------
(* Where the program is, after a restart and while it asks for something.  *)
Restarted == {"init", "initAck", "reset", "resetAck", "detect"}
Asking    == {"start", "status", "sleep", "read", "clear", "check"}

(* What each place of main.c may take for granted: resent is a matter of   *)
(* the sending loop alone, the counter of reads is 0 outside the loops     *)
(* that read, and only UsbGetReportDesc is followed by the polling.        *)
Placed ==
    /\ resent => pc \in {"write", "start", "sleep", "status"}
    /\ pc \in {"show", "watch", "removed"} => request = Poll
    /\ pc \in {"check", "retry", "descriptor"} => request # Poll
    /\ pc = "detect" => hot_plug_count < DetectReads
    /\ pc = "watch" => hot_plug_count < WatchReads
    /\ pc \notin {"detect", "watch"} => hot_plug_count = 0
    /\ pc \in Restarted => request = SetAddress

(* SoftReset leaves the last keycode in the chip's memory; the first list  *)
(* written after it, that of UsbSetAddress, clears it.                     *)
KnownWord ==
    pc \in Asking \/ request # SetAddress => (word \in Keys => word \in reported)

HostInv == TypeOK /\ Placed /\ KnownWord

(* All of it holds when the program starts.                                *)
LEMMA InitTypes ==
    ASSUME Init
    PROVE  ChipTypeOK
<1>1. faults \in 0 .. MaxFaults /\ changes \in 0 .. MaxChanges
  BY TimingAssumption DEF Init, ChipInit
<1>2. /\ list \in Requests \cup {NoList} /\ pointer \in {NoList, ListAt, Descriptor}
      /\ run \in Requests \cup {NoList, Descriptor}
      /\ control \in {"armed", "ok", "failed"}
  BY DEF Init, ChipInit
<1>3. /\ word \in Keys \cup {NoKey, Leftover} /\ key \in Keys \cup {NoKey}
      /\ accepted \subseteq Requests /\ reported \subseteq Keys
  BY DEF Init, ChipInit
<1>4. device \in Unreset .. Configured
  BY DEF Init, ChipInit, Unreset, Configured
<1>5. plugged \in BOOLEAN /\ fresh \in BOOLEAN /\ flag \in BOOLEAN
  BY DEF Init, ChipInit
<1>6. /\ mailbox \in {None, "ack", "nak"} /\ command \in {None, "init", "reset"}
      /\ message \in {None, "done", "inserted", "removed"}
  BY DEF Init, ChipInit
<1> QED
  BY <1>1, <1>2, <1>3, <1>4, <1>5, <1>6 DEF ChipTypeOK

(* Nothing was asked for yet, and the word at 0x051e is no key.            *)
LEMMA HostInvInit ==
    ASSUME Init
    PROVE  HostInv
<1>1. TypeOK
  <2>1. ChipTypeOK
    BY InitTypes
  <2>2. pc \in Places /\ resent \in BOOLEAN
    BY DEF Init, Places
  <2>3. request \in Requests /\ hot_plug_count \in 0 .. DetectReads + WatchReads
    BY RequestNumbers, ReadsAssumption DEF Init
  <2>4. /\ usb_ctl_val \in {None, "done", "inserted", "removed"}
        /\ keycode \in Keys \cup {NoKey, Leftover}
    BY DEF Init
  <2> QED
    BY <2>1, <2>2, <2>3, <2>4 DEF TypeOK
<1>2. Placed
  BY ReadsAssumption, RequestNumbers DEF Init, Placed, Restarted
<1>3. KnownWord
  BY KeysAssumption DEF Init, ChipInit, KnownWord
<1> QED
  BY <1>1, <1>2, <1>3 DEF HostInv

(* The program leaves the types of the chip's variables alone, ...         *)
LEMMA ProgramOnChip ==
    ASSUME TypeOK, Program
    PROVE  ChipTypeOK'
<1> USE DEF TypeOK, ChipTypeOK, Goto, locals, chipVars, mailVars, messVars,
            listVars, devVars, keyVars, histVars, budgets
<1>1. CASE SoftReset \/ StartInit \/ StartReset
  BY <1>1 DEF SoftReset, StartInit, StartReset
<1>2. CASE UNCHANGED chipVars
  BY <1>2
<1>3. CASE StartList \/ StartDescriptor
  BY <1>3 DEF StartList, StartDescriptor
<1>4. CASE WriteList
  <2>1. word' \in Keys \cup {NoKey, Leftover}
    BY <1>4 DEF WriteList, WordOfList
  <2> QED
    BY <1>4, <2>1 DEF WriteList
<1>5. CASE ReadMessage \/ ClearMessage \/ RetryCount \/ RetryClear
  <2>1. message' \in {None, "done", "inserted", "removed"} /\ flag' \in BOOLEAN
    BY <1>5 DEF ReadMessage, ClearMessage, RetryCount, RetryClear
  <2>2. UNCHANGED <<mailVars, listVars, run, word, devVars, keyVars, histVars, budgets>>
    BY <1>5 DEF ReadMessage, ClearMessage, RetryCount, RetryClear
  <2> QED
    BY <2>1, <2>2
<1> QED
  BY <1>1, <1>2, <1>3, <1>4, <1>5
     DEF Program, InitAck, ResetAck, Acknowledged, Detect, Watch, LookForDevice,
         AwaitDevice, Sleep, Status, Check, RetryWait, ShowKey

(* ... stays in main.c, ...                                                *)
LEMMA ProgramGoesOn ==
    ASSUME TypeOK, Program
    PROVE  pc' \in Places
<1> USE DEF Goto, Places
<1>1. CASE SoftReset \/ StartInit \/ StartReset \/ InitAck \/ ResetAck \/ AwaitDevice
  BY <1>1
     DEF SoftReset, StartInit, StartReset, InitAck, ResetAck, Acknowledged, AwaitDevice
<1>2. CASE Detect \/ Watch
  BY <1>2 DEF Detect, Watch, LookForDevice
<1>3. CASE WriteList \/ StartList \/ Sleep \/ Status \/ ReadMessage \/ ClearMessage
  BY <1>3 DEF WriteList, StartList, Sleep, Status, ReadMessage, ClearMessage
<1>4. CASE Check \/ StartDescriptor \/ RetryCount \/ RetryClear \/ RetryWait \/ ShowKey
  BY <1>4 DEF Check, StartDescriptor, RetryCount, RetryClear, RetryWait, ShowKey
<1> QED
  BY <1>1, <1>2, <1>3, <1>4 DEF Program

(* What both loops that read ctl_reg know of their counter.                *)
LEMMA CountedReads ==
    ASSUME TypeOK, Placed
    PROVE  /\ hot_plug_count \in Nat /\ DetectReads \in Nat /\ WatchReads \in Nat
           /\ Detect => hot_plug_count < DetectReads
           /\ Watch => hot_plug_count < WatchReads
<1>1. hot_plug_count \in Nat /\ DetectReads \in Nat /\ WatchReads \in Nat
  BY ReadsAssumption DEF TypeOK
<1>2. Detect => hot_plug_count < DetectReads
  BY DEF Placed, Detect
<1>3. Watch => hot_plug_count < WatchReads
  BY DEF Placed, Watch
<1> QED
  BY <1>1, <1>2, <1>3

(* ... and keeps its own variables typed: there are ten requests, and no   *)
(* loop reads more often than it may.                                      *)
LEMMA ProgramLocals ==
    ASSUME TypeOK, Placed, Program
    PROVE  /\ request' \in Requests /\ resent' \in BOOLEAN
           /\ usb_ctl_val' \in {None, "done", "inserted", "removed"}
           /\ hot_plug_count' \in 0 .. DetectReads + WatchReads
           /\ keycode' \in Keys \cup {NoKey, Leftover}
<1> USE DEF TypeOK, Goto, locals
<1>1. CASE SoftReset
  BY <1>1, RequestNumbers DEF SoftReset
<1>2. CASE Detect \/ Watch
  <2>1. CASE Detect
    <3>1. hot_plug_count \in Nat /\ hot_plug_count < DetectReads
      BY <2>1, CountedReads
    <3>2. hot_plug_count' \in {hot_plug_count + 1, 0}
      BY <2>1 DEF Detect, LookForDevice
    <3>3. hot_plug_count' \in 0 .. DetectReads + WatchReads
      BY <3>1, <3>2, ReadsAssumption
    <3> QED
      BY <2>1, <3>3 DEF Detect, LookForDevice
  <2>2. CASE Watch
    BY <2>2, ReadsAssumption DEF Watch, LookForDevice, Placed
  <2> QED
    BY <1>2, <2>1, <2>2
<1>3. CASE Check
  <2>1. request' \in Requests
    BY <1>3, RequestNumbers DEF Check, Placed
  <2> QED
    BY <1>3, <2>1 DEF Check
<1>4. CASE ReadMessage
  BY <1>4 DEF ReadMessage, ChipTypeOK
<1>5. CASE ShowKey
  BY <1>5 DEF ShowKey, ChipTypeOK
<1>6. CASE Status
  BY <1>6 DEF Status
<1>7. CASE UNCHANGED locals
  BY <1>7
<1> QED
  BY <1>1, <1>2, <1>3, <1>4, <1>5, <1>6, <1>7
     DEF Program, StartInit, InitAck, StartReset, ResetAck, Acknowledged, AwaitDevice,
         WriteList, StartList, Sleep, ClearMessage, StartDescriptor, RetryCount,
         RetryClear, RetryWait

(* The chip keeps to its types when it obeys or refuses a command, ...     *)
LEMMA ObeyTypes ==
    ASSUME ChipTypeOK, Obey
    PROVE  ChipTypeOK'
<1>1. /\ mailbox' \in {None, "ack", "nak"} /\ command' \in {None, "init", "reset"}
  BY DEF Obey
<1>2. plugged' \in BOOLEAN
  BY DEF Obey, ChipTypeOK
<1>3. device' \in Unreset .. Configured
  BY DEF Obey, ChipTypeOK, Unreset, Default, Configured
<1> QED
  BY <1>1, <1>2, <1>3
     DEF ChipTypeOK, Obey, messVars, listVars, keyVars, histVars, budgets

(* A refusal costs one of the failures.                                    *)
LEMMA RefuseTypes ==
    ASSUME ChipTypeOK, Refuse
    PROVE  ChipTypeOK'
<1>1. mailbox' \in {None, "ack", "nak"} /\ command' \in {None, "init", "reset"}
  BY DEF Refuse
<1>2. faults' \in 0 .. MaxFaults
  BY TimingAssumption DEF Refuse, ChipTypeOK
<1> QED
  BY <1>1, <1>2
     DEF ChipTypeOK, Refuse, messVars, listVars, devVars, keyVars, histVars

(* ... when it takes a list up and is done with it, well or badly, ...     *)
LEMMA TakeUpTypes ==
    ASSUME ChipTypeOK, TakeUp
    PROVE  ChipTypeOK'
<1>1. run' \in Requests \cup {NoList, Descriptor}
  BY DEF TakeUp, ChipTypeOK
<1>2. pointer' \in {NoList, ListAt, Descriptor}
  BY DEF TakeUp
<1> QED
  BY <1>1, <1>2
     DEF ChipTypeOK, TakeUp, mailVars, messVars, devVars, keyVars, histVars, budgets

(* A list done well moves the device on or brings the key of a report.     *)
LEMMA SucceedTypes ==
    ASSUME ChipTypeOK, Succeed
    PROVE  ChipTypeOK'
<1>1. device' \in Unreset .. Configured
  BY DEF Succeed, ChipTypeOK, Unreset, Addressed, Configured
<1>2. word' \in Keys \cup {NoKey, Leftover} /\ reported' \subseteq Keys
  BY DEF Succeed, ChipTypeOK
<1>3. fresh' \in BOOLEAN
  BY Zenon DEF Succeed, ChipTypeOK
<1>4. accepted' \subseteq Requests
  BY DEF Succeed, ChipTypeOK
<1>5. message' \in {None, "done", "inserted", "removed"} /\ flag' \in BOOLEAN
  BY DEF Succeed, Say
<1>6. /\ run' \in Requests \cup {NoList, Descriptor}
      /\ control' \in {"armed", "ok", "failed"}
  BY DEF Succeed
<1>7. UNCHANGED <<mailVars, list, pointer, plugged, key, budgets>>
  BY DEF Succeed
<1> QED
  BY <1>1, <1>2, <1>3, <1>4, <1>5, <1>6, <1>7 DEF ChipTypeOK, mailVars, budgets

(* A list done badly changes its control byte only.                        *)
LEMMA FailTypes ==
    ASSUME ChipTypeOK, Fail
    PROVE  ChipTypeOK'
<1>1. faults' \in 0 .. MaxFaults
  BY TimingAssumption DEF Fail, ChipTypeOK
<1>2. message' \in {None, "done", "inserted", "removed"} /\ flag' \in BOOLEAN
  BY DEF Fail, Say
<1>3. /\ run' \in Requests \cup {NoList, Descriptor}
      /\ control' \in {"armed", "ok", "failed"}
  BY DEF Fail
<1>4. UNCHANGED <<mailVars, list, pointer, word, devVars, keyVars, histVars, changes>>
  BY DEF Fail
<1> QED
  BY <1>1, <1>2, <1>3, <1>4 DEF ChipTypeOK, mailVars, devVars, keyVars, histVars

(* The words at 0x0576 may end in a message or in none.                    *)
LEMMA DescriptorTypes ==
    ASSUME ChipTypeOK, EndDescriptor
    PROVE  ChipTypeOK'
<1>1. message' \in {None, "done", "inserted", "removed"} /\ flag' \in BOOLEAN
  BY DEF ChipTypeOK, EndDescriptor, Say, messVars
<1>2. run' \in Requests \cup {NoList, Descriptor}
  BY DEF EndDescriptor
<1> QED
  BY <1>1, <1>2
     DEF ChipTypeOK, EndDescriptor, mailVars, listVars, devVars, keyVars, histVars,
         budgets

(* ... and when the player handles the keyboard.                           *)
LEMMA UserTypes ==
    ASSUME ChipTypeOK, Unplug \/ Plug
    PROVE  ChipTypeOK'
<1>1. message' \in {None, "done", "inserted", "removed"} /\ flag' \in BOOLEAN
  BY DEF Unplug, Plug, Say
<1>2. plugged' \in BOOLEAN
  BY DEF Unplug, Plug
<1>3. fresh' \in BOOLEAN
  BY DEF Unplug, Plug, keyVars, ChipTypeOK
<1>4. device' \in Unreset .. Configured
  BY DEF Unplug, Plug, ChipTypeOK, Unreset, Configured
<1>5. changes' \in 0 .. MaxChanges
  BY TimingAssumption DEF Unplug, Plug, ChipTypeOK
<1>6. UNCHANGED <<mailVars, listVars, run, word, key, histVars, faults>>
  BY DEF Unplug, Plug, keyVars
<1> QED
  BY <1>1, <1>2, <1>3, <1>4, <1>5, <1>6 DEF ChipTypeOK, mailVars, listVars, histVars

(* A key the player presses is one of the keyboard or none.                *)
LEMMA PressTypes ==
    ASSUME ChipTypeOK, NEW k \in Keys \cup {NoKey}, PressKey(k)
    PROVE  ChipTypeOK'
<1>1. fresh' \in BOOLEAN
  BY Zenon DEF PressKey, ChipTypeOK
<1>2. key' \in Keys \cup {NoKey}
  BY DEF PressKey
<1> QED
  BY <1>1, <1>2
     DEF ChipTypeOK, PressKey, mailVars, messVars, listVars, devVars, histVars, budgets

(* The chip and the player leave the program's variables alone.            *)
LEMMA ChipTypeStep ==
    ASSUME ChipTypeOK, Chip \/ User
    PROVE  ChipTypeOK' /\ UNCHANGED hostVars
<1>1. CASE Chip
  BY <1>1, ObeyTypes, RefuseTypes, TakeUpTypes, SucceedTypes, FailTypes, DescriptorTypes
     DEF Chip, RunLists
<1>2. CASE User
  BY <1>2, UserTypes, PressTypes DEF User
<1> QED
  BY <1>1, <1>2

(* Every variable keeps its type in every step.                            *)
LEMMA TypeStep ==
    ASSUME TypeOK, Placed, [Next]_vars
    PROVE  TypeOK'
<1>1. CASE Program
  BY <1>1, ProgramOnChip, ProgramGoesOn, ProgramLocals DEF TypeOK
<1>2. CASE Chip \/ User
  <2>1. ChipTypeOK' /\ UNCHANGED hostVars
    BY <1>2, ChipTypeStep DEF TypeOK
  <2> QED
    BY <2>1 DEF TypeOK, hostVars, locals
<1>3. CASE UNCHANGED vars
  BY <1>3 DEF vars, hostVars, locals, chipVars, mailVars, messVars, listVars, devVars,
              keyVars, histVars, budgets, TypeOK, ChipTypeOK
<1> QED
  BY <1>1, <1>2, <1>3 DEF Next

(* Each place of main.c finds what it takes for granted.                   *)
LEMMA PlacedStep ==
    ASSUME TypeOK, Placed, [Next]_vars
    PROVE  Placed'
<1> USE DEF Placed, Restarted, Goto, locals
<1> USE RequestNumbers
<1>1. CASE UNCHANGED hostVars
  BY <1>1 DEF hostVars
<1>2. CASE SoftReset \/ StartInit \/ InitAck \/ StartReset
  BY <1>2 DEF SoftReset, StartInit, InitAck, Acknowledged, StartReset
<1>3. CASE ResetAck
  BY <1>3, ReadsAssumption DEF ResetAck, Acknowledged
<1>4. CASE Detect
  <2>1. hot_plug_count \in Nat /\ hot_plug_count < DetectReads /\ DetectReads \in Nat
    BY <1>4, CountedReads
  <2>2. /\ pc = "detect" /\ request = SetAddress /\ request' = request
        /\ ~resent /\ resent' = resent
    BY <1>4 DEF Detect, LookForDevice
  <2>3. \/ pc' \in {"write", "no device"} /\ hot_plug_count' = 0
        \/ /\ pc' = "detect" /\ hot_plug_count' = hot_plug_count + 1
           /\ hot_plug_count + 1 # DetectReads
    BY <1>4 DEF Detect, LookForDevice
  <2>4. /\ pc' = "detect" => hot_plug_count' < DetectReads
        /\ pc' # "detect" => hot_plug_count' = 0
    <3>1. CASE pc' \in {"write", "no device"} /\ hot_plug_count' = 0
      <4>1. pc' # "detect"
        BY <3>1
      <4> QED
        BY <3>1, <4>1
    <3>2. CASE pc' = "detect" /\ hot_plug_count' = hot_plug_count + 1
                              /\ hot_plug_count + 1 # DetectReads
      <4>1. hot_plug_count + 1 < DetectReads
        BY <2>1, <3>2
      <4> QED
        BY <3>2, <4>1
    <3> QED
      BY <2>3, <3>1, <3>2
  <2> QED
    BY <2>2, <2>3, <2>4
<1>5. CASE Watch
  <2>1. hot_plug_count \in Nat /\ hot_plug_count < WatchReads /\ WatchReads \in Nat
    BY <1>5, CountedReads
  <2>2. /\ pc = "watch" /\ request = Poll /\ request' = request
        /\ ~resent /\ resent' = resent
    BY <1>5 DEF Watch, LookForDevice
  <2>3. \/ pc' \in {"write", "removed"} /\ hot_plug_count' = 0
        \/ /\ pc' = "watch" /\ hot_plug_count' = hot_plug_count + 1
           /\ hot_plug_count + 1 # WatchReads
    BY <1>5 DEF Watch, LookForDevice
  <2>4. /\ pc' = "watch" => hot_plug_count' < WatchReads
        /\ pc' # "watch" => hot_plug_count' = 0
    BY <2>1, <2>3
  <2> QED
    BY <2>2, <2>3, <2>4
<1>6. CASE AwaitDevice \/ WriteList \/ StartList \/ Sleep \/ Status
  <2>1. CASE AwaitDevice
    BY <2>1 DEF AwaitDevice
  <2>2. CASE WriteList
    BY <2>2 DEF WriteList
  <2>3. CASE StartList \/ Sleep
    BY <2>3 DEF StartList, Sleep
  <2>4. CASE Status
    BY <2>4 DEF Status
  <2> QED
    BY <1>6, <2>1, <2>2, <2>3, <2>4
<1>7. CASE ReadMessage \/ ClearMessage
  BY <1>7 DEF ReadMessage, ClearMessage
<1>8. CASE Check
  BY <1>8 DEF Check, TypeOK
<1>9. CASE StartDescriptor \/ RetryCount \/ RetryClear \/ RetryWait
  BY <1>9 DEF StartDescriptor, RetryCount, RetryClear, RetryWait
<1>10. CASE ShowKey
  BY <1>10, ReadsAssumption DEF ShowKey
<1>11. CASE UNCHANGED vars
  BY <1>11 DEF vars, hostVars
<1> QED
  BY <1>1, <1>2, <1>3, <1>4, <1>5, <1>6, <1>7, <1>8, <1>9, <1>10, <1>11
     DEF Next, Program, Chip, RunLists, User

-----------------------------------------------------------------------------
(* A step that leaves the word and the reports alone and does not begin to *)
(* ask keeps what is known of the word.                                    *)
LEMMA WordKeptStep ==
    ASSUME KnownWord, UNCHANGED <<word, reported, request>>,
           pc' \in Asking => pc \in Asking
    PROVE  KnownWord'
BY DEF KnownWord

(* A report puts its key into the word and among the reported ones.        *)
LEMMA KnownWordChip ==
    ASSUME KnownWord, Chip \/ User
    PROVE  KnownWord'
<1>1. pc' = pc /\ request' = request
  BY DEF Chip, RunLists, User, hostVars, locals
<1>2. CASE Succeed
  BY <1>1, <1>2 DEF Succeed, KnownWord
<1>3. CASE UNCHANGED <<word, reported>>
  BY <1>1, <1>3 DEF KnownWord
<1>4. Obey \/ Refuse \/ TakeUp \/ Fail \/ EndDescriptor => UNCHANGED <<word, reported>>
  BY DEF Obey, Refuse, TakeUp, Fail, EndDescriptor, histVars
<1>5. Unplug \/ Plug \/ (\E k \in Keys \cup {NoKey} : PressKey(k)) =>
        UNCHANGED <<word, reported>>
  BY DEF Unplug, Plug, PressKey, histVars
<1> QED
  BY <1>2, <1>3, <1>4, <1>5 DEF Chip, RunLists, User

(* Every list but that of a poll overwrites the word with no key.          *)
LEMMA KnownWordProgram ==
    ASSUME TypeOK, Placed, KnownWord, Program
    PROVE  KnownWord'
<1> USE DEF Goto, locals, chipVars, histVars
<1>1. CASE SoftReset
  BY <1>1 DEF SoftReset, KnownWord, Asking
<1>2. CASE WriteList
  <2>1. request' = request /\ reported' = reported /\ word' = WordOfList(request)
    BY <1>2 DEF WriteList
  <2>2. CASE request = Poll
    BY <2>1, <2>2, RequestNumbers DEF KnownWord, WordOfList
  <2>3. CASE request # Poll
    <3>1. WordOfList(request) \in {NoKey, Leftover}
      BY <2>3 DEF WordOfList
    <3> QED
      BY <2>1, <3>1, KeysAssumption DEF KnownWord
  <2> QED
    BY <2>2, <2>3
<1>3. CASE Check
  BY <1>3 DEF Check, KnownWord, Asking
<1>4. CASE StartInit \/ InitAck \/ StartReset \/ ResetAck
  BY <1>4, WordKeptStep
     DEF StartInit, InitAck, Acknowledged, StartReset, ResetAck, Asking
<1>5. CASE Detect \/ Watch \/ AwaitDevice
  BY <1>5, WordKeptStep DEF Detect, Watch, LookForDevice, AwaitDevice, Asking
<1>6. CASE StartList \/ Sleep \/ Status \/ ReadMessage \/ ClearMessage
  BY <1>6, WordKeptStep DEF StartList, Sleep, Status, ReadMessage, ClearMessage, Asking
<1>7. CASE StartDescriptor \/ RetryCount \/ RetryClear \/ RetryWait \/ ShowKey
  BY <1>7, WordKeptStep
     DEF StartDescriptor, RetryCount, RetryClear, RetryWait, ShowKey, Asking
<1> QED
  BY <1>1, <1>2, <1>3, <1>4, <1>5, <1>6, <1>7 DEF Program

(* The three parts together are inductive, ...                             *)
LEMMA HostInvStep ==
    ASSUME HostInv, [Next]_vars
    PROVE  HostInv'
<1>1. TypeOK' /\ Placed'
  BY TypeStep, PlacedStep DEF HostInv
<1>2. KnownWord'
  <2>1. CASE UNCHANGED vars
    BY <2>1 DEF HostInv, KnownWord, vars, chipVars, histVars, hostVars, locals
  <2> QED
    BY <2>1, KnownWordChip, KnownWordProgram DEF HostInv, Next
<1> QED
  BY <1>1, <1>2 DEF HostInv

(* ... so they hold whatever the chip and the player do.                   *)
LEMMA HostInvHolds == Spec => []HostInv
<1>1. Init => HostInv
  BY HostInvInit
<1>2. HostInv /\ [Next]_vars => HostInv'
  BY HostInvStep
<1> QED
  BY <1>1, <1>2, PTL DEF Spec

(* main.c and usb.c keep every variable of the program and, as far as they *)
(* rely on it, of the chip in its type: hot_plug_count never exceeds what  *)
(* either loop allows, and there is no eleventh request.                   *)
THEOREM TypesHold == Spec => []TypeOK
<1>1. HostInv => TypeOK
  BY DEF HostInv
<1> QED
  BY <1>1, HostInvHolds, PTL

(* The port gets no key that the keyboard has not reported since the last  *)
(* restart, whatever is left in the chip's memory of an earlier keyboard.  *)
THEOREM PortTheorem == Spec => PortShowsReports
<1>1. HostInv /\ [Next]_vars =>
        [keycode' # keycode /\ keycode' \in Keys => keycode' \in reported]_vars
  <2> SUFFICES ASSUME HostInv, [Next]_vars, keycode' # keycode, keycode' \in Keys
               PROVE  keycode' \in reported
    OBVIOUS
  <2>1. ShowKey
    <3>1. Program
      BY DEF Next, Chip, RunLists, User, vars, hostVars, locals
    <3> QED
      BY <3>1
         DEF Program, SoftReset, StartInit, InitAck, Acknowledged, StartReset, ResetAck,
             Detect, Watch, LookForDevice, AwaitDevice, WriteList, StartList, Sleep,
             Status, ReadMessage, ClearMessage, Check, StartDescriptor, RetryCount,
             RetryClear, RetryWait, locals
  <2>2. pc = "show" /\ keycode' = word
    BY <2>1 DEF ShowKey, Goto
  <2>3. request # SetAddress
    BY <2>2, RequestNumbers DEF HostInv, Placed
  <2> QED
    BY <2>2, <2>3 DEF HostInv, KnownWord
<1>2. Spec => [][Next]_vars
  BY PTL DEF Spec
<1> QED
  BY <1>1, <1>2, HostInvHolds, PTL DEF PortShowsReports

-----------------------------------------------------------------------------
(* With Prompt, which says that the chip is through with a list before the *)
(* program wakes from its sleep.                                           *)

(* One list at most is in the chip's hands, and none once it was accepted. *)
Single ==
    /\ control = "ok" => ~Busy
    /\ pointer # NoList => run \notin Requests

(* Any list in the chip's hands is that of the request being made, and its *)
(* control byte tells of that request.                                     *)
ListsAreRequests ==
    /\ pc \in Restarted \cup {"no device"} => ~Busy
    /\ pointer = ListAt => list = request
    /\ run \in Requests => run = request /\ list = request
    /\ pc \in Asking => list = request
    /\ control = "ok" /\ pc \in Asking => request \in accepted

(* While a device is enumerated no list is left over from the request      *)
(* before: a second sending is slept over, and a first one finds the chip  *)
(* free.                                                                   *)
NoneLeftOver ==
    request # Poll =>
      /\ pc \in {"write", "start"} /\ ~resent => pointer # ListAt /\ run \notin Requests
      /\ pc = "start" /\ ~resent => control # "ok"
      /\ pc = "descriptor" \/ (pc = "status" /\ resent) => ~Busy
      /\ (pc = "status" /\ ~resent) \/ pc \in {"read", "clear", "check"} => Single

ListInv == ListsAreRequests /\ EnumeratedInOrder /\ NoneLeftOver

listOf == <<list, control, pointer, run, accepted, request>>

(* No list was written yet.                                                *)
LEMMA ListInvInit ==
    ASSUME Init
    PROVE  ListInv
<1> USE RequestNumbers DEF Init, ChipInit
<1>1. ListsAreRequests
  BY DEF ListsAreRequests, Busy, Restarted, Asking
<1>2. EnumeratedInOrder
  BY DEF EnumeratedInOrder
<1>3. NoneLeftOver
  BY DEF NoneLeftOver, Single, Busy
<1> QED
  BY <1>1, <1>2, <1>3 DEF ListInv

(* UsbSoftReset takes every list out of the chip's hands.                  *)
LEMMA ListsSoftReset ==
    ASSUME TypeOK, ListInv, SoftReset
    PROVE  ListInv'
<1> USE RequestNumbers DEF SoftReset, Goto
<1>1. ListsAreRequests'
  BY DEF ListsAreRequests, Busy, Restarted, Asking
<1>2. EnumeratedInOrder'
  BY DEF EnumeratedInOrder
<1>3. NoneLeftOver'
  BY DEF NoneLeftOver
<1> QED
  BY <1>1, <1>2, <1>3 DEF ListInv

(* Going on without touching a list. *)
LEMMA ListsAlone ==
    ASSUME ListInv, UNCHANGED <<listOf, resent>>,
           pc' \in Restarted \cup {"no device"} => pc \in Restarted \cup {"no device"},
           pc' = "write" => ~Busy \/ request = Poll,
           pc' \notin Asking \cup {"descriptor"}
    PROVE  ListInv'
<1> USE DEF listOf
<1>1. ListsAreRequests'
  BY DEF ListInv, ListsAreRequests, Busy
<1>2. EnumeratedInOrder'
  BY DEF ListInv, EnumeratedInOrder
<1>3. NoneLeftOver'
  BY RequestNumbers DEF ListInv, NoneLeftOver, Busy, Asking
<1> QED
  BY <1>1, <1>2, <1>3 DEF ListInv

(* The steps of main.c that touch no list, and where they lead.            *)
LEMMA ListsQuiet ==
    ASSUME TypeOK, Placed, ListInv,
           \/ StartInit \/ InitAck \/ StartReset \/ ResetAck \/ Detect \/ AwaitDevice
           \/ RetryCount \/ RetryClear \/ RetryWait \/ ShowKey \/ Watch
    PROVE  ListInv'
<1> USE DEF Goto, locals, listOf, chipVars, listVars, histVars
<1>1. CASE StartInit \/ InitAck \/ StartReset \/ ResetAck
  BY <1>1, ListsAlone
     DEF StartInit, InitAck, Acknowledged, StartReset, ResetAck, Asking, Restarted
<1>2. CASE Detect
  <2>1. ~Busy
    BY <1>2 DEF Detect, ListInv, ListsAreRequests, Restarted
  <2> QED
    BY <1>2, <2>1, ListsAlone DEF Detect, LookForDevice, Asking, Restarted
<1>3. CASE Watch
  <2>1. request = Poll
    BY <1>3 DEF Watch, Placed
  <2> QED
    BY <1>3, <2>1, ListsAlone DEF Watch, LookForDevice, Asking, Restarted
<1>4. CASE AwaitDevice
  BY <1>4, ListsAlone DEF AwaitDevice, Asking, Restarted
<1>5. CASE RetryCount \/ RetryClear \/ RetryWait \/ ShowKey
  BY <1>5, ListsAlone DEF RetryCount, RetryClear, RetryWait, ShowKey, Asking, Restarted
<1> QED
  BY <1>1, <1>2, <1>3, <1>4, <1>5

(* Writing a list over that of the request before, ...                     *)
LEMMA ListsWriteList ==
    ASSUME TypeOK, ListInv, WriteList
    PROVE  ListInv'
<1> USE DEF WriteList, Goto, locals, histVars
<1>1. ListsAreRequests'
  BY DEF ListInv, ListsAreRequests, Restarted, Asking
<1>2. EnumeratedInOrder'
  BY DEF ListInv, EnumeratedInOrder
<1>3. NoneLeftOver'
  BY DEF ListInv, NoneLeftOver
<1> QED
  BY <1>1, <1>2, <1>3 DEF ListInv

(* ... starting it, ...                                                    *)
LEMMA ListsStartList ==
    ASSUME TypeOK, ListInv, StartList
    PROVE  ListInv'
<1> USE DEF StartList, locals, histVars
<1>1. ListsAreRequests'
  BY RequestNumbers DEF ListInv, ListsAreRequests, Restarted, Asking, Busy
<1>2. EnumeratedInOrder'
  BY DEF ListInv, EnumeratedInOrder
<1>3. NoneLeftOver'
  BY RequestNumbers DEF ListInv, NoneLeftOver, Single, Busy
<1> QED
  BY <1>1, <1>2, <1>3 DEF ListInv

(* ... and waking when the chip is through with it.                        *)
LEMMA ListsSleep ==
    ASSUME TypeOK, ListInv, Sleep, Prompt
    PROVE  ListInv'
<1> USE DEF Sleep, Goto, locals, chipVars, listVars, histVars
<1>1. ListsAreRequests'
  BY DEF ListInv, ListsAreRequests, Restarted, Asking, Busy
<1>2. EnumeratedInOrder'
  BY DEF ListInv, EnumeratedInOrder
<1>3. NoneLeftOver'
  BY RequestNumbers DEF ListInv, NoneLeftOver, Single, Busy
<1> QED
  BY <1>1, <1>2, <1>3 DEF ListInv

(* Looking for a message and reading it.                                   *)
LEMMA ListsAwait ==
    ASSUME TypeOK, ListInv, Status \/ ReadMessage \/ ClearMessage
    PROVE  ListInv'
<1>1. UNCHANGED listOf
  BY DEF Status, ReadMessage, ClearMessage, listOf, locals, chipVars, listVars, histVars
<1>2. /\ pc \in {"status", "read", "clear"}
      /\ pc' \in {"write", "read", "clear", "show", "check"}
      /\ pc' = "write" => resent'
      /\ pc # "status" => resent' = resent
  BY DEF Status, ReadMessage, ClearMessage, Goto, locals
<1>3. pc' # "descriptor" /\ pc' # "start" /\ pc' # "status"
  BY <1>2
<1>4. ListsAreRequests'
  <2> USE <1>1, <1>2 DEF listOf
  <2> QED
    BY DEF ListInv, ListsAreRequests, Restarted, Asking, Busy
<1>5. EnumeratedInOrder'
  BY <1>1 DEF ListInv, EnumeratedInOrder, listOf
<1>6. NoneLeftOver'
  <2>1. request # Poll => Single
    BY <1>2, RequestNumbers DEF ListInv, NoneLeftOver, Single, Busy
  <2>2. request' # Poll => Single'
    BY <1>1, <2>1 DEF Single, Busy, listOf
  <2> QED
    BY <1>2, <1>3, <2>2 DEF NoneLeftOver
<1> QED
  BY <1>4, <1>5, <1>6 DEF ListInv

(* Only an accepted request is followed by the next.                       *)
LEMMA ListsCheck ==
    ASSUME TypeOK, Placed, ListInv, Check
    PROVE  ListInv'
<1>1. /\ pc = "check" /\ request \in Requests /\ request # Poll
      /\ resent' = resent /\ ~resent
  BY DEF Check, TypeOK, Placed
<1>2. UNCHANGED <<list, control, pointer, run, accepted>>
  BY DEF Check, chipVars, listVars, histVars
<1>3. CASE control = "ok"
  <2>1. ~Busy /\ request \in accepted
    BY <1>1, <1>3 DEF ListInv, NoneLeftOver, Single, ListsAreRequests, Asking
  <2>2. request' = request + 1 /\ pc' \in {"descriptor", "write"}
    BY <1>3 DEF Check
  <2>3. ~Busy'
    BY <1>2, <2>1 DEF Busy
  <2>4. pointer' = NoList /\ run' = NoList
    BY <2>3 DEF Busy
  <2>5. ListsAreRequests'
    BY <2>2, <2>4, RequestNumbers DEF ListsAreRequests, Restarted, Asking
  <2>6. EnumeratedInOrder'
    BY <1>1, <1>2, <2>1, <2>2, RequestNumbers DEF ListInv, EnumeratedInOrder
  <2>7. NoneLeftOver'
    BY <2>2, <2>3, <2>4, RequestNumbers DEF NoneLeftOver
  <2> QED
    BY <2>5, <2>6, <2>7 DEF ListInv
<1>4. CASE control # "ok"
  <2>1. request' = request /\ pc' = "retry"
    BY <1>4 DEF Check
  <2> QED
    BY <1>1, <1>2, <2>1, ListsAlone DEF listOf, Asking, Restarted
<1> QED
  BY <1>3, <1>4

(* The words at 0x0576 are started when the chip is free.                  *)
LEMMA ListsDescriptor ==
    ASSUME TypeOK, Placed, ListInv, StartDescriptor
    PROVE  ListInv'
<1>1. pc = "descriptor" /\ pc' = "write" /\ pointer' = Descriptor
      /\ UNCHANGED <<list, control, run, accepted, request, resent>>
  BY DEF StartDescriptor, Goto, histVars, locals
<1>2. request # Poll /\ ~resent
  BY <1>1 DEF Placed
<1>3. run' = NoList
  BY <1>1, <1>2 DEF ListInv, NoneLeftOver, Busy
<1>4. ListsAreRequests'
  BY <1>1, <1>3, RequestNumbers DEF ListsAreRequests, Restarted, Asking
<1>5. EnumeratedInOrder'
  BY <1>1 DEF ListInv, EnumeratedInOrder
<1>6. NoneLeftOver'
  BY <1>1, <1>3, RequestNumbers DEF NoneLeftOver
<1> QED
  BY <1>4, <1>5, <1>6 DEF ListInv

(* The chip may take a list up, ...                                        *)
LEMMA ListsTakeUp ==
    ASSUME TypeOK, ListInv, TakeUp, UNCHANGED hostVars
    PROVE  ListInv'
<1>1. /\ run = NoList /\ pointer # NoList /\ pointer' = NoList
      /\ run' = (IF pointer = ListAt THEN list ELSE Descriptor)
      /\ UNCHANGED <<list, control, accepted, request, pc, resent>>
  BY DEF TakeUp, histVars, hostVars, locals
<1>2. Busy
  BY <1>1 DEF Busy
<1>3. ListsAreRequests'
  BY <1>1, <1>2, RequestNumbers DEF ListInv, ListsAreRequests
<1>4. EnumeratedInOrder'
  BY <1>1 DEF ListInv, EnumeratedInOrder
<1>5. NoneLeftOver'
  <2>1. Single => Single'
    BY <1>1, <1>2 DEF Single
  <2> QED
    BY <1>1, <1>2, <2>1, RequestNumbers DEF ListInv, NoneLeftOver
<1> QED
  BY <1>3, <1>4, <1>5 DEF ListInv

(* ... be through with it, ...                                             *)
LEMMA ListsDone ==
    ASSUME TypeOK, ListInv, Succeed \/ Fail, UNCHANGED hostVars
    PROVE  ListInv'
<1>1. /\ run \in Requests /\ run' = NoList
      /\ UNCHANGED <<list, pointer, request, pc, resent>>
  BY DEF Succeed, Fail, listVars, hostVars, locals
<1>2. \/ control' = "ok" /\ accepted' = accepted \cup {run}
      \/ control' = "failed" /\ accepted' = accepted
  BY DEF Succeed, Fail, histVars
<1>3. run # NoList /\ Busy
  BY <1>1, RequestNumbers DEF Busy
<1>4. ListsAreRequests'
  BY <1>1, <1>2, <1>3, RequestNumbers DEF ListInv, ListsAreRequests, Busy
<1>5. EnumeratedInOrder'
  BY <1>1, <1>2 DEF ListInv, EnumeratedInOrder
<1>6. NoneLeftOver'
  <2>1. Single => Single'
    BY <1>1, <1>2, <1>3 DEF Single, Busy
  <2> QED
    BY <1>1, <1>3, <2>1, RequestNumbers DEF ListInv, NoneLeftOver
<1> QED
  BY <1>4, <1>5, <1>6 DEF ListInv

(* ... or with the words at 0x0576, ...                                    *)
LEMMA ListsEndDescriptor ==
    ASSUME TypeOK, ListInv, EndDescriptor, UNCHANGED hostVars
    PROVE  ListInv'
<1>1. /\ run = Descriptor /\ run' = NoList
      /\ UNCHANGED <<list, control, pointer, accepted, request, pc, resent>>
  BY DEF EndDescriptor, listVars, histVars, hostVars, locals
<1>2. Busy
  BY <1>1, RequestNumbers DEF Busy
<1>3. ListsAreRequests'
  BY <1>1, <1>2, RequestNumbers DEF ListInv, ListsAreRequests
<1>4. EnumeratedInOrder'
  BY <1>1 DEF ListInv, EnumeratedInOrder
<1>5. NoneLeftOver'
  <2>1. Single => Single'
    BY <1>1, <1>2, RequestNumbers DEF Single
  <2> QED
    BY <1>1, <1>2, <2>1, RequestNumbers DEF ListInv, NoneLeftOver
<1> QED
  BY <1>3, <1>4, <1>5 DEF ListInv

(* ... or do something else, like the player.                              *)
LEMMA ListsElse ==
    ASSUME ListInv, UNCHANGED <<listOf, pc, resent>>
    PROVE  ListInv'
<1> USE DEF listOf
<1>1. ListsAreRequests'
  BY DEF ListInv, ListsAreRequests, Busy
<1>2. EnumeratedInOrder'
  BY DEF ListInv, EnumeratedInOrder
<1>3. NoneLeftOver'
  BY DEF ListInv, NoneLeftOver, Single, Busy
<1> QED
  BY <1>1, <1>2, <1>3 DEF ListInv

(* Each step keeps the three parts; Prompt is used by Sleep alone.         *)
LEMMA ListInvStep ==
    ASSUME HostInv, ListInv, [Next]_vars, Prompt
    PROVE  ListInv'
<1> USE DEF HostInv
<1>1. CASE Program
  BY <1>1, ListsSoftReset, ListsQuiet, ListsWriteList, ListsStartList, ListsSleep,
     ListsAwait, ListsCheck, ListsDescriptor DEF Program
<1>2. CASE Chip
  <2>1. UNCHANGED hostVars
    BY <1>2 DEF Chip, RunLists
  <2>2. CASE Obey \/ Refuse
    <3>1. UNCHANGED <<listOf, pc, resent>>
      BY <2>1, <2>2 DEF Obey, Refuse, listOf, listVars, histVars, hostVars, locals
    <3> QED
      BY <3>1, ListsElse
  <2>3. CASE RunLists
    BY <2>1, <2>3, ListsTakeUp, ListsDone, ListsEndDescriptor DEF RunLists
  <2> QED
    BY <1>2, <2>2, <2>3 DEF Chip
<1>3. CASE User
  <2>1. UNCHANGED <<listOf, pc, resent>>
    BY <1>3 DEF User, Unplug, Plug, PressKey, listOf, listVars, histVars, hostVars, locals
  <2> QED
    BY <2>1, ListsElse
<1>4. CASE UNCHANGED vars
  <2>1. UNCHANGED <<listOf, pc, resent>>
    BY <1>4 DEF vars, chipVars, listOf, listVars, histVars, hostVars, locals
  <2> QED
    BY <2>1, ListsElse
<1> QED
  BY <1>1, <1>2, <1>3, <1>4 DEF Next

(* The lists are in order in every reachable state.                        *)
LEMMA ListInvHolds ==
    ASSUME Prompt
    PROVE  Spec => []ListInv
<1>1. Init => ListInv
  BY ListInvInit
<1>2. HostInv /\ ListInv /\ [Next]_vars => ListInv'
  BY ListInvStep
<1> QED
  BY <1>1, <1>2, HostInvHolds, PTL DEF Spec

(* Requests follow one another in order: when the program makes a request, *)
(* the keyboard has taken every request before it since the last restart,  *)
(* though main.c sends lists twice and an answer does not say to which     *)
(* list it belongs.                                                        *)
THEOREM OrderTheorem ==
    ASSUME Prompt
    PROVE  Spec => []EnumeratedInOrder
<1>1. ListInv => EnumeratedInOrder
  BY DEF ListInv
<1> QED
  BY <1>1, ListInvHolds, PTL

(* When the program finds 0x03 in the control byte, no second run of the   *)
(* list is under way that could answer for the next request.               *)
THEOREM NothingOutstandingTheorem ==
    ASSUME Prompt
    PROVE  Spec => []NothingOutstanding
<1>1. HostInv /\ ListInv => NothingOutstanding
  BY DEF HostInv, Placed, ListInv, NoneLeftOver, Single, NothingOutstanding
<1> QED
  BY <1>1, HostInvHolds, ListInvHolds, PTL
=============================================================================
