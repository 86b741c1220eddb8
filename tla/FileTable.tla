----------------------------- MODULE FileTable -----------------------------
(***************************************************************************)
(* The file descriptors of the runtime the program is linked with: the     *)
(* pool alt_fd_list with its high-water mark alt_max_fd, the lists of      *)
(* devices and file systems, and the system calls.  alt_main fills the     *)
(* lists, points the three standard descriptors at the console and calls   *)
(* main.  There are no threads: a call runs to its end.                    *)
(*                                                                         *)
(* A name is the sequence of its components, so that a mount point is a    *)
(* prefix of the names in it.  The data that is read and written is the    *)
(* business of the device; see JtagUart for the console.                   *)
(***************************************************************************)
EXTENDS Integers, Sequences, FiniteSets, FiniteSetsExt

CONSTANTS
    MaxFd,       \* ALT_MAX_FD, 32
    Nodes,       \* the devices and file systems
    Null,        \* alt_dev_null
    NoNode,      \* the null pointer
    Devices,     \* the devices alt_sys_init registers, in order
    FileSystems, \* the file systems it registers, in order
    NameOf,      \* the name of each, or its mount point
    Has,         \* the operations of each that are not null pointers
    Console,     \* ALT_STDIN, ALT_STDOUT and ALT_STDERR
    Names,       \* the names the program opens
    OpenArgs,    \* the flags it opens them with
    FlagArgs     \* the flags it sets with F_SETFL

Fds == 0 .. MaxFd - 1
Std == 0 .. 2
Modes == {"r", "w", "rw"}
Flags == [mode : Modes, nb : SUBSET {"nonblock"}]
Entries == [dev : Nodes \union {NoNode}, mode : Modes,
            flags : SUBSET {"excl", "dev", "nonblock"}]
NoEntry == [dev |-> NoNode, mode |-> "r", flags |-> {}]

ASSUME FileAssumption ==
    /\ MaxFd \in Nat /\ MaxFd > 3
    /\ Null \in Nodes /\ NoNode \notin Nodes
    /\ Devices \in Seq(Nodes) /\ FileSystems \in Seq(Nodes)
    \* An alt_dev holds its own link: it is in one list.
    /\ \A k \in DOMAIN FileSystems :
          FileSystems[k] \notin {Null} \union {Devices[j] : j \in DOMAIN Devices}
    /\ OpenArgs \subseteq Flags /\ FlagArgs \subseteq SUBSET {"nonblock"}

VARIABLES
    stage,           \* how far alt_main has come
    devList, fsList, \* alt_dev_list, alt_fs_list
    fdList, maxFd,   \* alt_fd_list, alt_max_fd
    result,          \* of the last system call
    held             \* history: what open has given and close not taken

lists == <<devList, fsList>>
pool  == <<fdList, maxFd>>
vars  == <<stage, lists, pool, result, held>>

Errors == {"ENODEV", "EMFILE", "EACCES", "EBADFD", "EIO", "ENOTTY", "ENOTSUP"}

TypeOK ==
    /\ stage \in {"boot", "redirect", "main", "exited"}
    /\ devList \in Seq(Nodes) /\ fsList \in Seq(Nodes)
    /\ fdList \in [Fds -> Entries]
    /\ maxFd \in -1 .. MaxFd - 1
    /\ result \in Errors \union {"ok"} /\ held \subseteq Fds

Init ==
    /\ stage = "boot"
    /\ devList = <<Null>> /\ fsList = <<>>
    /\ fdList = [f \in Fds |->
                   IF f \in Std THEN [NoEntry EXCEPT !.dev = Null] ELSE NoEntry]
    /\ maxFd = -1
    /\ result = "ok" /\ held = {}

-----------------------------------------------------------------------------
(* The lists.  The entry inserted last is found first.                     *)
Inserted(list, nodes) == [k \in 1 .. Len(nodes) |-> nodes[Len(nodes) + 1 - k]]
                         \o list

FirstOf(list, at) == IF at = {} THEN NoNode ELSE list[Min(at)]

FindDev(name) == FirstOf(devList, {k \in DOMAIN devList : NameOf[devList[k]] = name})

Under(name, mount) == /\ Len(mount) <= Len(name)
                      /\ \A k \in 1 .. Len(mount) : name[k] = mount[k]
FindFile(name) == FirstOf(fsList, {k \in DOMAIN fsList : Under(name, NameOf[fsList[k]])})

(* alt_release_fd: the standard descriptors are never freed.               *)
Release(table, f) == IF f > 2 THEN [table EXCEPT ![f] = NoEntry] ELSE table

(* alt_get_fd: the lowest free descriptor; the mark only goes up.          *)
Free(table) == {f \in Fds : table[f].dev = NoNode}
MarkMutant(top, f) == f             \* follows the last one down
Mark(top, f) == IF f > top THEN f ELSE top

(* alt_file_locked: is the device of f locked by a descriptor up to the    *)
(* mark?                                                                   *)
LockedMutant(table, top, f) ==      \* stops one short
    \E i \in Fds \ {f} : /\ i < top
                         /\ table[i].dev = table[f].dev /\ "excl" \in table[i].flags
Locked(table, top, f) ==
    \E i \in Fds \ {f} : /\ i <= top
                         /\ table[i].dev = table[f].dev /\ "excl" \in table[i].flags

(* A descriptor was taken, but open fails after all.                       *)
UndoMutant(table, top, f, error) ==
    [table |-> table, top |-> top, fd |-> f, is |-> error]
Undo(table, top, f, error) ==
    [table |-> Release(table, f), top |-> top, fd |-> f, is |-> error]

(* open(): the pool after it and the result.  `works` is what the open     *)
(* operation of a node that has one says.                                  *)
OpenResult(table, top, name, arg, works) ==
    LET isafs == FindDev(name) = NoNode
        dev   == IF isafs THEN FindFile(name) ELSE FindDev(name)
        f     == Min(Free(table))
        taken == [table EXCEPT ![f] =
                    [dev |-> dev, mode |-> arg.mode,
                     flags |-> arg.nb \union IF isafs THEN {} ELSE {"dev"}]]
        up    == Mark(top, f)
        fails(error) == [table |-> table, top |-> top, fd |-> -1, is |-> error]
    IN IF dev = NoNode THEN fails("ENODEV")
       ELSE IF Free(table) = {} THEN fails("EMFILE")
       ELSE IF ~isafs /\ Locked(taken, up, f) THEN Undo(taken, up, f, "EACCES")
       ELSE IF "open" \in Has[dev] /\ ~works THEN Undo(taken, up, f, "EIO")
       ELSE [table |-> taken, top |-> up, fd |-> f, is |-> "ok"]

-----------------------------------------------------------------------------
(* alt_main.                                                               *)
SysInit ==
    /\ stage = "boot" /\ stage' = "redirect"
    /\ devList' = Inserted(devList, Devices)
    /\ fsList' = Inserted(fsList, FileSystems)
    /\ UNCHANGED <<pool, result, held>>

(* alt_open_fd: the new descriptor is copied to the standard one.          *)
Redirected(p, std, mode, works) ==
    LET o == OpenResult(p.table, p.top, Console, [mode |-> mode, nb |-> {}], works) IN
    IF o.is = "ok"
    THEN [table |-> Release([o.table EXCEPT ![std] = o.table[o.fd]], o.fd),
          top |-> o.top]
    ELSE [table |-> o.table, top |-> o.top]

IoRedirect ==
    /\ stage = "redirect" /\ stage' = "main"
    /\ \E works \in BOOLEAN :
          LET out == Redirected([table |-> fdList, top |-> maxFd], 1, "w", works)
              in  == Redirected(out, 0, "r", works)
              err == Redirected(in, 2, "w", works)
          IN fdList' = err.table /\ maxFd' = err.top
    /\ UNCHANGED <<lists, result, held>>

-----------------------------------------------------------------------------
(* The system calls of main.  A descriptor is either negative or one that  *)
(* is open: the pool is not looked at before its dev is followed.          *)
Calls == stage = "main" /\ UNCHANGED <<stage, lists>>
IsOpen(f) == f \in Fds /\ fdList[f].dev # NoNode

Open(name, arg, works) ==
    /\ Calls
    /\ LET o == OpenResult(fdList, maxFd, name, arg, works) IN
       /\ fdList' = o.table /\ maxFd' = o.top /\ result' = o.is
       /\ held' = IF o.is = "ok" THEN held \union {o.fd} ELSE held

(* The descriptor is gone even if the device's close has failed.           *)
Close(f, works) ==
    /\ Calls /\ IsOpen(f)
    /\ fdList' = Release(fdList, f) /\ held' = held \ {f} /\ UNCHANGED maxFd
    /\ result' = IF "close" \in Has[fdList[f].dev] /\ ~works THEN "EIO" ELSE "ok"

(* alt_fd_lock looks for other descriptors of the device below the mark.   *)
AloneMutant(f) ==                   \* one less
    \A i \in Fds \ {f} : i + 1 < maxFd => fdList[i].dev # fdList[f].dev
Alone(f) == \A i \in Fds \ {f} : i < maxFd => fdList[i].dev # fdList[f].dev

(* TIOCEXCL and TIOCNXCL of a device, handled by ioctl itself.             *)
Exclude(f) ==
    /\ Calls /\ IsOpen(f) /\ "dev" \in fdList[f].flags
    /\ UNCHANGED <<maxFd, held>>
    /\ \/ Alone(f) /\ result' = "ok"
          /\ fdList' = [fdList EXCEPT ![f].flags = @ \union {"excl"}]
       \/ ~Alone(f) /\ result' = "EACCES" /\ UNCHANGED fdList

Share(f) ==
    /\ Calls /\ IsOpen(f) /\ "dev" \in fdList[f].flags
    /\ fdList' = [fdList EXCEPT ![f].flags = @ \ {"excl"}]
    /\ result' = "ok" /\ UNCHANGED <<maxFd, held>>

(* F_SETFL: only O_NONBLOCK and O_APPEND can be changed.                   *)
SetFlags(f, nb) ==
    /\ Calls /\ IsOpen(f)
    /\ fdList' = [fdList EXCEPT ![f].flags = (@ \ {"nonblock"}) \union nb]
    /\ result' = "ok" /\ UNCHANGED <<maxFd, held>>

(* The calls that leave the pool alone, and every call on a negative       *)
(* number.                                                                 *)
Refused(f, op) ==
    CASE op = "read"  -> IF fdList[f].mode = "w" \/ op \notin Has[fdList[f].dev]
                         THEN "EACCES" ELSE "ok"
      [] op = "write" -> IF fdList[f].mode = "r" \/ op \notin Has[fdList[f].dev]
                         THEN "EACCES" ELSE "ok"
      [] op = "ioctl" -> IF op \notin Has[fdList[f].dev] THEN "ENOTTY" ELSE "ok"
      [] op = "lseek" -> IF op \notin Has[fdList[f].dev] THEN "ENOTSUP" ELSE "ok"
      [] op = "fstat" -> "ok"

Other(f, op, works) ==
    /\ Calls /\ IsOpen(f) /\ UNCHANGED <<pool, held>>
    /\ result' = IF Refused(f, op) = "ok" /\ op \in Has[fdList[f].dev] /\ ~works
                 THEN "EIO" ELSE Refused(f, op)

BadFd == Calls /\ result' = "EBADFD" /\ UNCHANGED <<pool, held>>

(* main returns: alt_main closes the standard output and exits, which      *)
(* spins.                                                                  *)
Return ==
    /\ stage = "main" /\ stage' = "exited"
    /\ fdList' = Release(fdList, 1)
    /\ UNCHANGED <<lists, maxFd, result, held>>
Spin == stage = "exited" /\ UNCHANGED vars

Next ==
    \/ SysInit \/ IoRedirect \/ Return \/ Spin \/ BadFd
    \/ \E name \in Names, arg \in OpenArgs, works \in BOOLEAN :
          Open(name, arg, works)
    \/ \E f \in Fds :
          \/ Exclude(f) \/ Share(f)
          \/ \E works \in BOOLEAN : Close(f, works)
          \/ \E nb \in FlagArgs : SetFlags(f, nb)
          \/ \E op \in {"read", "write", "ioctl", "lseek", "fstat"},
                works \in BOOLEAN : Other(f, op, works)

Spec == Init /\ [][Next]_vars

-----------------------------------------------------------------------------
Users(d) == {f \in Fds : fdList[f].dev = d}
Holders(d) == {f \in Users(d) : "excl" \in fdList[f].flags}

(* alt_max_fd bounds the open descriptors, as the two loops that stop at   *)
(* it rely on.  Until the first open it is -1 and does not count the       *)
(* standard ones, which are not marked as devices then: no lock is theirs. *)
HighWater ==
    \A f \in Fds : IsOpen(f) =>
        \/ f <= maxFd
        \/ maxFd = -1 /\ f \in Std /\ "dev" \notin fdList[f].flags
PoolInv == TypeOK /\ HighWater

(* No device is ever locked by two descriptors, although alt_fd_lock does  *)
(* not look at all of them.                                                *)
OneHolder == \A d \in Nodes : Cardinality(Holders(d)) <= 1

(* alt_fd_lock.c:44 "Further calls to open() for this device will fail     *)
(* until the lock is released": a locked device gets no new descriptor,    *)
(* under whatever name and on whichever side of the holder's number.       *)
LocksExclude ==
    [][\A d \in Nodes : Holders(d) # {} =>
          \A f \in Fds : fdList'[f].dev = d => f \in Users(d)]_vars

(* alt_fd_lock.c:43 "If there are no other open file descriptors which     *)
(* reference the same device, then alt_fd_lock() will grant the lock":     *)
(* whoever is granted a lock is alone on the device.                       *)
LockNeedsSole ==
    [][\A f \in Fds :
          "excl" \in fdList'[f].flags /\ "excl" \notin fdList[f].flags
             => Users(fdList[f].dev) = {f}]_vars

(* Nothing leaks and nothing is lost: open are the standard descriptors,   *)
(* whatever is closed, and those that open has returned and close has not  *)
(* taken back; an open that fails half way leaves nothing behind.  After   *)
(* alt_io_redirect the standard ones are the console, if there is one.     *)
OpenAsHeld ==
    \A f \in Fds :
        /\ IsOpen(f) <=> f \in Std \union held
        /\ f \in Std /\ stage \in {"main", "exited"} /\ FindDev(Console) # NoNode
             /\ "open" \notin Has[FindDev(Console)]
           => fdList[f].dev = FindDev(Console)
=============================================================================
