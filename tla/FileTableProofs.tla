-------------------------- MODULE FileTableProofs --------------------------
(***************************************************************************)
(* Proofs about the file descriptors, for any number of them, any devices  *)
(* and file systems, and any names and flags: the mark bounds what is      *)
(* open, a device has one holder, and open and close balance.              *)
(***************************************************************************)
EXTENDS FileTable, TLAPS, WellFoundedInduction, FiniteSetTheorems,
        SequenceTheorems

-----------------------------------------------------------------------------
(* Every set of numbers that is not empty has a least member.              *)
Less == OpToRel(<, Nat)

LEMMA LessWellFounded == IsWellFoundedOn(Less, Nat)
BY NatLessThanWellFounded DEF Less

LEMMA MinIsLeast ==
    ASSUME NEW S \in SUBSET Nat, S # {}
    PROVE  Min(S) \in S /\ \A x \in S : Min(S) <= x
<1>1. PICK x \in S : \A y \in S : <<y, x>> \notin Less
  BY LessWellFounded, WFMin
<1>2. \A y \in S : x <= y
  <2>1. TAKE y \in S
  <2>2. x \in Nat /\ y \in Nat /\ <<y, x>> \notin Less
    BY <1>1
  <2>3. ~(y < x)
    BY <2>2 DEF Less, OpToRel
  <2> QED BY <2>2, <2>3
<1> QED BY <1>2 DEF Min

(* What a look-up finds is a node.                                         *)
LEMMA FirstIsNode ==
    ASSUME NEW list \in Seq(Nodes), NEW at \in SUBSET DOMAIN list
    PROVE  /\ FirstOf(list, at) \in Nodes \union {NoNode}
           /\ FirstOf(list, at) # NoNode => \E k \in DOMAIN list : FirstOf(list, at) = list[k]
<1>1. CASE at = {}
  BY <1>1 DEF FirstOf
<1>2. CASE at # {}
  <2>1. DOMAIN list = 1 .. Len(list) /\ Len(list) \in Nat
    OBVIOUS
  <2>2. at \in SUBSET Nat
    BY <2>1
  <2>3. Min(at) \in DOMAIN list
    BY <1>2, <2>2, MinIsLeast
  <2> QED BY <1>2, <2>1, <2>3 DEF FirstOf
<1> QED BY <1>1, <1>2

LEMMA FindsNodes ==
    ASSUME devList \in Seq(Nodes), fsList \in Seq(Nodes), NEW name
    PROVE  /\ FindDev(name) \in Nodes \union {NoNode}
           /\ FindDev(name) # NoNode => \E k \in DOMAIN devList : FindDev(name) = devList[k]
           /\ FindFile(name) \in Nodes \union {NoNode}
           /\ FindFile(name) # NoNode => \E k \in DOMAIN fsList : FindFile(name) = fsList[k]
<1>1. /\ {k \in DOMAIN devList : NameOf[devList[k]] = name} \in SUBSET DOMAIN devList
      /\ {k \in DOMAIN fsList : Under(name, NameOf[fsList[k]])} \in SUBSET DOMAIN fsList
  OBVIOUS
<1> QED BY <1>1, FirstIsNode DEF FindDev, FindFile

-----------------------------------------------------------------------------
(* Tables in which the standard descriptors are open and a free entry is   *)
(* as alt_release_fd leaves it.                                            *)
Tidy(t) ==
    /\ t \in [Fds -> Entries]
    /\ \A f \in Fds : t[f].dev = NoNode => t[f] = NoEntry /\ f > 2

NoLocks(t) == \A f \in Fds : "excl" \notin t[f].flags

(* open() either leaves the table as it was, or fills one free entry.      *)
Fills(t, o, name, f, e) ==
    /\ o.fd = f /\ f > 2 /\ t[f].dev = NoNode /\ f <= o.top
    /\ o.table = [t EXCEPT ![f] = e]
    /\ e.dev # NoNode /\ "excl" \notin e.flags
    /\ FindDev(name) # NoNode =>
          /\ e.dev = FindDev(name) /\ "dev" \in e.flags
          /\ \A i \in Fds \ {f} : i <= o.top /\ t[i].dev = e.dev => "excl" \notin t[i].flags
    /\ FindDev(name) = NoNode => e.dev = FindFile(name) /\ "dev" \notin e.flags

Opened(t, top, name, o) ==
    /\ o.is \in Errors \union {"ok"}
    /\ o.top \in -1 .. MaxFd - 1 /\ o.top >= top
    /\ o.top = top \/ o.top > 2
    /\ o.is # "ok" => o.table = t
    /\ o.is = "ok" => \E f \in Fds, e \in Entries : Fills(t, o, name, f, e)
    /\ FindDev(name) # NoNode /\ "open" \notin Has[FindDev(name)]
         /\ Free(t) # {} /\ NoLocks(t) => o.is = "ok"

LEMMA OpenEffect ==
    ASSUME NEW t, Tidy(t), NEW top \in -1 .. MaxFd - 1, NEW name, NEW arg \in Flags,
           NEW works \in BOOLEAN, devList \in Seq(Nodes), fsList \in Seq(Nodes),
           NEW o, o = OpenResult(t, top, name, arg, works)
    PROVE  Opened(t, top, name, o)
<1> DEFINE isafs == FindDev(name) = NoNode
           dev   == IF isafs THEN FindFile(name) ELSE FindDev(name)
           f     == Min(Free(t))
           e     == [dev |-> dev, mode |-> arg.mode,
                     flags |-> arg.nb \union IF isafs THEN {} ELSE {"dev"}]
           taken == [t EXCEPT ![f] = e]
           up    == Mark(top, f)
           fails(error) == [table |-> t, top |-> top, fd |-> -1, is |-> error]
<1>1. MaxFd \in Nat /\ MaxFd > 3 /\ NoNode \notin Nodes
  BY FileAssumption
<1>2. dev \in Nodes \union {NoNode}
  BY FindsNodes
<1>3. o = IF dev = NoNode THEN fails("ENODEV")
          ELSE IF Free(t) = {} THEN fails("EMFILE")
          ELSE IF ~isafs /\ Locked(taken, up, f) THEN Undo(taken, up, f, "EACCES")
          ELSE IF "open" \in Has[dev] /\ ~works THEN Undo(taken, up, f, "EIO")
          ELSE [table |-> taken, top |-> up, fd |-> f, is |-> "ok"]
  BY DEF OpenResult
<1>4. CASE dev = NoNode
  <2>1. o = fails("ENODEV") /\ FindDev(name) = NoNode
    BY <1>1, <1>3, <1>4
  <2> QED BY <1>1, <2>1 DEF Errors, Opened
<1>5. CASE dev # NoNode /\ Free(t) = {}
  <2>1. o = fails("EMFILE")
    BY <1>3, <1>5
  <2> QED BY <1>1, <1>5, <2>1 DEF Errors, Opened
<1>6. CASE dev # NoNode /\ Free(t) # {}
  <2>1. f \in Fds /\ t[f].dev = NoNode
    <3>1. Free(t) \in SUBSET Nat
      BY <1>1 DEF Free, Fds
    <3>2. f \in Free(t)
      BY <1>6, <3>1, MinIsLeast
    <3> QED BY <3>2 DEF Free
  <2>2. t[f] = NoEntry /\ f > 2 /\ t \in [Fds -> Entries]
    BY <2>1 DEF Tidy
  <2>3. e \in Entries /\ e.dev = dev /\ e.dev # NoNode /\ "excl" \notin e.flags
        /\ ("dev" \in e.flags <=> ~isafs)
    BY <1>2, <1>6 DEF Entries, Flags, Modes
  <2> HIDE DEF e, f, dev, isafs
  <2>4. taken \in [Fds -> Entries] /\ taken[f] = e
    BY <2>1, <2>2, <2>3
  <2>5. Release(taken, f) = t
    <3>1. Release(taken, f) = [taken EXCEPT ![f] = NoEntry]
      BY <2>2 DEF Release
    <3> QED BY <2>1, <2>2, <3>1
  <2>6. up \in -1 .. MaxFd - 1 /\ up >= top /\ (up = top \/ up > 2) /\ f <= up
    BY <1>1, <2>1, <2>2 DEF Mark, Fds
  <2>7. \A i \in Fds \ {f} : taken[i] = t[i]
    BY <2>1, <2>2
  <2> HIDE DEF taken, up
  <2>8. CASE ~isafs /\ Locked(taken, up, f)
    <3>1. o.table = t /\ o.top = up /\ o.is = "EACCES"
      BY <1>3, <1>6, <2>5, <2>8 DEF Undo
    <3>2. ~NoLocks(t)
      BY <2>7, <2>8 DEF Locked, NoLocks
    <3> QED BY <2>6, <3>1, <3>2 DEF Errors, Opened
  <2>9. CASE ~(~isafs /\ Locked(taken, up, f)) /\ "open" \in Has[dev] /\ ~works
    <3>1. o.table = t /\ o.top = up /\ o.is = "EIO"
      BY <1>3, <1>6, <2>5, <2>9 DEF Undo
    <3>2. FindDev(name) # NoNode => dev = FindDev(name)
      BY DEF dev, isafs
    <3> QED BY <2>6, <2>9, <3>1, <3>2 DEF Errors, Opened
  <2>10. CASE ~(~isafs /\ Locked(taken, up, f)) /\ ~("open" \in Has[dev] /\ ~works)
    <3>1. o = [table |-> taken, top |-> up, fd |-> f, is |-> "ok"]
      BY <1>3, <1>6, <2>10
    <3>2. o.table = taken /\ o.top = up /\ o.fd = f /\ o.is = "ok"
      BY <3>1
    <3>3. /\ FindDev(name) # NoNode =>
                /\ e.dev = FindDev(name) /\ "dev" \in e.flags
                /\ ~Locked(taken, up, f)
          /\ FindDev(name) = NoNode => e.dev = FindFile(name) /\ "dev" \notin e.flags
      BY <2>3, <2>10 DEF dev, isafs
    <3>4. ~Locked(taken, up, f) =>
             \A i \in Fds \ {f} : i <= up /\ t[i].dev = e.dev => "excl" \notin t[i].flags
      BY <2>4, <2>7 DEF Locked
    <3>5. Fills(t, o, name, f, e)
      BY <2>1, <2>2, <2>3, <2>6, <3>2, <3>3, <3>4 DEF Fills, taken
    <3> QED BY <2>1, <2>3, <2>6, <3>2, <3>5 DEF Opened
  <2> QED BY <2>8, <2>9, <2>10
<1> QED BY <1>4, <1>5, <1>6

-----------------------------------------------------------------------------
(* The inductive invariant, of a table and a mark.                         *)
HighAt(t, top) ==
    \A f \in Fds : t[f].dev # NoNode =>
        \/ f <= top
        \/ top = -1 /\ f \in Std /\ "dev" \notin t[f].flags

\* A lock is a device's, and whoever shares the device has it open since
\* before the lock was granted, at the place that was the mark then.
LockAt(t, top) ==
    \A f \in Fds : "excl" \in t[f].flags =>
        /\ "dev" \in t[f].flags
        /\ \A g \in Fds \ {f} :
              t[g].dev = t[f].dev /\ "dev" \in t[g].flags
                 => f < top /\ "excl" \notin t[g].flags

DevAt(t) ==
    \A f \in Fds : "dev" \in t[f].flags =>
        \E k \in DOMAIN devList : t[f].dev = devList[k]

OthersFree(t) == \A f \in Fds : f > 2 => t[f] = NoEntry

HeldOpen == \A f \in Fds : fdList[f].dev # NoNode <=> f \in Std \union held
OnConsole ==
    stage \in {"main", "exited"} /\ FindDev(Console) # NoNode
      /\ "open" \notin Has[FindDev(Console)]
       => \A f \in Std : fdList[f].dev = FindDev(Console)
Booting ==
    stage \in {"boot", "redirect"} =>
        /\ OthersFree(fdList) /\ held = {}
        /\ \A f \in Fds : fdList[f].flags = {}

Pool(t, top) == Tidy(t) /\ HighAt(t, top) /\ LockAt(t, top) /\ DevAt(t)
FileInv == TypeOK /\ Pool(fdList, maxFd) /\ HeldOpen /\ OnConsole /\ Booting

LEMMA Standard == Std \subseteq Fds /\ \A f \in Fds : f \in Std <=> ~(f > 2)
BY FileAssumption DEF Std, Fds

(* The properties.                                                         *)
LEMMA FileInvGives == FileInv => PoolInv /\ OpenAsHeld
<1> SUFFICES ASSUME FileInv PROVE PoolInv /\ OpenAsHeld
  OBVIOUS
<1>1. PoolInv
  BY DEF FileInv, PoolInv, HighWater, Pool, HighAt, IsOpen
<1>2. OpenAsHeld
  BY DEF FileInv, OpenAsHeld, HeldOpen, OnConsole, IsOpen
<1> QED BY <1>1, <1>2

LEMMA LocksGive == FileInv => OneHolder
<1> SUFFICES ASSUME FileInv, NEW d \in Nodes PROVE Cardinality(Holders(d)) <= 1
  BY DEF OneHolder
<1>1. \A f, g \in Holders(d) : f = g
  BY DEF FileInv, Pool, LockAt, Holders, Users
<1>2. CASE Holders(d) = {}
  BY <1>2, FS_EmptySet
<1>3. CASE Holders(d) # {}
  <2>1. PICK f \in Holders(d) : TRUE
    BY <1>3
  <2>2. Holders(d) = {f}
    BY <1>1, <2>1
  <2>3. Cardinality({f}) = 1
    BY FS_Singleton
  <2> QED BY <2>2, <2>3
<1> QED BY <1>2, <1>3

LEMMA InitFiles == Init => FileInv
<1> SUFFICES ASSUME Init PROVE FileInv
  OBVIOUS
<1> USE FileAssumption, Standard DEF Init
<1>1. /\ NoEntry \in Entries /\ [NoEntry EXCEPT !.dev = Null] \in Entries
      /\ NoEntry.dev = NoNode /\ NoEntry.flags = {}
      /\ [NoEntry EXCEPT !.dev = Null].dev = Null
      /\ [NoEntry EXCEPT !.dev = Null].flags = {}
  BY DEF NoEntry, Entries, Modes
<1>2. \A f \in Fds : fdList[f] = IF f \in Std THEN [NoEntry EXCEPT !.dev = Null] ELSE NoEntry
  OBVIOUS
<1>3. TypeOK
  <2>1. << >> \in Seq(Nodes) /\ <<Null>> \in Seq(Nodes)
    OBVIOUS
  <2>2. fdList \in [Fds -> Entries]
    BY <1>1
  <2>3. maxFd \in -1 .. MaxFd - 1
    OBVIOUS
  <2> QED BY <2>1, <2>2, <2>3 DEF TypeOK
<1>4. Tidy(fdList)
  BY <1>1, <1>2, <1>3 DEF Tidy, TypeOK
<1>5. HighAt(fdList, maxFd) /\ LockAt(fdList, maxFd) /\ DevAt(fdList)
  BY <1>1, <1>2 DEF HighAt, LockAt, DevAt
<1>6. HeldOpen /\ OnConsole /\ Booting
  BY <1>1, <1>2 DEF HeldOpen, OnConsole, Booting, OthersFree
<1> QED BY <1>3, <1>4, <1>5, <1>6 DEF FileInv, Pool

-----------------------------------------------------------------------------
(* alt_main.                                                               *)
LEMMA InsertedNodes ==
    ASSUME NEW list \in Seq(Nodes), NEW nodes \in Seq(Nodes)
    PROVE  Inserted(list, nodes) \in Seq(Nodes)
<1> DEFINE back == [k \in 1 .. Len(nodes) |-> nodes[Len(nodes) + 1 - k]]
<1>1. Len(nodes) \in Nat /\ \A k \in 1 .. Len(nodes) : nodes[Len(nodes) + 1 - k] \in Nodes
  OBVIOUS
<1>2. back \in Seq(Nodes)
  BY <1>1, SeqDef
<1> HIDE DEF back
<1>3. back \o list \in Seq(Nodes)
  BY <1>2
<1> QED BY <1>3 DEF Inserted, back

LEMMA SysInitKeeps == ASSUME FileInv, SysInit PROVE FileInv'
<1>1. /\ stage = "boot" /\ stage' = "redirect"
      /\ UNCHANGED <<fdList, maxFd, result, held>>
  BY DEF SysInit, pool
<1>2. TypeOK'
  BY <1>1, InsertedNodes, FileAssumption DEF SysInit, FileInv, TypeOK
<1>3. \A f \in Fds : fdList[f].flags = {}
  BY <1>1 DEF FileInv, Booting
<1>4. Pool(fdList, maxFd)'
  BY <1>1, <1>3 DEF FileInv, Pool, DevAt, Tidy, HighAt, LockAt
<1>5. HeldOpen' /\ OnConsole' /\ Booting'
  BY <1>1 DEF FileInv, HeldOpen, OnConsole, Booting, OthersFree
<1> QED BY <1>2, <1>4, <1>5 DEF FileInv

(* What holds of the table all through alt_io_redirect.                    *)
Early(t, top) == Pool(t, top) /\ top \in -1 .. MaxFd - 1 /\ NoLocks(t) /\ OthersFree(t)

LEMMA RedirectEffect ==
    ASSUME NEW p, p = [table |-> p.table, top |-> p.top], Early(p.table, p.top),
           NEW std \in Std, NEW mode \in Modes, NEW works \in BOOLEAN,
           devList \in Seq(Nodes), fsList \in Seq(Nodes),
           NEW q, q = Redirected(p, std, mode, works)
    PROVE  /\ q = [table |-> q.table, top |-> q.top]
           /\ Early(q.table, q.top)
           /\ \A f \in Fds \ {std} : q.table[f] = p.table[f]
           /\ FindDev(Console) # NoNode /\ "open" \notin Has[FindDev(Console)]
                => q.table[std].dev = FindDev(Console)
<1> DEFINE t == p.table
           arg == [mode |-> mode, nb |-> {}]
           o == OpenResult(t, p.top, Console, arg, works)
<1>1. Tidy(t) /\ p.top \in -1 .. MaxFd - 1 /\ NoLocks(t) /\ OthersFree(t)
  BY DEF Early, Pool
<1>2. arg \in Flags /\ o = OpenResult(t, p.top, Console, arg, works)
  BY DEF Flags
<1> HIDE DEF o, arg
<1>3. /\ o.top \in -1 .. MaxFd - 1 /\ o.top >= p.top
      /\ o.top = p.top \/ o.top > 2
      /\ o.is # "ok" => o.table = t
      /\ o.is = "ok" => \E f \in Fds, e \in Entries : Fills(t, o, Console, f, e)
      /\ FindDev(Console) # NoNode /\ "open" \notin Has[FindDev(Console)]
           /\ Free(t) # {} /\ NoLocks(t) => o.is = "ok"
  <2>1. Opened(t, p.top, Console, o)
    BY <1>1, <1>2, OpenEffect
  <2> QED BY <2>1 DEF Opened
<1>4. Free(t) # {}
  <2>1. 3 \in Fds /\ 3 > 2
    BY FileAssumption DEF Fds
  <2> QED BY <1>1, <2>1 DEF Free, OthersFree, NoEntry
<1>5. q = IF o.is = "ok"
          THEN [table |-> Release([o.table EXCEPT ![std] = o.table[o.fd]], o.fd),
                top |-> o.top]
          ELSE [table |-> o.table, top |-> o.top]
  BY DEF Redirected, o, arg
<1>6. std \in Fds /\ ~(std > 2)
  BY Standard
<1>7. CASE o.is # "ok"
  <2>1. q = [table |-> t, top |-> o.top] /\ q.table = t /\ q.top = o.top
    BY <1>3, <1>5, <1>7
  <2>2. HighAt(t, o.top)
    <3>1. \A f \in Fds : f \in Std <=> ~(f > 2)
      BY Standard
    <3>2. \A f \in Fds : f \in Nat
      BY FileAssumption DEF Fds
    <3>3. HighAt(t, p.top) /\ p.top \in Int /\ o.top \in Int
      BY <1>1, <1>3, FileAssumption DEF Early, Pool
    <3> QED BY <1>3, <3>1, <3>2, <3>3 DEF HighAt
  <2>3. LockAt(t, o.top)
    BY <1>1 DEF LockAt, NoLocks
  <2>4. Early(q.table, q.top)
    BY <1>1, <1>3, <2>1, <2>2, <2>3 DEF Early, Pool
  <2>5. ~(FindDev(Console) # NoNode /\ "open" \notin Has[FindDev(Console)])
    BY <1>1, <1>3, <1>4, <1>7
  <2> QED BY <2>1, <2>4, <2>5
<1>8. CASE o.is = "ok"
  <2>1. PICK f \in Fds, e \in Entries : Fills(t, o, Console, f, e)
    BY <1>3, <1>8
  <2>2. /\ o.fd = f /\ f > 2 /\ t[f].dev = NoNode /\ f <= o.top
        /\ o.table = [t EXCEPT ![f] = e] /\ e.dev # NoNode /\ "excl" \notin e.flags
    BY <2>1 DEF Fills
  <2> DEFINE u == [t EXCEPT ![std] = e]
  <2>3. t \in [Fds -> Entries] /\ t[f] = NoEntry
    BY <1>1, <2>2 DEF Tidy
  <2>4. q.table = u /\ q.top = o.top /\ q = [table |-> q.table, top |-> q.top]
    <3>1. Release([o.table EXCEPT ![std] = o.table[o.fd]], o.fd)
             = [[o.table EXCEPT ![std] = o.table[f]] EXCEPT ![f] = NoEntry]
      BY <2>2 DEF Release
    <3>2. [[o.table EXCEPT ![std] = o.table[f]] EXCEPT ![f] = NoEntry] = u
      <4>1. f # std
        BY <1>6, <2>2
      <4> QED BY <1>6, <2>2, <2>3, <4>1
    <3> QED BY <1>5, <1>8, <3>1, <3>2
  <2>5. /\ u \in [Fds -> Entries] /\ u[std] = e
        /\ \A g \in Fds \ {std} : u[g] = t[g]
    BY <1>6, <2>3
  <2> HIDE DEF u
  <2>6. Tidy(u) /\ NoLocks(u) /\ OthersFree(u)
    BY <1>1, <1>6, <2>2, <2>5 DEF Tidy, NoLocks, OthersFree
  <2>7. LockAt(u, o.top)
    BY <2>6 DEF LockAt, NoLocks
  <2>8. HighAt(u, o.top)
    <3>1. \A g \in Fds : (g \in Std <=> ~(g > 2)) /\ g \in Nat
      BY Standard, FileAssumption DEF Fds
    <3>2. o.top \in Int /\ o.top > 2
      BY <1>3, <2>2, <3>1, FileAssumption
    <3>3. \A g \in Fds : u[g].dev # NoNode => ~(g > 2)
      BY <2>6 DEF OthersFree, NoEntry
    <3> QED BY <3>1, <3>2, <3>3 DEF HighAt
  <2>9. DevAt(u)
    <3>1. "dev" \in e.flags => \E k \in DOMAIN devList : e.dev = devList[k]
      BY <2>1, FindsNodes DEF Fills
    <3>2. DevAt(t)
      BY DEF Early, Pool
    <3> QED BY <2>5, <3>1, <3>2 DEF DevAt
  <2>10. FindDev(Console) # NoNode => e.dev = FindDev(Console)
    BY <2>1 DEF Fills
  <2>11. Early(u, o.top)
    BY <1>3, <2>6, <2>7, <2>8, <2>9 DEF Early, Pool
  <2> QED BY <2>4, <2>5, <2>10, <2>11
<1> QED BY <1>7, <1>8

LEMMA IoRedirectKeeps ==
    ASSUME FileInv, IoRedirect PROVE FileInv' /\ NoLocks(fdList')
<1>1. PICK works \in BOOLEAN :
        LET out == Redirected([table |-> fdList, top |-> maxFd], 1, "w", works)
            in  == Redirected(out, 0, "r", works)
            err == Redirected(in, 2, "w", works)
        IN fdList' = err.table /\ maxFd' = err.top
  BY DEF IoRedirect
<1> DEFINE p   == [table |-> fdList, top |-> maxFd]
           out == Redirected(p, 1, "w", works)
           in  == Redirected(out, 0, "r", works)
           err == Redirected(in, 2, "w", works)
           there == FindDev(Console) # NoNode /\ "open" \notin Has[FindDev(Console)]
<1>2. fdList' = err.table /\ maxFd' = err.top
  BY <1>1
<1>3. /\ stage = "redirect" /\ stage' = "main"
      /\ UNCHANGED <<devList, fsList, result, held>>
  BY DEF IoRedirect, lists
<1>4. p = [table |-> p.table, top |-> p.top] /\ Early(p.table, p.top)
  <2>1. Pool(fdList, maxFd) /\ maxFd \in -1 .. MaxFd - 1 /\ OthersFree(fdList)
    BY <1>3 DEF FileInv, TypeOK, Booting
  <2>2. NoLocks(fdList)
    BY <1>3 DEF FileInv, Booting, NoLocks
  <2> QED BY <2>1, <2>2 DEF Early
<1>5. /\ 0 \in Std /\ 1 \in Std /\ 2 \in Std /\ "w" \in Modes /\ "r" \in Modes
      /\ devList \in Seq(Nodes) /\ fsList \in Seq(Nodes) /\ Std = {0, 1, 2}
  BY DEF Std, Modes, FileInv, TypeOK
<1> HIDE DEF p
<1>6. /\ out = [table |-> out.table, top |-> out.top] /\ Early(out.table, out.top)
      /\ \A f \in Fds \ {1} : out.table[f] = p.table[f]
      /\ there => out.table[1].dev = FindDev(Console)
  BY <1>4, <1>5, RedirectEffect
<1> HIDE DEF out
<1>7. /\ in = [table |-> in.table, top |-> in.top] /\ Early(in.table, in.top)
      /\ \A f \in Fds \ {0} : in.table[f] = out.table[f]
      /\ there => in.table[0].dev = FindDev(Console)
  BY <1>5, <1>6, RedirectEffect
<1> HIDE DEF in
<1>8. /\ Early(err.table, err.top)
      /\ \A f \in Fds \ {2} : err.table[f] = in.table[f]
      /\ there => err.table[2].dev = FindDev(Console)
  BY <1>5, <1>7, RedirectEffect
<1> HIDE DEF err
<1>9. Early(fdList', maxFd')
  BY <1>2, <1>8
<1>10. TypeOK'
  BY <1>3, <1>9 DEF FileInv, TypeOK, Early, Pool, Tidy
<1>11. Pool(fdList, maxFd)'
  <2>1. Pool(fdList', maxFd') <=> Pool(fdList, maxFd)'
    BY <1>3 DEF Pool, Tidy, HighAt, LockAt, DevAt
  <2> QED BY <1>9, <2>1 DEF Early
<1>12. HeldOpen'
  <2>1. held' = {}
    BY <1>3 DEF FileInv, Booting
  <2>2. \A f \in Fds : f > 2 => fdList'[f].dev = NoNode
    BY <1>9 DEF Early, OthersFree, NoEntry
  <2>3. \A f \in Fds : ~(f > 2) => fdList'[f].dev # NoNode
    BY <1>9 DEF Early, Pool, Tidy
  <2> QED BY <2>1, <2>2, <2>3, Standard DEF HeldOpen
<1>13. OnConsole'
  <2>1. FindDev(Console)' = FindDev(Console)
    BY <1>3 DEF FindDev
  <2>2. there => \A f \in Std : fdList'[f].dev = FindDev(Console)
    <3>1. {0, 1, 2} \subseteq Fds
      BY <1>5, Standard
    <3>2. /\ fdList'[2] = err.table[2]
          /\ fdList'[1] = out.table[1] /\ fdList'[0] = in.table[0]
      BY <1>2, <1>7, <1>8, <3>1
    <3> QED BY <1>5, <1>6, <1>7, <1>8, <3>2
  <2> QED BY <2>1, <2>2 DEF OnConsole
<1>14. Booting'
  BY <1>3 DEF Booting
<1>15. NoLocks(fdList')
  BY <1>9 DEF Early
<1> QED BY <1>10, <1>11, <1>12, <1>13, <1>14, <1>15 DEF FileInv

-----------------------------------------------------------------------------
(* The system calls.  None of them changes the lists.                      *)
LEMMA CallsFrame ==
    ASSUME FileInv, Calls
    PROVE  /\ stage = "main" /\ stage' = "main" /\ UNCHANGED <<devList, fsList>>
           /\ FindDev(Console)' = FindDev(Console)
           /\ Booting'
           /\ \A t, top : Pool(t, top)' <=> Pool(t, top)
<1>1. stage = "main" /\ stage' = "main" /\ UNCHANGED <<devList, fsList>>
  BY DEF Calls, lists
<1> QED BY <1>1 DEF FindDev, Booting, Pool, Tidy, HighAt, LockAt, DevAt

LEMMA OpenKeeps ==
    ASSUME FileInv, NEW name \in Names, NEW arg \in OpenArgs, NEW works \in BOOLEAN,
           Open(name, arg, works)
    PROVE  FileInv'
<1> DEFINE o == OpenResult(fdList, maxFd, name, arg, works)
<1>1. /\ Calls /\ fdList' = o.table /\ maxFd' = o.top /\ result' = o.is
      /\ held' = IF o.is = "ok" THEN held \union {o.fd} ELSE held
  BY DEF Open
<1>2. /\ stage = "main" /\ stage' = "main" /\ UNCHANGED <<devList, fsList>>
      /\ FindDev(Console)' = FindDev(Console) /\ Booting'
  BY <1>1, CallsFrame
<1>3. Opened(fdList, maxFd, name, o)
  <2>1. arg \in Flags
    BY FileAssumption
  <2>2. Tidy(fdList) /\ maxFd \in -1 .. MaxFd - 1 /\ devList \in Seq(Nodes)
        /\ fsList \in Seq(Nodes)
    BY DEF FileInv, Pool, TypeOK
  <2> QED BY <2>1, <2>2, OpenEffect
<1> HIDE DEF o
<1>4. maxFd \in Int /\ o.top \in Int /\ Tidy(fdList) /\ HighAt(fdList, maxFd)
      /\ LockAt(fdList, maxFd) /\ DevAt(fdList)
  BY <1>3, FileAssumption DEF Opened, FileInv, TypeOK, Pool
<1>5. \A f \in Fds : f \in Nat /\ (f \in Std <=> ~(f > 2))
  BY Standard, FileAssumption DEF Fds
<1>6. CASE o.is # "ok"
  <2>1. fdList' = fdList /\ held' = held /\ (maxFd' = maxFd \/ maxFd' > 2) /\ maxFd' >= maxFd
    BY <1>1, <1>3, <1>6 DEF Opened
  <2>2. TypeOK'
    BY <1>1, <1>2, <1>3, <2>1 DEF FileInv, TypeOK, Opened
  <2>3. HighAt(fdList, maxFd')
    BY <1>1, <1>4, <1>5, <2>1 DEF HighAt
  <2>4. LockAt(fdList, maxFd')
    BY <1>1, <1>4, <1>5, <2>1 DEF LockAt
  <2>5. Pool(fdList, maxFd)'
    BY <1>2, <1>4, <2>1, <2>3, <2>4 DEF Pool, Tidy, HighAt, LockAt, DevAt
  <2>6. HeldOpen' /\ OnConsole'
    BY <1>2, <2>1 DEF FileInv, HeldOpen, OnConsole
  <2> QED BY <1>2, <2>2, <2>5, <2>6 DEF FileInv
<1>7. CASE o.is = "ok"
  <2>1. PICK f \in Fds, e \in Entries : Fills(fdList, o, name, f, e)
    BY <1>3, <1>7 DEF Opened
  <2>2. /\ f > 2 /\ fdList[f].dev = NoNode /\ f <= maxFd' /\ maxFd' >= maxFd
        /\ fdList' = [fdList EXCEPT ![f] = e] /\ held' = held \union {f}
        /\ e.dev # NoNode /\ "excl" \notin e.flags
    BY <1>1, <1>3, <1>7, <2>1 DEF Fills, Opened
  <2>3. /\ fdList \in [Fds -> Entries] /\ fdList' \in [Fds -> Entries] /\ fdList'[f] = e
        /\ \A g \in Fds \ {f} : fdList'[g] = fdList[g]
    <3>1. fdList \in [Fds -> Entries]
      BY <1>4 DEF Tidy
    <3> QED BY <2>2, <3>1
  <2>4. TypeOK'
    BY <1>1, <1>2, <1>3, <2>2, <2>3 DEF FileInv, TypeOK, Opened
  <2>5. Tidy(fdList')
    BY <1>4, <2>2, <2>3 DEF Tidy
  <2>6. HighAt(fdList', maxFd')
    <3>1. maxFd' > 2 /\ maxFd' \in Int
      BY <1>1, <1>4, <1>5, <2>2
    <3>2. \A g \in Fds : fdList'[g].dev # NoNode => g <= maxFd'
      <4> SUFFICES ASSUME NEW g \in Fds, fdList'[g].dev # NoNode PROVE g <= maxFd'
        OBVIOUS
      <4>1. CASE g = f
        BY <2>2, <4>1
      <4>2. CASE g # f
        <5>1. g <= maxFd \/ ~(g > 2)
          BY <1>4, <1>5, <2>3, <4>2 DEF HighAt
        <5> QED BY <1>4, <1>5, <2>2, <3>1, <5>1
      <4> QED BY <4>1, <4>2
    <3> QED BY <3>2 DEF HighAt
  <2>7. LockAt(fdList', maxFd')
    <3> SUFFICES ASSUME NEW h \in Fds, "excl" \in fdList'[h].flags
                 PROVE  /\ "dev" \in fdList'[h].flags
                        /\ \A g \in Fds \ {h} :
                             fdList'[g].dev = fdList'[h].dev /\ "dev" \in fdList'[g].flags
                                => h < maxFd' /\ "excl" \notin fdList'[g].flags
      BY DEF LockAt
    <3>1. h # f /\ fdList'[h] = fdList[h] /\ "excl" \in fdList[h].flags
      BY <2>2, <2>3
    <3>2. "dev" \in fdList[h].flags
      BY <1>4, <3>1 DEF LockAt
    <3>3. ASSUME NEW g \in Fds \ {h}, fdList'[g].dev = fdList'[h].dev,
                 "dev" \in fdList'[g].flags
          PROVE  h < maxFd' /\ "excl" \notin fdList'[g].flags
      <4>1. CASE g # f
        <5>1. h < maxFd /\ "excl" \notin fdList[g].flags
          BY <1>4, <2>3, <3>1, <3>3, <4>1 DEF LockAt
        <5> QED BY <1>1, <1>4, <1>5, <2>2, <2>3, <4>1, <5>1
      <4>2. CASE g = f
        <5>1. fdList[h].dev = e.dev /\ "dev" \in e.flags
          BY <2>3, <3>1, <3>3, <4>2
        <5>2. h <= maxFd
          <6>1. fdList[h].dev # NoNode
            BY <2>2, <5>1
          <6> QED BY <1>4, <3>2, <6>1 DEF HighAt
        <5>3. h <= o.top
          BY <1>1, <1>4, <1>5, <2>2, <5>2
        <5>4. "excl" \notin fdList[h].flags
          BY <2>1, <3>1, <5>1, <5>3 DEF Fills
        <5> QED BY <3>1, <5>4
      <4> QED BY <4>1, <4>2
    <3> QED BY <3>1, <3>2, <3>3
  <2>8. DevAt(fdList')
    <3>1. "dev" \in e.flags => \E k \in DOMAIN devList : e.dev = devList[k]
      <4>1. devList \in Seq(Nodes) /\ fsList \in Seq(Nodes)
        BY DEF FileInv, TypeOK
      <4> QED BY <2>1, <4>1, FindsNodes DEF Fills
    <3> QED BY <1>4, <2>3, <3>1 DEF DevAt
  <2>9. Pool(fdList, maxFd)'
    BY <1>2, <2>5, <2>6, <2>7, <2>8 DEF Pool, Tidy, HighAt, LockAt, DevAt
  <2>10. HeldOpen'
    BY <2>2, <2>3 DEF FileInv, HeldOpen
  <2>11. OnConsole'
    <3>1. \A g \in Std : g \in Fds /\ g # f
      BY <1>5, <2>2, Standard
    <3> QED BY <1>2, <2>3, <3>1 DEF FileInv, OnConsole
  <2> QED BY <1>2, <2>4, <2>9, <2>10, <2>11 DEF FileInv
<1> QED BY <1>6, <1>7

LEMMA CloseKeeps ==
    ASSUME FileInv, NEW f \in Fds, NEW works \in BOOLEAN, Close(f, works)
    PROVE  FileInv'
<1>1. /\ Calls /\ fdList' = Release(fdList, f) /\ held' = held \ {f} /\ maxFd' = maxFd
      /\ result' \in {"EIO", "ok"}
  BY DEF Close
<1>2. /\ stage = "main" /\ stage' = "main" /\ UNCHANGED <<devList, fsList>>
      /\ FindDev(Console)' = FindDev(Console) /\ Booting'
  BY <1>1, CallsFrame
<1>3. /\ fdList \in [Fds -> Entries] /\ fdList' \in [Fds -> Entries]
      /\ \A g \in Fds : fdList'[g] = IF g = f /\ f > 2 THEN NoEntry ELSE fdList[g]
  <2>1. fdList \in [Fds -> Entries]
    BY DEF FileInv, TypeOK
  <2>2. NoEntry \in Entries
    BY DEF NoEntry, Entries, Modes
  <2> QED BY <1>1, <2>1, <2>2 DEF Release
<1>4. NoEntry.dev = NoNode /\ NoEntry.flags = {}
  BY DEF NoEntry
<1>5. TypeOK'
  BY <1>1, <1>2, <1>3 DEF FileInv, TypeOK, Errors
<1>6. Tidy(fdList') /\ HighAt(fdList', maxFd) /\ LockAt(fdList', maxFd) /\ DevAt(fdList')
  <2>1. Tidy(fdList')
    BY <1>3, <1>4 DEF FileInv, Pool, Tidy
  <2>2. HighAt(fdList', maxFd)
    BY <1>3, <1>4 DEF FileInv, Pool, HighAt
  <2>3. LockAt(fdList', maxFd)
    BY <1>3, <1>4 DEF FileInv, Pool, LockAt
  <2>4. DevAt(fdList')
    BY <1>3, <1>4 DEF FileInv, Pool, DevAt
  <2> QED BY <2>1, <2>2, <2>3, <2>4
<1>7. Pool(fdList, maxFd)'
  BY <1>1, <1>2, <1>6 DEF Pool, Tidy, HighAt, LockAt, DevAt
<1>8. HeldOpen' /\ OnConsole'
  <2>1. \A g \in Fds : g \in Std <=> ~(g > 2)
    BY Standard
  <2>2. HeldOpen'
    BY <1>1, <1>3, <1>4, <2>1 DEF FileInv, HeldOpen
  <2>3. OnConsole'
    BY <1>2, <1>3, <2>1, Standard DEF FileInv, OnConsole
  <2> QED BY <2>2, <2>3
<1> QED BY <1>2, <1>5, <1>7, <1>8 DEF FileInv

(* A change of one descriptor's flags, the others and the mark as before.  *)
Marks(f, F) ==
    /\ fdList' = [fdList EXCEPT ![f].flags = F]
    /\ F \subseteq {"excl", "dev", "nonblock"}
    /\ "dev" \in F <=> "dev" \in fdList[f].flags
    /\ UNCHANGED <<maxFd, held>> /\ result' \in Errors \union {"ok"}

LEMMA MarksKeeps ==
    ASSUME FileInv, NEW f \in Fds, NEW F, Calls, IsOpen(f), Marks(f, F),
           "excl" \in F => "excl" \in fdList[f].flags \/ ("dev" \in F /\ Alone(f))
    PROVE  FileInv'
<1>1. /\ stage = "main" /\ stage' = "main" /\ UNCHANGED <<devList, fsList>>
      /\ FindDev(Console)' = FindDev(Console) /\ Booting'
  BY CallsFrame
<1>2. /\ fdList \in [Fds -> Entries] /\ fdList' \in [Fds -> Entries]
      /\ \A g \in Fds : fdList'[g].dev = fdList[g].dev
      /\ fdList'[f].flags = F /\ \A g \in Fds \ {f} : fdList'[g] = fdList[g]
  <2>1. fdList \in [Fds -> Entries]
    BY DEF FileInv, TypeOK
  <2>2. [fdList[f] EXCEPT !.flags = F] \in Entries
        /\ [fdList[f] EXCEPT !.flags = F].dev = fdList[f].dev
        /\ [fdList[f] EXCEPT !.flags = F].flags = F
    BY <2>1 DEF Entries, Marks
  <2>3. fdList' = [fdList EXCEPT ![f] = [fdList[f] EXCEPT !.flags = F]]
    BY DEF Marks
  <2> QED BY <2>1, <2>2, <2>3
<1>3. maxFd' = maxFd /\ held' = held /\ maxFd \in Int
  BY FileAssumption DEF Marks, FileInv, TypeOK
<1>4. TypeOK'
  BY <1>1, <1>2, <1>3 DEF FileInv, TypeOK, Marks
<1>5. Tidy(fdList')
  <2>1. fdList[f].dev # NoNode
    BY DEF IsOpen
  <2> QED BY <1>2, <2>1 DEF FileInv, Pool, Tidy
<1>6. \A g \in Fds : "dev" \in fdList'[g].flags <=> "dev" \in fdList[g].flags
  BY <1>2 DEF Marks
<1>7. HighAt(fdList', maxFd) /\ DevAt(fdList')
  BY <1>2, <1>6 DEF FileInv, Pool, HighAt, DevAt
<1>8. \A g \in Fds : g \in Int
  BY FileAssumption DEF Fds
<1>9. LockAt(fdList, maxFd) /\ HighAt(fdList, maxFd)
  BY DEF FileInv, Pool
\* Where the mark is, if the descriptor is alone below it.
<1>10. ASSUME Alone(f), "dev" \in fdList[f].flags, NEW g \in Fds \ {f},
              fdList[g].dev = fdList[f].dev, "dev" \in fdList[g].flags
       PROVE  g = maxFd /\ f < maxFd /\ "excl" \notin fdList[g].flags
  <2>1. fdList[f].dev # NoNode /\ fdList[g].dev # NoNode
    BY <1>10 DEF IsOpen
  <2>2. g <= maxFd /\ f <= maxFd
    BY <1>9, <1>10, <2>1 DEF HighAt
  <2>3. ~(g < maxFd)
    BY <1>10 DEF Alone
  <2>4. g = maxFd /\ f < maxFd
    BY <1>3, <1>8, <1>10, <2>2, <2>3
  <2>5. "excl" \notin fdList[g].flags
    <3>1. SUFFICES ASSUME "excl" \in fdList[g].flags PROVE FALSE
      OBVIOUS
    <3>2. g < maxFd
      BY <1>9, <1>10, <3>1 DEF LockAt
    <3> QED BY <2>3, <3>2
  <2> QED BY <2>4, <2>5
<1>11. LockAt(fdList', maxFd)
  <2> SUFFICES ASSUME NEW h \in Fds, "excl" \in fdList'[h].flags
               PROVE  /\ "dev" \in fdList'[h].flags
                      /\ \A g \in Fds \ {h} :
                           fdList'[g].dev = fdList'[h].dev /\ "dev" \in fdList'[g].flags
                              => h < maxFd /\ "excl" \notin fdList'[g].flags
    BY DEF LockAt
  <2>1. CASE "excl" \in fdList[h].flags
    <3>1. "dev" \in fdList[h].flags
      BY <1>9, <2>1 DEF LockAt
    <3>2. ASSUME NEW g \in Fds \ {h}, fdList[g].dev = fdList[h].dev,
                 "dev" \in fdList[g].flags
          PROVE  h < maxFd /\ "excl" \notin fdList'[g].flags
      <4>1. h < maxFd /\ "excl" \notin fdList[g].flags
        BY <1>9, <2>1, <3>2 DEF LockAt
      <4>2. CASE g # f
        BY <1>2, <4>1, <4>2
      <4>3. CASE g = f
        <5>1. SUFFICES ASSUME "excl" \in F PROVE FALSE
          BY <1>2, <4>1, <4>3
        <5>2. Alone(f) /\ "dev" \in fdList[f].flags
          BY <4>1, <4>3, <5>1 DEF Marks
        <5>3. h = maxFd
          BY <1>10, <3>1, <3>2, <4>3, <5>2
        <5> QED BY <1>3, <4>1, <5>3
      <4> QED BY <4>1, <4>2, <4>3
    <3> QED BY <1>2, <1>6, <3>1, <3>2
  <2>2. CASE "excl" \notin fdList[h].flags
    <3>1. h = f /\ "excl" \in F
      BY <1>2, <2>2
    <3>2. "dev" \in F /\ Alone(f) /\ "dev" \in fdList[f].flags
      BY <2>2, <3>1 DEF Marks
    <3> QED BY <1>2, <1>6, <1>10, <3>1, <3>2
  <2> QED BY <2>1, <2>2
<1>12. Pool(fdList, maxFd)'
  BY <1>1, <1>3, <1>5, <1>7, <1>11 DEF Pool, Tidy, HighAt, LockAt, DevAt
<1>13. HeldOpen' /\ OnConsole'
  <2>1. Std \subseteq Fds
    BY Standard
  <2> QED BY <1>1, <1>2, <1>3, <2>1 DEF FileInv, HeldOpen, OnConsole
<1> QED BY <1>1, <1>4, <1>12, <1>13 DEF FileInv

LEMMA EntryFlags ==
    ASSUME FileInv, NEW f \in Fds PROVE fdList[f].flags \subseteq {"excl", "dev", "nonblock"}
BY DEF FileInv, TypeOK, Entries

LEMMA StaysKeeps ==
    ASSUME FileInv, Calls, UNCHANGED <<fdList, maxFd, held>>, result' \in Errors \union {"ok"}
    PROVE  FileInv'
<1>1. /\ stage = "main" /\ stage' = "main" /\ UNCHANGED <<devList, fsList>>
      /\ FindDev(Console)' = FindDev(Console) /\ Booting'
  BY CallsFrame
<1> QED BY <1>1 DEF FileInv, TypeOK, Pool, Tidy, HighAt, LockAt, DevAt, HeldOpen, OnConsole

LEMMA ExcludeKeeps == ASSUME FileInv, NEW f \in Fds, Exclude(f) PROVE FileInv'
<1>1. Calls /\ IsOpen(f) /\ "dev" \in fdList[f].flags /\ UNCHANGED <<maxFd, held>>
  BY DEF Exclude
<1>2. CASE Alone(f) /\ result' = "ok"
           /\ fdList' = [fdList EXCEPT ![f].flags = fdList[f].flags \union {"excl"}]
  <2>1. Marks(f, fdList[f].flags \union {"excl"})
    BY <1>1, <1>2, EntryFlags DEF Marks
  <2> QED BY <1>1, <1>2, <2>1, MarksKeeps
<1>3. CASE result' = "EACCES" /\ UNCHANGED fdList
  BY <1>1, <1>3, StaysKeeps DEF Errors
<1> QED BY <1>2, <1>3 DEF Exclude

LEMMA ShareKeeps == ASSUME FileInv, NEW f \in Fds, Share(f) PROVE FileInv'
<1>1. Marks(f, fdList[f].flags \ {"excl"}) /\ Calls /\ IsOpen(f)
  BY EntryFlags DEF Share, Marks
<1> QED BY <1>1, MarksKeeps

LEMMA SetFlagsKeeps ==
    ASSUME FileInv, NEW f \in Fds, NEW nb \in FlagArgs, SetFlags(f, nb) PROVE FileInv'
<1> DEFINE F == (fdList[f].flags \ {"nonblock"}) \union nb
<1>1. nb \subseteq {"nonblock"}
  BY FileAssumption
<1>2. Marks(f, F) /\ Calls /\ IsOpen(f)
  BY <1>1, EntryFlags DEF SetFlags, Marks
<1>3. "excl" \in F => "excl" \in fdList[f].flags
  BY <1>1
<1> QED BY <1>2, <1>3, MarksKeeps

LEMMA OtherKeeps ==
    ASSUME FileInv, NEW f \in Fds, NEW works \in BOOLEAN,
           NEW op \in {"read", "write", "ioctl", "lseek", "fstat"}, Other(f, op, works)
    PROVE  FileInv'
<1>1. result' \in Errors \union {"ok"}
  <2>1. Refused(f, op) \in Errors \union {"ok"}
    BY DEF Refused, Errors
  <2> QED BY <2>1 DEF Other, Errors
<1> QED BY <1>1, StaysKeeps DEF Other, pool

LEMMA ReturnKeeps == ASSUME FileInv, Return PROVE FileInv'
<1>1. stage = "main" /\ stage' = "exited" /\ UNCHANGED <<devList, fsList, maxFd, result, held>>
  BY DEF Return, lists
<1>2. fdList' = fdList
  BY DEF Return, Release
<1>3. FindDev(Console)' = FindDev(Console)
  BY <1>1 DEF FindDev
<1> QED BY <1>1, <1>2, <1>3 DEF FileInv, TypeOK, Pool, Tidy, HighAt, LockAt, DevAt, HeldOpen,
           OnConsole, Booting

LEMMA FileStep == FileInv /\ [Next]_vars => FileInv'
<1> SUFFICES ASSUME FileInv, [Next]_vars PROVE FileInv'
  OBVIOUS
<1>1. CASE UNCHANGED vars
  <2>1. UNCHANGED <<stage, devList, fsList, fdList, maxFd, result, held>>
    BY <1>1 DEF vars, lists, pool
  <2>2. FindDev(Console)' = FindDev(Console)
    BY <2>1 DEF FindDev
  <2> QED BY <2>1, <2>2 DEF FileInv, TypeOK, Pool, Tidy, HighAt, LockAt, DevAt, HeldOpen,
             OnConsole, Booting
<1>2. CASE BadFd
  BY <1>2, StaysKeeps DEF BadFd, pool, Errors
<1>3. CASE Next
  BY <1>1, <1>2, <1>3, SysInitKeeps, IoRedirectKeeps, ReturnKeeps, OpenKeeps, ExcludeKeeps,
     ShareKeeps, CloseKeeps, SetFlagsKeeps, OtherKeeps DEF Next, Spin
<1> QED BY <1>1, <1>3

-----------------------------------------------------------------------------
(* Locks keep others out.  No file system is a device.                     *)
Apart == \A j \in DOMAIN devList, k \in DOMAIN fsList : devList[j] # fsList[k]

LEMMA InsertedMembers ==
    ASSUME NEW list \in Seq(Nodes), NEW nodes \in Seq(Nodes),
           NEW k \in DOMAIN Inserted(list, nodes)
    PROVE  \/ \E i \in DOMAIN list : Inserted(list, nodes)[k] = list[i]
           \/ \E i \in DOMAIN nodes : Inserted(list, nodes)[k] = nodes[i]
<1> DEFINE n == Len(nodes)
           back == [i \in 1 .. n |-> nodes[n + 1 - i]]
<1>1. n \in Nat /\ DOMAIN nodes = 1 .. n /\ Len(list) \in Nat /\ DOMAIN list = 1 .. Len(list)
  OBVIOUS
<1>2. back \in Seq(Nodes) /\ Len(back) = n
  <2>1. \A i \in 1 .. n : nodes[n + 1 - i] \in Nodes
    BY <1>1
  <2> QED BY <1>1, <2>1, SeqDef
<1>3. Inserted(list, nodes) = back \o list
  BY DEF Inserted
<1>4. \A i \in 1 .. n : back[i] = nodes[n + 1 - i] /\ n + 1 - i \in DOMAIN nodes
  BY <1>1
<1> HIDE DEF back, n
<1>5. /\ k \in 1 .. n + Len(list)
      /\ (back \o list)[k] = IF k <= n THEN back[k] ELSE list[k - n]
  BY <1>1, <1>2, <1>3
<1>6. CASE k <= n
  <2>1. k \in 1 .. n
    BY <1>1, <1>5, <1>6
  <2>2. Inserted(list, nodes)[k] = nodes[n + 1 - k] /\ n + 1 - k \in DOMAIN nodes
    BY <1>3, <1>4, <1>5, <1>6, <2>1
  <2> QED BY <2>2
<1>7. CASE ~(k <= n)
  <2>1. k - n \in DOMAIN list
    BY <1>1, <1>5, <1>7
  <2> QED BY <1>3, <1>5, <1>7, <2>1
<1> QED BY <1>6, <1>7

Lists == IF stage = "boot" THEN devList = <<Null>> /\ fsList = << >> ELSE Apart

LEMMA ListsInit == Init => Lists
BY DEF Init, Lists

LEMMA ListsStep == TypeOK /\ Lists /\ [Next]_vars => Lists'
<1> SUFFICES ASSUME TypeOK, Lists, [Next]_vars PROVE Lists'
  OBVIOUS
<1>1. CASE SysInit
  <2>1. /\ devList = <<Null>> /\ fsList = << >> /\ stage' = "redirect"
        /\ devList' = Inserted(devList, Devices)
        /\ fsList' = Inserted(fsList, FileSystems)
    BY <1>1 DEF SysInit, Lists
  <2>2. SUFFICES ASSUME NEW a \in DOMAIN devList', NEW b \in DOMAIN fsList'
                 PROVE  devList'[a] # fsList'[b]
    BY <2>1 DEF Lists, Apart
  <2>3. devList \in Seq(Nodes) /\ fsList \in Seq(Nodes)
        /\ Devices \in Seq(Nodes) /\ FileSystems \in Seq(Nodes)
    BY FileAssumption DEF TypeOK
  <2> DEFINE D == Inserted(devList, Devices)
             G == Inserted(fsList, FileSystems)
  <2>6. /\ \A x \in DOMAIN D : \/ \E i \in DOMAIN devList : D[x] = devList[i]
                              \/ \E i \in DOMAIN Devices : D[x] = Devices[i]
        /\ \A x \in DOMAIN G : \/ \E i \in DOMAIN fsList : G[x] = fsList[i]
                              \/ \E i \in DOMAIN FileSystems : G[x] = FileSystems[i]
    <3> HIDE DEF D, G
    <3>1. ASSUME NEW x \in DOMAIN D
          PROVE  \/ \E i \in DOMAIN devList : D[x] = devList[i]
                 \/ \E i \in DOMAIN Devices : D[x] = Devices[i]
      BY <2>3, InsertedMembers DEF D
    <3>2. ASSUME NEW x \in DOMAIN G
          PROVE  \/ \E i \in DOMAIN fsList : G[x] = fsList[i]
                 \/ \E i \in DOMAIN FileSystems : G[x] = FileSystems[i]
      BY <2>3, InsertedMembers DEF G
    <3> QED BY <3>1, <3>2
  <2>7. devList' = D /\ fsList' = G
    BY <2>1
  <2> HIDE DEF D, G
  <2>4. devList'[a] = Null \/ \E j \in DOMAIN Devices : devList'[a] = Devices[j]
    <3>1. \A k \in DOMAIN devList : devList[k] = Null
      BY <2>1
    <3> QED BY <2>2, <2>6, <2>7, <3>1
  <2>5. \E k \in DOMAIN FileSystems : fsList'[b] = FileSystems[k]
    <3>1. \A k \in DOMAIN fsList : FALSE
      BY <2>1
    <3> QED BY <2>2, <2>6, <2>7, <3>1
  <2> QED BY <2>4, <2>5, FileAssumption
<1>2. CASE ~SysInit
  <2>1. UNCHANGED <<devList, fsList>> /\ (stage' = "boot" <=> stage = "boot")
    BY <1>2 DEF Next, IoRedirect, Return, Spin, BadFd, Open, Close, Exclude, Share,
                SetFlags, Other, Calls, lists, vars
  <2> QED BY <2>1 DEF Lists, Apart
<1> QED BY <1>1, <1>2

\* What a step may do to a table.
Kept(t, u) ==
    \A d \in Nodes :
       (\E h \in Fds : t[h].dev = d /\ "excl" \in t[h].flags)
          => \A f \in Fds : u[f].dev = d => t[f].dev = d

LEMMA OpenKept ==
    ASSUME FileInv, Lists, NEW name \in Names, NEW arg \in OpenArgs, NEW works \in BOOLEAN,
           Open(name, arg, works)
    PROVE  Kept(fdList, fdList')
<1> DEFINE o == OpenResult(fdList, maxFd, name, arg, works)
<1>1. Calls /\ fdList' = o.table
  BY DEF Open
<1>2. devList \in Seq(Nodes) /\ fsList \in Seq(Nodes) /\ Tidy(fdList)
      /\ maxFd \in -1 .. MaxFd - 1
  BY DEF FileInv, TypeOK, Pool
<1>3. Opened(fdList, maxFd, name, o)
  <2>1. arg \in Flags
    BY FileAssumption
  <2> QED BY <1>2, <2>1, OpenEffect
<1> HIDE DEF o
<1>4. CASE o.is # "ok"
  BY <1>1, <1>3, <1>4 DEF Opened, Kept
<1>5. CASE o.is = "ok"
  <2>1. PICK f \in Fds, e \in Entries : Fills(fdList, o, name, f, e)
    BY <1>3, <1>5 DEF Opened
  <2>2. /\ fdList'[f] = e /\ \A g \in Fds \ {f} : fdList'[g] = fdList[g]
        /\ e.dev # NoNode /\ "excl" \notin e.flags /\ fdList[f].dev = NoNode
    BY <1>1, <1>2, <2>1 DEF Fills, Tidy
  <2>3. ASSUME NEW h \in Fds, fdList[h].dev = e.dev, "excl" \in fdList[h].flags
        PROVE  FALSE
    <3>1. h # f /\ "dev" \in fdList[h].flags
      BY <2>2, <2>3 DEF FileInv, Pool, LockAt
    <3>2. PICK k \in DOMAIN devList : e.dev = devList[k]
      BY <2>3, <3>1 DEF FileInv, Pool, DevAt
    <3>3. FindDev(name) # NoNode
      <4>1. SUFFICES ASSUME FindDev(name) = NoNode PROVE FALSE
        OBVIOUS
      <4>2. e.dev = FindFile(name)
        BY <2>1, <4>1 DEF Fills
      <4>3. \E i \in DOMAIN fsList : e.dev = fsList[i]
        BY <1>2, <2>2, <4>2, FindsNodes
      <4>4. Apart
        BY <1>1 DEF Lists, Calls
      <4> QED BY <3>2, <4>3, <4>4 DEF Apart
    <3>4. h <= o.top
      <4>1. h <= maxFd
        BY <2>2, <2>3, <3>1 DEF FileInv, Pool, HighAt
      <4>2. h \in Int /\ maxFd \in Int /\ o.top \in Int /\ o.top >= maxFd
        BY <1>2, <1>3, FileAssumption DEF Opened, Fds
      <4> QED BY <4>1, <4>2
    <3> QED BY <2>1, <2>3, <3>1, <3>3, <3>4 DEF Fills
  <2>4. \A d \in Nodes :
          (\E h \in Fds : fdList[h].dev = d /\ "excl" \in fdList[h].flags)
             => \A g \in Fds : fdList'[g].dev = d => fdList[g].dev = d
    BY <2>2, <2>3
  <2> QED BY <2>4 DEF Kept
<1> QED BY <1>4, <1>5

LEMMA CloseKept ==
    ASSUME FileInv, NEW f \in Fds, NEW works \in BOOLEAN, Close(f, works)
    PROVE  Kept(fdList, fdList')
<1>1. \A g \in Fds : fdList'[g] = IF g = f /\ f > 2 THEN NoEntry ELSE fdList[g]
  BY DEF Close, Release, FileInv, TypeOK
<1>2. NoEntry.dev \notin Nodes /\ NoEntry.flags = {}
  BY FileAssumption DEF NoEntry
<1> QED BY <1>1, <1>2 DEF Kept

LEMMA MarksKept ==
    ASSUME FileInv, NEW f \in Fds, NEW F, Marks(f, F)
    PROVE  Kept(fdList, fdList')
<1>1. fdList \in [Fds -> Entries]
  BY DEF FileInv, TypeOK
<1>2. fdList' = [fdList EXCEPT ![f] = [fdList[f] EXCEPT !.flags = F]]
  BY DEF Marks
<1>3. [fdList[f] EXCEPT !.flags = F].dev = fdList[f].dev
  BY <1>1 DEF Entries
<1>4. \A g \in Fds : fdList'[g].dev = fdList[g].dev
  BY <1>1, <1>2, <1>3
<1> QED BY <1>4 DEF Kept

LEMMA NextKept == ASSUME FileInv, Lists, Next PROVE Kept(fdList, fdList')
<1>1. ASSUME fdList' = fdList PROVE Kept(fdList, fdList')
  BY <1>1 DEF Kept
<1>2. CASE IoRedirect
  <2>1. NoLocks(fdList) /\ NoLocks(fdList')
    BY <1>2, IoRedirectKeeps DEF IoRedirect, FileInv, Booting, NoLocks
  <2> QED BY <2>1 DEF NoLocks, Kept
<1>3. ASSUME NEW f \in Fds, Exclude(f) PROVE Kept(fdList, fdList')
  <2>1. CASE UNCHANGED fdList
    BY <1>1, <2>1
  <2>2. CASE Alone(f) /\ result' = "ok"
             /\ fdList' = [fdList EXCEPT ![f].flags = fdList[f].flags \union {"excl"}]
    <3>1. Marks(f, fdList[f].flags \union {"excl"})
      BY <1>3, <2>2, EntryFlags DEF Exclude, Marks
    <3> QED BY <3>1, MarksKept
  <2> QED BY <1>3, <2>1, <2>2 DEF Exclude
<1>4. ASSUME NEW f \in Fds, Share(f) PROVE Kept(fdList, fdList')
  <2>1. Marks(f, fdList[f].flags \ {"excl"})
    BY <1>4, EntryFlags DEF Share, Marks
  <2> QED BY <2>1, MarksKept
<1>5. ASSUME NEW f \in Fds, NEW nb \in FlagArgs, SetFlags(f, nb)
      PROVE  Kept(fdList, fdList')
  <2> DEFINE F == (fdList[f].flags \ {"nonblock"}) \union nb
  <2>1. nb \subseteq {"nonblock"}
    BY FileAssumption
  <2>2. Marks(f, F)
    BY <1>5, <2>1, EntryFlags DEF SetFlags, Marks
  <2> QED BY <2>2, MarksKept
<1>6. CASE SysInit \/ Return \/ Spin \/ BadFd
  <2>1. fdList' = fdList
    BY <1>6 DEF SysInit, Return, Release, Spin, BadFd, pool, vars
  <2> QED BY <1>1, <2>1
<1>7. ASSUME NEW f \in Fds, NEW op \in {"read", "write", "ioctl", "lseek", "fstat"},
             NEW works \in BOOLEAN, Other(f, op, works)
      PROVE  Kept(fdList, fdList')
  BY <1>1, <1>7 DEF Other, pool
<1> QED BY <1>2, <1>3, <1>4, <1>5, <1>6, <1>7, OpenKept, CloseKept DEF Next

-----------------------------------------------------------------------------
(* The results.                                                            *)

(* For every size of pool, all devices and file systems: the table keeps   *)
(* its type and alt_max_fd bounds what is open, as the loops of            *)
(* alt_file_locked and alt_fd_lock take for granted.                       *)
THEOREM PoolCorrect == Spec => []PoolInv
<1> QED BY InitFiles, FileStep, FileInvGives, PTL DEF Spec

(* Nothing leaks: what is open is what open has given and close not taken  *)
(* back, and the standard descriptors, which are the console's.            *)
THEOREM NothingLeaks == Spec => []OpenAsHeld
<1> QED BY InitFiles, FileStep, FileInvGives, PTL DEF Spec

(* A device has one holder at most, though alt_fd_lock does not look at    *)
(* all descriptors (alt_fd_lock.c:61).                                     *)
THEOREM OneHolderOnly == Spec => []OneHolder
<1> QED BY InitFiles, FileStep, LocksGive, PTL DEF Spec

(* While a device is locked nobody else gets it, alt_fd_lock.c:44-45: the  *)
(* loop of alt_file_locked, which stops at alt_max_fd, finds every holder. *)
THEOREM LocksKeepOut == Spec => LocksExclude
<1>1. FileInv /\ Lists /\ [Next]_vars
        => [\A d \in Nodes : Holders(d) # {} =>
               \A f \in Fds : fdList'[f].dev = d => f \in Users(d)]_vars
  <2> SUFFICES ASSUME FileInv, Lists, Next
               PROVE  \A d \in Nodes : Holders(d) # {} =>
                         \A f \in Fds : fdList'[f].dev = d => f \in Users(d)
    OBVIOUS
  <2>1. Kept(fdList, fdList')
    BY NextKept
  <2> QED BY <2>1 DEF Kept, Holders, Users
<1>2. FileInv => TypeOK
  BY DEF FileInv
<1> QED BY <1>1, <1>2, InitFiles, FileStep, ListsInit, ListsStep, PTL DEF Spec, LocksExclude
=============================================================================
