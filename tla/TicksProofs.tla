---------------------------- MODULE TicksProofs -----------------------------
(***************************************************************************)
(* Proofs about interrupts and the system clock, for every number of       *)
(* interrupts and alarms and every width of the count: handlers run alone  *)
(* and with what they were registered with, the list of alarms stays a     *)
(* ring, every alarm comes at its tick, and the clock is exact.            *)
(***************************************************************************)
EXTENDS Ticks, TLAPS

-----------------------------------------------------------------------------
(* Arithmetic.                                                             *)

(* A remainder is smaller than the modulus.                                *)
LEMMA ModRange ==
    ASSUME NEW a \in Int, NEW m \in Nat, m > 0 PROVE a % m \in 0 .. m - 1
BY SMT

(* What division leaves.                                                   *)
LEMMA Division ==
    ASSUME NEW n \in Nat, NEW m \in Nat, m > 0
    PROVE  /\ n \div m \in Nat /\ n % m \in 0 .. m - 1
           /\ n % m = n - m * (n \div m)
<1>1. n \div m \in Nat
  BY SMT
<1>2. n % m = n - m * (n \div m)
  BY SMT
<1> QED BY <1>1, <1>2, ModRange

(* A multiple of m does not count.                                         *)
LEMMA RemainderOf ==
    ASSUME NEW q \in Nat, NEW m \in Nat, NEW x \in Nat, x < m
    PROVE  (q * m + x) % m = x
BY SMT

(* A product of a sum.                                                     *)
LEMMA Distributes ==
    ASSUME NEW a \in Nat, NEW b \in Nat, NEW c \in Nat, NEW d \in Nat
    PROVE  (a * b + c) * d = a * (d * b) + c * d
BY SMT

(* Less than b times as much is less than b times.                         *)
LEMMA ProductLess ==
    ASSUME NEW a \in Nat, NEW b \in Nat, NEW d \in Nat, a < b, d > 0
    PROVE  a * d \in Nat /\ a * d < d * b
BY SMT

(* The units of the clock.                                                 *)
LEMMA Units ==
    /\ TickRange \in Nat /\ TickRange > 2
    /\ US \in Nat /\ US > 0 /\ Rate \in Nat /\ Rate > 0
    /\ TickLength \in Nat /\ TickLength > 0 /\ US = TickLength * Rate
<1>1. /\ TickRange \in Nat /\ TickRange > 2
      /\ US \in Nat /\ US > 0 /\ Rate \in Nat /\ Rate > 0 /\ US % Rate = 0
  BY ClockAssumption
<1>2. TickLength \in Nat /\ 0 = US - Rate * TickLength
  BY <1>1, Division DEF TickLength
<1>3. US = TickLength * Rate
  BY <1>1, <1>2, SMT
<1>4. TickLength > 0
  BY <1>1, <1>2, <1>3, SMT
<1> QED BY <1>1, <1>2, <1>3, <1>4

(* The seconds and the microseconds of n ticks add up.                     *)
LEMMA TicksInMicros ==
    ASSUME NEW n \in Nat
    PROVE  /\ n \div Rate \in Nat /\ (n * TickLength) % US \in 0 .. US - 1
           /\ n * TickLength \in Nat
           /\ n * TickLength = (n \div Rate) * US + ((n * TickLength) % US)
<1> DEFINE q == n \div Rate
           r == n % Rate
           x == r * TickLength
<1>1. q \in Nat /\ r \in Nat /\ r < Rate /\ r = n - Rate * q
  BY Units, Division
<1>2. n = q * Rate + r
  BY <1>1, Units, SMT
<1>3. n * TickLength = q * US + x
  BY <1>1, <1>2, Units, Distributes
<1>4. x \in Nat /\ x < US
  BY <1>1, Units, ProductLess
<1>5. (q * US + x) % US = x
  BY <1>1, <1>4, Units, RemainderOf
<1>6. n * TickLength \in Nat
  BY Units, SMT
<1>7. (n * TickLength) % US = x
  BY <1>3, <1>5
<1>8. x \in 0 .. US - 1
  <2> HIDE DEF x
  <2> QED BY <1>4, Units
<1>9. n * TickLength = q * US + ((n * TickLength) % US)
  BY <1>3, <1>7
<1>10. (n * TickLength) % US \in 0 .. US - 1
  BY <1>7, <1>8, Zenon
<1>11. n \div Rate \in Nat
  BY <1>1
<1> QED BY <1>6, <1>9, <1>10, <1>11, Zenon

-----------------------------------------------------------------------------
(* The time of day.                                                        *)

(* What gettimeofday() shows is what has passed, unless that is before the *)
(* epoch.                                                                  *)
LEMMA WallTimeIsExact ==
    ASSUME NEW r \in [sec : Int, usec : Int], NEW n \in Nat,
           Micros(r) + n * TickLength >= 0
    PROVE  /\ Micros(WallTime(r, n)) = Micros(r) + n * TickLength
           /\ WallTime(r, n) \in [sec : Int, usec : Int]
<1> DEFINE s == n \div Rate
           m == (n * TickLength) % US
           sec == r.sec + s
           usec == r.usec + m
           carry == IF usec < 0 THEN -1 ELSE usec \div US
<1>1. /\ s \in Nat /\ m \in Nat
      /\ n * TickLength \in Nat /\ n * TickLength = s * US + m
  <2>1. /\ s \in Nat /\ m \in 0 .. US - 1
        /\ n * TickLength \in Nat /\ n * TickLength = s * US + m
    BY TicksInMicros, Zenon
  <2> HIDE DEF s, m
  <2> QED BY <2>1, Units
<1>2. r.sec \in Int /\ r.usec \in Int /\ sec \in Int /\ usec \in Int
  BY <1>1
<1>3. carry \in Int
  <2> HIDE DEF usec
  <2>1. CASE usec < 0
    BY <2>1
  <2>2. CASE ~(usec < 0)
    <3>1. usec \in Nat
      BY <1>2, <2>2
    <3> QED BY <2>2, <3>1, Units, Division
  <2> QED BY <2>1, <2>2
<1>4. Micros(r) + n * TickLength = sec * US + usec
  <2> HIDE DEF s, m
  <2>1. (r.sec + s) * US = r.sec * US + s * US
    BY <1>1, <1>2, Units, SMT
  <2>2. r.sec * US \in Int /\ s * US \in Int
    BY <1>1, <1>2, Units, SMT
  <2> QED BY <1>1, <1>2, <2>1, <2>2 DEF Micros
<1>5. ~(usec < 0 /\ sec <= 0)
  <2> HIDE DEF sec, usec
  <2>1. sec <= 0 => sec * US <= 0
    BY <1>2, Units, SMT
  <2>2. sec * US \in Int
    BY <1>2, Units, SMT
  <2> QED BY <1>2, <1>4, <2>1, <2>2
<1>6. WallTime(r, n) = [sec |-> sec + carry, usec |-> usec - carry * US]
  BY <1>5 DEF WallTime
<1>7. carry * US \in Int
  <2> HIDE DEF carry
  <2> QED BY <1>3, Units, SMT
<1>8. (sec + carry) * US + (usec - carry * US) = sec * US + usec
  <2> HIDE DEF sec, usec, carry
  <2> QED BY <1>2, <1>3, <1>7, Units, SMT
<1>9. Micros(WallTime(r, n)) = (sec + carry) * US + (usec - carry * US)
  BY <1>6 DEF Micros
<1>10. sec + carry \in Int /\ usec - carry * US \in Int
  <2> HIDE DEF sec, usec, carry
  <2> QED BY <1>2, <1>3, <1>7
<1> QED BY <1>4, <1>6, <1>8, <1>9, <1>10

(* settimeofday() followed by gettimeofday() in the same tick.             *)
LEMMA SetThenGet ==
    ASSUME NEW t \in Times, NEW n \in Nat, n * TickLength < TickRange
    PROVE  WallTime(ResetTime(t, n), n) = t
<1> DEFINE s == n \div Rate
           m == (n * TickLength) % US
<1>1. t \in [sec : Nat, usec : 0 .. US - 1]
  BY TickAssumption
<1>2. s \in Nat /\ m \in Nat /\ n * TickLength \in Nat
  BY TicksInMicros, Units
<1>3. (n * TickLength) % TickRange = n * TickLength
  BY <1>2, Units, SMT
<1>4. ResetTime(t, n) = [sec |-> t.sec - s, usec |-> t.usec - m]
  BY <1>3 DEF ResetTime
<1>5. /\ t.sec \in Nat /\ t.usec \in Nat /\ t.usec < US
      /\ (t.sec - s) + s = t.sec /\ (t.usec - m) + m = t.usec
  <2> HIDE DEF s, m
  <2> QED BY <1>1, <1>2, Units
<1>6. t.usec \div US = 0
  BY <1>5, Units, SMT
<1>7. WallTime(ResetTime(t, n), n) = [sec |-> t.sec, usec |-> t.usec]
  <2> DEFINE R == ResetTime(t, n)
  <2>1. R.sec + s = t.sec /\ R.usec + m = t.usec
    BY <1>4, <1>5
  <2> HIDE DEF R, s, m
  <2>2. WallTime(R, n) =
          LET carry == IF t.usec < 0 THEN -1 ELSE t.usec \div US
          IN IF t.usec < 0 /\ t.sec <= 0 THEN [sec |-> 0, usec |-> 0]
             ELSE [sec |-> t.sec + carry, usec |-> t.usec - carry * US]
    BY <2>1 DEF WallTime, s, m
  <2>3. ~(t.usec < 0) /\ 0 * US = 0
    BY <1>5, Units
  <2> QED BY <1>5, <1>6, <2>2, <2>3 DEF R
<1> QED BY <1>1, <1>7

-----------------------------------------------------------------------------
(* The list.  Linked is what alt_llist_insert and alt_llist_remove rely on *)
(* and keep: the pointers of the alarms that were ever started lead back,  *)
(* and nobody points to one that was not.                                  *)
LinkTypes == [next : [Nodes -> Nodes \union {Null}],
              prev : [Nodes -> Nodes \union {Null}]]
Leads(l, x) ==
    \/ /\ l.next[x] \in Nodes /\ l.prev[l.next[x]] = x
       /\ l.prev[x] \in Nodes /\ l.next[l.prev[x]] = x
    \/ l.next[x] = Null /\ l.prev[x] = Null
Linked(l) == l \in LinkTypes /\ Started(l, Head) /\ \A x \in Nodes : Leads(l, x)

(* The nodes of the list are distinct.                                     *)
LEMMA NodeFacts == Head \in Nodes /\ Null \notin Nodes /\ Head \notin AlarmIds
                   /\ AlarmIds \subseteq Nodes
BY TickAssumption DEF Nodes

(* The next of a started alarm was started.                                *)
LEMMA NextStarted ==
    ASSUME NEW l, Linked(l), NEW x \in Nodes, Started(l, x)
    PROVE  l.next[x] \in Nodes /\ Started(l, l.next[x])
<1>1. l.next[x] \in Nodes /\ l.prev[l.next[x]] = x
  BY DEF Linked, Leads, Started
<1>2. Leads(l, l.next[x])
  BY <1>1 DEF Linked
<1> QED BY <1>1, <1>2, NodeFacts DEF Leads, Started

(* An alarm that is in no list may be inserted.                            *)
LEMMA InsertedLinked ==
    ASSUME NEW l, Linked(l), NEW a \in AlarmIds, ~Registered(l, a)
    PROVE  /\ Linked(Inserted(l, a))
           /\ \A x \in Nodes : Started(l, x) => Started(Inserted(l, a), x)
<1> DEFINE first == l.next[Head]
           m == Inserted(l, a)
<1>1. /\ l \in LinkTypes /\ Head \in Nodes /\ a \in Nodes /\ a # Head
      /\ Null \notin Nodes
  BY NodeFacts DEF Linked
<1>2. first \in Nodes /\ l.prev[first] = Head
  BY <1>1 DEF Linked, Leads, Started
<1>3. \/ l.next[a] = a /\ l.prev[a] = a
      \/ l.next[a] = Null /\ l.prev[a] = Null
  BY <1>1 DEF Linked, Leads, Registered
<1>4. first # a
  BY <1>1, <1>2, <1>3
<1>5. /\ m.next = [l.next EXCEPT ![a] = first, ![Head] = a]
      /\ m.prev = [l.prev EXCEPT ![a] = Head, ![first] = a]
  BY DEF Inserted
<1>6. m \in LinkTypes
  BY <1>1, <1>2 DEF Inserted, LinkTypes
<1> HIDE DEF first, m
<1>7. ASSUME NEW x \in Nodes
      PROVE  /\ m.next[x] = IF x = Head THEN a ELSE IF x = a THEN first
                            ELSE l.next[x]
             /\ m.prev[x] = IF x = first THEN a ELSE IF x = a THEN Head
                            ELSE l.prev[x]
  BY <1>1, <1>2, <1>4, <1>5 DEF LinkTypes
<1>8. ASSUME NEW x \in Nodes PROVE Leads(m, x)
  <2>1. Leads(l, x)
    BY DEF Linked
  <2>2. CASE x = Head
    <3>1. m.next[x] = a /\ m.prev[a] = Head
      BY <1>1, <1>4, <1>7, <2>2
    <3>2. CASE first = Head
      BY <1>1, <1>2, <1>4, <1>7, <2>2, <3>1, <3>2 DEF Leads
    <3>3. CASE first # Head
      <4>1. l.prev[Head] \in Nodes /\ l.next[l.prev[Head]] = Head
        BY <1>1, <2>1, <2>2 DEF Leads, Linked, Started
      <4>2. l.prev[Head] # a /\ l.prev[Head] # Head
        BY <1>1, <1>2, <1>3, <3>3, <4>1 DEF first
      <4> QED BY <1>1, <1>4, <1>7, <2>2, <3>1, <3>3, <4>1, <4>2 DEF Leads
    <3> QED BY <3>2, <3>3
  <2>3. CASE x = a
    BY <1>1, <1>2, <1>4, <1>7, <2>3 DEF Leads
  <2>4. CASE x # Head /\ x # a /\ l.next[x] # Null
    <3>1. /\ l.next[x] \in Nodes /\ l.prev[l.next[x]] = x
          /\ l.prev[x] \in Nodes /\ l.next[l.prev[x]] = x
      BY <2>1, <2>4 DEF Leads
    <3>2. l.next[x] # a /\ l.next[x] # first
      BY <1>1, <1>2, <1>3, <2>4, <3>1
    <3>3. m.next[x] \in Nodes /\ m.prev[m.next[x]] = x
      BY <1>7, <2>4, <3>1, <3>2
    <3>4. CASE x = first
      BY <1>1, <1>4, <1>7, <2>4, <3>3, <3>4 DEF Leads
    <3>5. CASE x # first
      <4>1. l.prev[x] # a /\ l.prev[x] # Head
        BY <1>1, <1>3, <2>4, <3>1, <3>5 DEF first
      <4> QED BY <1>7, <2>4, <3>1, <3>3, <3>5, <4>1 DEF Leads
    <3> QED BY <3>4, <3>5
  <2>5. CASE x # Head /\ x # a /\ l.next[x] = Null
    <3>1. l.prev[x] = Null /\ x # first
      BY <1>1, <1>2, <2>1, <2>5 DEF Leads
    <3> QED BY <1>7, <2>5, <3>1 DEF Leads
  <2> QED BY <2>2, <2>3, <2>4, <2>5
<1>9. \A x \in Nodes : Started(l, x) => Started(m, x)
  BY <1>1, <1>2, <1>7 DEF Started
<1> QED BY <1>1, <1>6, <1>8, <1>9 DEF Linked, m

(* Any alarm that was ever started may be removed, also twice.             *)
LEMMA RemovedLinked ==
    ASSUME NEW l, Linked(l), NEW a \in AlarmIds, Started(l, a)
    PROVE  /\ Linked(Removed(l, a))
           /\ \A x \in Nodes : Started(l, x) => Started(Removed(l, a), x)
<1> DEFINE p == l.prev[a]
           n == l.next[a]
           m == Removed(l, a)
<1>1. l \in LinkTypes /\ Head \in Nodes /\ a \in Nodes /\ a # Head /\ Null \notin Nodes
  BY NodeFacts DEF Linked
<1>2. p \in Nodes /\ n \in Nodes /\ l.next[p] = a /\ l.prev[n] = a
  BY <1>1 DEF Linked, Leads, Started
<1>3. p = a <=> n = a
  BY <1>2
<1>4. /\ m.next = [l.next EXCEPT ![p] = n, ![a] = a]
      /\ m.prev = [l.prev EXCEPT ![n] = p, ![a] = a]
  BY DEF Removed
<1>5. m \in LinkTypes
  BY <1>1, <1>2 DEF Removed, LinkTypes
<1> HIDE DEF p, n, m
<1>6. ASSUME NEW x \in Nodes
      PROVE  /\ m.next[x] = IF x = a THEN a ELSE IF x = p THEN n ELSE l.next[x]
             /\ m.prev[x] = IF x = a THEN a ELSE IF x = n THEN p ELSE l.prev[x]
  BY <1>1, <1>2, <1>4 DEF LinkTypes
<1>7. ASSUME NEW x \in Nodes PROVE Leads(m, x)
  <2>1. Leads(l, x)
    BY DEF Linked
  <2>2. CASE x = a
    BY <1>1, <1>6, <2>2 DEF Leads
  <2>3. CASE x # a /\ l.next[x] # Null
    <3>1. /\ l.next[x] \in Nodes /\ l.prev[l.next[x]] = x
          /\ l.prev[x] \in Nodes /\ l.next[l.prev[x]] = x
      BY <2>1, <2>3 DEF Leads
    <3>2. m.next[x] \in Nodes /\ m.prev[m.next[x]] = x
      <4>1. CASE x = p
        BY <1>2, <1>3, <1>6, <2>3, <4>1
      <4>2. CASE x # p
        <5>1. l.next[x] # a /\ l.next[x] # n
          BY <1>2, <2>3, <3>1, <4>2 DEF p, n
        <5> QED BY <1>6, <2>3, <3>1, <4>2, <5>1
      <4> QED BY <4>1, <4>2
    <3>3. m.prev[x] \in Nodes /\ m.next[m.prev[x]] = x
      <4>1. CASE x = n
        BY <1>2, <1>3, <1>6, <2>3, <4>1
      <4>2. CASE x # n
        <5>1. l.prev[x] # a /\ l.prev[x] # p
          BY <1>2, <2>3, <3>1, <4>2 DEF p, n
        <5> QED BY <1>6, <2>3, <3>1, <4>2, <5>1
      <4> QED BY <4>1, <4>2
    <3> QED BY <3>2, <3>3 DEF Leads
  <2>4. CASE x # a /\ l.next[x] = Null
    <3>1. l.prev[x] = Null /\ x # p /\ x # n
      BY <1>1, <1>2, <2>1, <2>4 DEF Leads
    <3> QED BY <1>6, <2>4, <3>1 DEF Leads
  <2> QED BY <2>2, <2>3, <2>4
<1>8. \A x \in Nodes : Started(l, x) => Started(m, x)
  BY <1>1, <1>2, <1>6 DEF Started
<1> QED BY <1>1, <1>5, <1>7, <1>8 DEF Linked, m

-----------------------------------------------------------------------------
(* The alarms' times.                                                      *)
AlarmTypes == [time : [AlarmIds -> Ticking], rollover : [AlarmIds -> BOOLEAN]]

(* A time some ticks later wraps within the range.                         *)
LEMMA LaterTicks ==
    ASSUME NEW t \in Ticking, NEW n \in Ticking \union Nat PROVE Later(t, n) \in Ticking
BY Units, ModRange DEF Later, Ticking

(* Every change of the times keeps their types.                            *)
LEMMA TimesTyped ==
    ASSUME nticks \in Ticking, NEW al \in AlarmTypes, NEW a \in AlarmIds,
           NEW n \in Ticking \union Nat
    PROVE  /\ SetTime(al, a, nticks, n) \in AlarmTypes
           /\ Renewed(al, a, n) \in AlarmTypes
           /\ Cleared(al, a) \in AlarmTypes
<1>1. ASSUME NEW t \in Ticking PROVE SetTime(al, a, t, n) \in AlarmTypes
  <2>1. Later(t, n) \in Ticking
    BY LaterTicks
  <2>2. (Later(t, n) < nticks) \in BOOLEAN
    OBVIOUS
  <2> QED BY <2>1, <2>2 DEF SetTime, AlarmTypes
<1>2. al.time[a] \in Ticking
  BY DEF AlarmTypes
<1>3. Renewed(al, a, n) \in AlarmTypes
  <2> DEFINE new == SetTime(al, a, al.time[a], n)
  <2>1. new \in AlarmTypes
    BY <1>1, <1>2
  <2> HIDE DEF new
  <2>2. [new EXCEPT !.rollover[a] = TRUE] \in AlarmTypes
    BY <2>1 DEF AlarmTypes
  <2> QED BY <2>1, <2>2 DEF Renewed, new
<1>4. Cleared(al, a) \in AlarmTypes
  BY DEF Cleared, AlarmTypes
<1> QED BY <1>1, <1>3, <1>4

-----------------------------------------------------------------------------
(* The invariant.  A handler runs only while the program is in none of its *)
(* calls and a call runs only while interrupts are off, so that neither    *)
(* sees the other's half-done work: a handler without its context, an      *)
(* alarm with a time but not in the list.                                  *)
CallType  == call \in Calls \union {Idle}
IsrType   == isr \in IsrTypes \union {InTick}
ClockType == /\ rate \in {0, Rate} /\ nticks \in Ticking
             /\ reset \in [sec : Int, usec : Int]
ListOK    == /\ Linked(links) /\ alarms \in AlarmTypes
             /\ cursor \in Nodes /\ Started(links, cursor)

Apart ==
    /\ isr # NoIsr => call = Idle /\ ~pie
    /\ call # Idle => ~pie

(* The entry of an interrupt is whole, except while it is registered.      *)
Between(i, step) == /\ call # Idle /\ call.op = "register"
                    /\ call.irq = i /\ call.step = step
Whole(i) ==
    /\ Between(i, 2) \/ Between(i, 3) => table[i].handler = call.client
    /\ ~Between(i, 2) => table[i].context = table[i].handler
    /\ ~Between(i, 2) /\ ~Between(i, 3) /\ i \in active => table[i].handler # Nobody
Served ==
    /\ ienable = active
    /\ \A i \in Irqs : Whole(i)
    /\ isr.at = "scan" => isr.irqs \subseteq active
    /\ isr.at = "serve" => isr.irq \in active
    /\ call # Idle /\ call.op = "mask" => table[call.irq].handler # Nobody

Waits ==
    /\ call # Idle /\ call.op = "start" /\ call.step # 3 => ~Registered(links, call.alarm)
    /\ call # Idle /\ call.op = "stop" => Started(links, call.alarm)

Inv == /\ InterruptTypes /\ CallType /\ IsrType /\ ClockType
       /\ ListOK /\ Apart /\ Served /\ Waits

(* What the invariant says of the properties.                              *)
LEMMA InvImplies == Inv => TypeOK /\ Alone /\ RightHandler /\ Ring
<1> SUFFICES ASSUME Inv PROVE TypeOK /\ Alone /\ RightHandler /\ Ring
  OBVIOUS
<1> USE DEF Inv
<1>1. TypeOK
  BY DEF TypeOK, CallType, IsrType, ClockType, ListOK, Linked, LinkTypes, AlarmTypes
<1>2. Alone
  BY DEF Alone, Apart
<1>3. RightHandler
  <2> SUFFICES ASSUME isr.at = "serve"
               PROVE  /\ table[isr.irq].handler # Nobody
                      /\ table[isr.irq].context = table[isr.irq].handler
                      /\ isr.irq \in active
    BY DEF RightHandler
  <2>1. isr # NoIsr
    BY DEF NoIsr
  <2>2. call = Idle /\ isr.irq \in active /\ isr.irq \in Irqs
    BY <2>1 DEF Apart, Served, InterruptTypes
  <2>3. Whole(isr.irq)
    BY <2>2 DEF Served
  <2> QED BY <2>2, <2>3 DEF Whole, Between
<1>4. Ring
  BY DEF Ring, ListOK, Linked, Leads, Started
<1> QED BY <1>1, <1>2, <1>3, <1>4

(* The invariant holds at the start and after every step: ...              *)
LEMMA InitInv == Init => Inv
<1> SUFFICES ASSUME Init PROVE Inv
  OBVIOUS
<1> USE DEF Init, InterruptInit
<1>1. InterruptTypes
  BY DEF InterruptTypes, Owners
<1>2. CallType /\ IsrType
  BY DEF CallType, IsrType, IsrTypes
<1>3. ClockType
  BY Units DEF ClockType, Ticking
<1>4. ListOK
  <2>1. alarms \in AlarmTypes
    BY Units DEF AlarmTypes, Ticking
  <2>2. Linked(links) /\ Started(links, Head)
    BY NodeFacts DEF Linked, Started, Leads, LinkTypes
  <2> QED BY <2>1, <2>2, NodeFacts DEF ListOK
<1>5. Apart /\ Waits
  BY DEF Apart, Waits
<1>6. Served
  BY DEF Served, Whole, Between, NoIsr
<1> QED BY <1>1, <1>2, <1>3, <1>4, <1>5, <1>6 DEF Inv

-----------------------------------------------------------------------------
(* The steps.                                                              *)
Rest == UNCHANGED <<nticks, cursor, list>>

(* A call begins.                                                          *)
LEMMA BeginStep ==
    ASSUME Inv, NEW c \in Calls, Begin(c), Rest,
           rate' \in {0, Rate}, reset' = reset,
           c.op = "register" => c.step = 1,
           c.op = "mask" => table[c.irq].handler # Nobody,
           c.op = "start" => ~Registered(links, c.alarm),
           c.op = "stop" => Started(links, c.alarm)
    PROVE  Inv'
<1> USE DEF Inv, Rest, Begin, Runs
<1>1. /\ call' = c /\ call = Idle /\ isr = NoIsr /\ pie' = FALSE
      /\ UNCHANGED <<active, ienable, table, pending, isr, nticks, cursor, links, alarms>>
  BY DEF DisableAll, list
<1>2. InterruptTypes'
  BY <1>1 DEF InterruptTypes
<1>3. CallType' /\ IsrType'
  BY <1>1 DEF CallType, IsrType
<1>4. ClockType' /\ ListOK'
  BY <1>1 DEF ClockType, ListOK
<1>5. Apart'
  BY <1>1 DEF Apart
<1>6. Served'
  <2>1. ASSUME NEW i \in Irqs PROVE Whole(i)'
    BY <1>1 DEF Served, Whole, Between
  <2> QED BY <1>1, <2>1 DEF Served
<1>7. Waits'
  BY <1>1 DEF Waits, Registered, Started
<1> QED BY <1>2, <1>3, <1>4, <1>5, <1>6, <1>7

(* The program calls.                                                      *)
LEMMA ProgramStep == Inv /\ Program => Inv'
<1> SUFFICES ASSUME Inv, Program PROVE Inv'
  OBVIOUS
<1>0. pie \in BOOLEAN
  BY DEF Inv, InterruptTypes
<1>1. CASE ClockDriver
  <2> PICK c \in Clients : Register(Timer, c)
    BY <1>1 DEF ClockDriver
  <2> DEFINE k == [op |-> "register", irq |-> Timer, client |-> c, step |-> 1, saved |-> pie]
  <2>1. k \in Calls
    BY <1>0, TickAssumption DEF Calls, InterruptCalls, Owners
  <2> QED BY <1>1, <2>1, BeginStep DEF ClockDriver, Register, Rest
<1>2. ASSUME NEW a \in AlarmIds, Stop(a) PROVE Inv'
  <2> DEFINE k == [op |-> "stop", alarm |-> a, step |-> 1, saved |-> pie]
  <2>1. k \in Calls
    BY <1>0 DEF Calls
  <2> QED BY <1>2, <2>1, BeginStep DEF Stop, Rest, clock, Inv, ClockType
<1>3. ASSUME NEW a \in AlarmIds, NEW n \in Intervals, Start(a, n) PROVE Inv'
  <2> DEFINE k == [op |-> "start", alarm |-> a, n |-> n, step |-> 1, saved |-> pie]
  <2>1. k \in Calls
    BY <1>0 DEF Calls
  <2> QED BY <1>3, <2>1, BeginStep DEF Start, Rest, clock, Inv, ClockType
<1>4. ASSUME NEW i \in Irqs, NEW c \in Owners, Register(i, c), UNCHANGED <<clock, list>>
      PROVE  Inv'
  <2> DEFINE k == [op |-> "register", irq |-> i, client |-> c, step |-> 1, saved |-> pie]
  <2>1. k \in Calls
    BY <1>0 DEF Calls, InterruptCalls
  <2> QED BY <1>4, <2>1, BeginStep DEF Register, Rest, clock, Inv, ClockType
<1>5. ASSUME NEW i \in Irqs, NEW on \in BOOLEAN, SetMask(i, on), UNCHANGED <<clock, list>>
      PROVE  Inv'
  <2> DEFINE k == [op |-> "mask", irq |-> i, on |-> on, step |-> 3, saved |-> pie]
  <2>1. k \in Calls
    BY <1>0 DEF Calls, InterruptCalls
  <2> QED BY <1>5, <2>1, BeginStep DEF SetMask, Rest, clock, Inv, ClockType
<1>6. ASSUME NEW t \in Times, SetTimeOfDay(t) PROVE Inv'
  <2> USE DEF Inv
  <2>1. /\ UNCHANGED <<pie, active, ienable, table, pending, isr, call>>
        /\ UNCHANGED <<rate, nticks, cursor, links, alarms>>
        /\ reset' = ResetTime(t, nticks)
    BY <1>6 DEF SetTimeOfDay, interruptVars, cpu, list
  <2>2. ResetTime(t, nticks) \in [sec : Int, usec : Int]
    <3> DEFINE s == nticks \div Rate
               y == nticks * TickLength
               z == y % TickRange
               m == z % US
    <3>1. nticks \in Nat /\ t \in [sec : Nat, usec : 0 .. US - 1]
      BY Units, TickAssumption DEF ClockType, Ticking
    <3>2. s \in Nat /\ y \in Nat
      BY <3>1, Units, Division, TicksInMicros
    <3>3. z \in Nat
      <4> HIDE DEF y
      <4> QED BY <3>2, Units, ModRange
    <3>4. m \in Nat
      <4> HIDE DEF z
      <4> QED BY <3>3, Units, ModRange
    <3>5. ResetTime(t, nticks) = [sec |-> t.sec - s, usec |-> t.usec - m]
      BY DEF ResetTime
    <3> HIDE DEF s, m
    <3> QED BY <3>1, <3>2, <3>4, <3>5, Units
  <2>3. InterruptTypes' /\ CallType' /\ IsrType' /\ ClockType' /\ ListOK'
    BY <2>1, <2>2 DEF InterruptTypes, CallType, IsrType, ClockType, ListOK
  <2>4. Apart' /\ Waits'
    BY <2>1 DEF Apart, Waits
  <2>5. Served'
    BY <2>1 DEF Served, Whole, Between
  <2> QED BY <2>3, <2>4, <2>5
<1> QED BY <1>1, <1>2, <1>3, <1>4, <1>5, <1>6 DEF Program

(* The program goes on with its call: what it is, and how it goes on.      *)
LEMMA CallKinds ==
    ASSUME Inv, call # Idle
    PROVE  /\ call \in Calls /\ isr = NoIsr /\ pie = FALSE
           /\ call.op = "register" => call \in
                [op : {"register"}, irq : Irqs, client : Owners, step : 1 .. 4,
                 saved : BOOLEAN]
           /\ call.op = "mask" => call \in
                [op : {"mask"}, irq : Irqs, on : BOOLEAN, step : 3 .. 4, saved : BOOLEAN]
           /\ call.op = "start" => call \in
                [op : {"start"}, alarm : AlarmIds, n : Intervals, step : 1 .. 3,
                 saved : BOOLEAN]
           /\ call.op = "stop" => call \in
                [op : {"stop"}, alarm : AlarmIds, step : {1, 3}, saved : BOOLEAN]
<1>1. call \in Calls
  BY DEF Inv, CallType
<1>2. isr = NoIsr /\ pie = FALSE
  BY DEF Inv, Apart, InterruptTypes
<1> QED BY <1>1, <1>2 DEF Calls, InterruptCalls

(* ... the steps of alt_alarm_start and alt_alarm_stop,                    *)
LEMMA StartStep == Inv /\ (StartTime \/ StartLink \/ StopLink) => Inv'
<1> SUFFICES ASSUME Inv, StartTime \/ StartLink \/ StopLink PROVE Inv'
  OBVIOUS
<1> USE DEF Inv
<1>1. /\ call # Idle /\ call.op \in {"start", "stop"} /\ isr = NoIsr
      /\ UNCHANGED <<pie, active, ienable, table, pending, isr, rate, nticks, cursor, reset>>
      /\ \E n \in {2, 3} : call' = [call EXCEPT !.step = n]
  BY CallKinds DEF StartTime, StartLink, StopLink, At, Step, cpu, clock, list
<1>2. /\ call' \in Calls /\ call' # Idle /\ call'.op = call.op
      /\ call'.alarm = call.alarm /\ call.alarm \in AlarmIds
  <2>1. CASE StartTime
    <3>1. call.op = "start" /\ call' = [call EXCEPT !.step = 2]
      BY <2>1 DEF StartTime, At, Step
    <3> QED BY <1>1, <3>1, CallKinds DEF Calls, Idle
  <2>2. CASE StartLink
    <3>1. call.op = "start" /\ call' = [call EXCEPT !.step = 3]
      BY <2>2 DEF StartLink, At, Step
    <3> QED BY <1>1, <3>1, CallKinds DEF Calls, Idle
  <2>3. CASE StopLink
    <3>1. call.op = "stop" /\ call' = [call EXCEPT !.step = 3]
      BY <2>3 DEF StopLink, At, Step
    <3> QED BY <1>1, <3>1, CallKinds DEF Calls, Idle
  <2> QED BY <2>1, <2>2, <2>3
<1>3. InterruptTypes' /\ CallType' /\ IsrType' /\ ClockType'
  BY <1>1, <1>2 DEF InterruptTypes, CallType, IsrType, ClockType
<1>4. Apart'
  BY <1>1 DEF Apart, InterruptTypes
<1>5. Served'
  <2>1. ASSUME NEW i \in Irqs PROVE Whole(i)'
    <3>1. Whole(i) /\ ~Between(i, 2) /\ ~Between(i, 3)
      BY <1>1 DEF Served, Between
    <3>2. ~Between(i, 2)' /\ ~Between(i, 3)'
      BY <1>1, <1>2 DEF Between
    <3> QED BY <1>1, <3>1, <3>2 DEF Whole
  <2> QED BY <1>1, <1>2, <2>1 DEF Served
<1>6. ListOK' /\ Waits'
  <2>1. CASE StartTime
    <3>1. /\ call.op = "start" /\ call.n \in Intervals /\ links' = links /\ call.step = 1
          /\ alarms' = SetTime(alarms, call.alarm, nticks, call.n + 1)
      BY <1>1, <2>1, CallKinds DEF StartTime, At
    <3>2. nticks \in Ticking /\ call.n + 1 \in Nat
      <4>1. nticks \in Ticking
        BY DEF ClockType
      <4>2. Intervals \subseteq Nat
        BY TickAssumption, Units
      <4>3. call.n \in Nat
        BY <3>1, <4>2, Zenon
      <4> DEFINE k == call.n
      <4>4. k \in Nat
        BY <4>3
      <4> HIDE DEF k
      <4>5. k + 1 \in Nat
        BY <4>4
      <4> QED BY <4>1, <4>5 DEF k
    <3>3. alarms' \in AlarmTypes
      BY <1>2, <3>1, <3>2, TimesTyped DEF ListOK
    <3>4. ListOK'
      BY <1>1, <3>1, <3>3 DEF ListOK
    <3>5. Waits'
      BY <1>1, <1>2, <3>1 DEF Waits, Registered, Started
    <3> QED BY <3>4, <3>5
  <2>2. CASE StartLink
    <3>1. /\ call.op = "start" /\ call.step = 2 /\ alarms' = alarms
          /\ links' = Inserted(links, call.alarm) /\ call' = [call EXCEPT !.step = 3]
      BY <2>2 DEF StartLink, At, Step
    <3>2. ~Registered(links, call.alarm)
      BY <1>1, <3>1 DEF Waits
    <3>3. Linked(links') /\ \A x \in Nodes : Started(links, x) => Started(links', x)
      BY <1>2, <3>1, <3>2, InsertedLinked DEF ListOK
    <3>4. ListOK'
      BY <1>1, <3>1, <3>3 DEF ListOK
    <3>5. call'.step = 3
      BY <1>1, <3>1, CallKinds
    <3>6. Waits'
      BY <1>2, <3>1, <3>5 DEF Waits
    <3> QED BY <3>4, <3>6
  <2>3. CASE StopLink
    <3>1. /\ call.op = "stop" /\ alarms' = alarms
          /\ links' = Removed(links, call.alarm)
      BY <2>3 DEF StopLink, At
    <3>2. Started(links, call.alarm)
      BY <1>1, <3>1 DEF Waits
    <3>3. Linked(links') /\ \A x \in Nodes : Started(links, x) => Started(links', x)
      BY <1>2, <3>1, <3>2, RemovedLinked DEF ListOK
    <3>4. ListOK'
      BY <1>1, <3>1, <3>3 DEF ListOK
    <3>5. Waits'
      BY <1>2, <3>1, <3>2, <3>3, NodeFacts DEF Waits
    <3> QED BY <3>4, <3>5
  <2> QED BY <2>1, <2>2, <2>3
<1> QED BY <1>3, <1>4, <1>5, <1>6

(* the registration of an interrupt, which leaves clock and list alone,    *)
LEMMA RegisterStep ==
    Inv /\ (SetHandler \/ SetContext \/ WriteMask) /\ UNCHANGED <<clock, list>> => Inv'
<1> SUFFICES ASSUME Inv, SetHandler \/ SetContext \/ WriteMask, UNCHANGED <<clock, list>>
             PROVE  Inv'
  OBVIOUS
<1> USE DEF Inv
<1>1. /\ call # Idle /\ call.op \in {"register", "mask"} /\ isr = NoIsr
      /\ UNCHANGED <<pie, pending, isr>>
      /\ UNCHANGED <<rate, nticks, cursor, reset, links, alarms>>
      /\ \E n \in {2, 3, 4} : call' = [call EXCEPT !.step = n]
  BY DEF SetHandler, SetContext, WriteMask, At, Runs, Step, cpu, clock, list, EnableAll
<1>2. call.irq \in Irqs
  BY <1>1, CallKinds
<1>3. ClockType' /\ ListOK' /\ IsrType'
  BY <1>1 DEF ClockType, ListOK, IsrType
<1>4. call' # Idle /\ call'.op = call.op /\ call'.irq = call.irq
  <2>1. PICK n \in {2, 3, 4} : call' = [call EXCEPT !.step = n]
    BY <1>1
  <2>2. CASE call.op = "register"
    BY <1>1, <2>1, <2>2, CallKinds DEF Idle
  <2>3. CASE call.op = "mask"
    BY <1>1, <2>1, <2>3, CallKinds DEF Idle
  <2> QED BY <1>1, <2>2, <2>3
<1>5. Apart' /\ Waits'
  BY <1>1, <1>4 DEF Apart, Waits
<1>6. CASE SetHandler
  <2>1. /\ call.op = "register" /\ call.step = 1 /\ call' = [call EXCEPT !.step = 2]
        /\ table' = [table EXCEPT ![call.irq].handler = call.client]
        /\ UNCHANGED <<active, ienable>>
    BY <1>6 DEF SetHandler, At, Step
  <2>2. /\ call \in [op : {"register"}, irq : Irqs, client : Owners, step : 1 .. 4,
                     saved : BOOLEAN]
    BY <1>1, <2>1, CallKinds
  <2>3. call'.step = 2 /\ call'.client = call.client /\ call' \in Calls
    BY <2>1, <2>2 DEF Calls, InterruptCalls
  <2>4. InterruptTypes' /\ CallType'
    BY <1>1, <2>1, <2>2, <2>3 DEF InterruptTypes, CallType
  <2>5. ASSUME NEW i \in Irqs PROVE Whole(i)'
    <3>1. CASE i = call.irq
      BY <1>1, <1>4, <2>1, <2>3, <3>1 DEF Whole, Between, InterruptTypes
    <3>2. CASE i # call.irq
      <4>1. table'[i] = table[i]
        BY <2>1, <3>2 DEF InterruptTypes
      <4> QED BY <1>1, <2>1, <3>2, <4>1 DEF Whole, Between, Served
    <3> QED BY <3>1, <3>2
  <2>6. Served'
    BY <1>1, <1>4, <2>1, <2>5 DEF Served, NoIsr
  <2> QED BY <1>3, <1>5, <2>4, <2>6
<1>7. CASE SetContext
  <2>1. /\ call.op = "register" /\ call.step = 2 /\ call' = [call EXCEPT !.step = 3]
        /\ table' = [table EXCEPT ![call.irq].context = call.client]
        /\ UNCHANGED <<active, ienable>>
    BY <1>7 DEF SetContext, At, Step
  <2>2. /\ call \in [op : {"register"}, irq : Irqs, client : Owners, step : 1 .. 4,
                     saved : BOOLEAN]
    BY <1>1, <2>1, CallKinds
  <2>3. call'.step = 3 /\ call'.client = call.client /\ call' \in Calls
    BY <2>1, <2>2 DEF Calls, InterruptCalls
  <2>4. InterruptTypes' /\ CallType'
    BY <1>1, <2>1, <2>2, <2>3 DEF InterruptTypes, CallType
  <2>5. ASSUME NEW i \in Irqs PROVE Whole(i)'
    <3>1. CASE i = call.irq
      <4>1. table'[i].context = call.client /\ table'[i].handler = table[i].handler
        BY <2>1, <3>1 DEF InterruptTypes
      <4>2. Between(i, 3)'
        BY <1>4, <2>1, <2>3, <3>1 DEF Between
      <4>3. table[i].handler = call.client
        BY <1>1, <1>2, <2>1, <3>1 DEF Served, Whole, Between
      <4> QED BY <2>3, <4>1, <4>2, <4>3 DEF Whole
    <3>2. CASE i # call.irq
      <4>1. table'[i] = table[i]
        BY <2>1, <3>2 DEF InterruptTypes
      <4> QED BY <1>1, <2>1, <3>2, <4>1 DEF Whole, Between, Served
    <3> QED BY <3>1, <3>2
  <2>6. Served'
    BY <1>1, <1>4, <2>1, <2>5 DEF Served, NoIsr
  <2> QED BY <1>3, <1>5, <2>4, <2>6
<1>8. CASE WriteMask
  <2> DEFINE on == IF call.op = "mask" THEN call.on ELSE call.client # Nobody
  <2>1. /\ call.step = 3 /\ call' = [call EXCEPT !.step = 4] /\ table' = table
        /\ active' = Masked(call.irq, on) /\ ienable' = active'
    BY <1>8 DEF WriteMask, At, Step
  <2>2. call' \in Calls /\ call'.step = 4
    <3>1. CASE call.op = "register"
      BY <1>1, <2>1, <3>1, CallKinds DEF Calls, InterruptCalls
    <3>2. CASE call.op = "mask"
      BY <1>1, <2>1, <3>2, CallKinds DEF Calls, InterruptCalls
    <3> QED BY <1>1, <3>1, <3>2
  <2>3. active' \subseteq Irqs /\ \A i \in Irqs : i \in active' =>
            (IF i = call.irq THEN on ELSE i \in active)
    BY <1>2, <2>1 DEF Masked, InterruptTypes
  <2>4. InterruptTypes' /\ CallType'
    BY <1>1, <2>1, <2>2, <2>3 DEF InterruptTypes, CallType
  <2>5. ASSUME NEW i \in Irqs PROVE Whole(i)'
    <3>1. Whole(i)
      BY DEF Served
    <3>2. ~Between(i, 2)' /\ ~Between(i, 3)' /\ ~Between(i, 2)
      BY <2>1, <2>2 DEF Between
    <3>3. ASSUME i \in active' PROVE table[i].handler # Nobody
      <4>1. CASE i # call.irq
        BY <2>3, <3>1, <3>2, <3>3, <4>1 DEF Whole, Between
      <4>2. CASE i = call.irq /\ call.op = "mask"
        BY <1>1, <4>2 DEF Served
      <4>3. CASE i = call.irq /\ call.op = "register"
        <5>1. Between(i, 3) /\ on
          BY <1>1, <2>1, <2>3, <3>3, <4>3 DEF Between
        <5> QED BY <3>1, <4>3, <5>1 DEF Whole
      <4> QED BY <1>1, <4>1, <4>2, <4>3
    <3> QED BY <2>1, <3>1, <3>2, <3>3 DEF Whole
  <2>6. Served'
    <3>1. call'.op = "mask" => table'[call'.irq].handler # Nobody
      BY <1>1, <1>4, <2>1 DEF Served
    <3> QED BY <1>1, <2>1, <2>5, <3>1 DEF Served, NoIsr
  <2> QED BY <1>3, <1>5, <2>4, <2>6
<1> QED BY <1>6, <1>7, <1>8

(* the end of a call,                                                      *)
LEMMA FinishStep == Inv /\ Finish => Inv'
<1> SUFFICES ASSUME Inv, Finish PROVE Inv'
  OBVIOUS
<1> USE DEF Inv
<1>1. /\ call # Idle /\ call' = Idle /\ pie' = call.saved /\ isr = NoIsr
      /\ UNCHANGED <<active, ienable, table, pending, isr>>
      /\ UNCHANGED <<rate, nticks, cursor, reset, links, alarms>>
      /\ call.op = "register" => call.step = 4
  BY DEF Finish, End, EnableAll, Runs, clock, list
<1>2. pie' \in BOOLEAN
  BY <1>1, CallKinds DEF Calls, InterruptCalls
<1>3. InterruptTypes'
  BY <1>1, <1>2 DEF InterruptTypes
<1>4. CallType' /\ IsrType' /\ ClockType' /\ ListOK'
  BY <1>1 DEF CallType, IsrType, ClockType, ListOK
<1>5. Apart' /\ Waits'
  BY <1>1 DEF Apart, Waits
<1>6. Served'
  <2>1. ASSUME NEW i \in Irqs PROVE Whole(i)'
    <3>1. Whole(i) /\ ~Between(i, 2) /\ ~Between(i, 3)
      BY <1>1 DEF Served, Between
    <3>2. ~Between(i, 2)' /\ ~Between(i, 3)'
      BY <1>1 DEF Between
    <3> QED BY <1>1, <3>1, <3>2 DEF Whole
  <2> QED BY <1>1, <2>1 DEF Served, NoIsr
<1> QED BY <1>3, <1>4, <1>5, <1>6

(* An interrupt is taken, handled, and the next one looked for.            *)
LEMMA HandlerStep ==
    ASSUME Inv, \/ Handlers \/ TickDone
                \/ \E i \in Irqs : Raise(i) /\ UNCHANGED <<clock, list>>
    PROVE  Inv'
<1> USE DEF Inv
<1>1. /\ UNCHANGED <<active, ienable, table, call>>
      /\ UNCHANGED <<rate, nticks, cursor, reset, links, alarms>>
  BY DEF Handlers, TickDone, Interrupt, Dispatch, Serve, Raise, Return, clock, list, cpu
<1>2. \/ UNCHANGED <<isr, pie>> /\ pending' \subseteq Irqs
      \/ /\ pending' \subseteq Irqs /\ pie' \in BOOLEAN
         /\ call = Idle /\ (isr' # NoIsr => pie' = FALSE)
         /\ \/ isr' = NoIsr
            \/ \E r \in SUBSET active : isr' = [at |-> "scan", irqs |-> r]
            \/ \E i \in active : isr' = [at |-> "serve", irq |-> i]
  <2>0. /\ ienable = active /\ active \subseteq Irqs /\ pending \subseteq Irqs
        /\ pie \in BOOLEAN
    BY DEF Served, InterruptTypes
  <2>1. CASE Interrupt
    <3>1. call = Idle
      BY <2>1 DEF Interrupt, Apart
    <3> QED BY <2>0, <2>1, <3>1 DEF Interrupt, Pending, NoIsr
  <2>2. CASE Dispatch
    <3>1. isr # NoIsr /\ isr.irqs \subseteq active
      BY <2>2 DEF Dispatch, NoIsr, Served
    <3>2. call = Idle /\ pie = FALSE
      BY <2>0, <3>1 DEF Apart
    <3> QED BY <2>0, <2>2, <3>1, <3>2 DEF Dispatch, Lowest, NoIsr, cpu
  <2>3. ASSUME NEW r, r \subseteq Irqs, Return(r), pending' = r, isr # NoIsr
        PROVE  /\ pending' \subseteq Irqs /\ pie' \in BOOLEAN
               /\ call = Idle /\ (isr' # NoIsr => pie' = FALSE)
               /\ \/ isr' = NoIsr
                  \/ \E s \in SUBSET active : isr' = [at |-> "scan", irqs |-> s]
    <3>1. call = Idle
      BY <2>3 DEF Apart
    <3>2. CASE r \intersect ienable = {}
      <4>1. isr' = NoIsr
        BY <2>3, <3>2 DEF Return
      <4>2. pie' \in BOOLEAN
        BY <2>3 DEF Return
      <4>3. pending' \subseteq Irqs
        BY <2>3
      <4> QED BY <3>1, <4>1, <4>2, <4>3, Zenon
    <3>3. CASE r \intersect ienable # {}
      BY <2>0, <2>3, <3>1, <3>3 DEF Return
    <3> QED BY <3>2, <3>3
  <2>4. CASE \E i \in Irqs : Serve(i)
    <3> PICK i \in Irqs : Serve(i)
      BY <2>4
    <3>1. Return(pending \ {i}) /\ pending' = pending \ {i} /\ isr # NoIsr
      BY DEF Serve, NoIsr
    <3> QED BY <2>0, <2>3, <3>1
  <2>5. CASE TickDone
    <3>1. Return(pending) /\ pending' = pending /\ isr # NoIsr
      BY <2>5 DEF TickDone, NoIsr, InTick
    <3> QED BY <2>0, <2>3, <3>1
  <2>6. CASE \E i \in Irqs : Raise(i)
    BY <2>0, <2>6 DEF Raise, cpu
  <2> QED BY <2>1, <2>2, <2>4, <2>5, <2>6 DEF Handlers
<1>3. InterruptTypes' /\ CallType' /\ ClockType' /\ ListOK'
  BY <1>1, <1>2 DEF InterruptTypes, CallType, ClockType, ListOK
<1>4. IsrType'
  BY <1>1, <1>2 DEF IsrType, IsrTypes, InterruptTypes
<1>5. Apart'
  BY <1>1, <1>2 DEF Apart
<1>6. Waits'
  BY <1>1 DEF Waits, Registered, Started
<1>7. Served'
  <2>1. ASSUME NEW i \in Irqs PROVE Whole(i)'
    <3>1. Whole(i)
      BY DEF Served
    <3>2. (Between(i, 2)' <=> Between(i, 2)) /\ (Between(i, 3)' <=> Between(i, 3))
      BY <1>1 DEF Between
    <3> QED BY <1>1, <3>1, <3>2 DEF Whole
  <2>2. isr'.at = "scan" => isr'.irqs \subseteq active
    BY <1>2 DEF Served, NoIsr
  <2>3. isr'.at = "serve" => isr'.irq \in active
    BY <1>2 DEF Served, NoIsr
  <2> QED BY <1>1, <2>1, <2>2, <2>3 DEF Served
<1> QED BY <1>3, <1>4, <1>5, <1>6, <1>7

(* What a step of alt_tick has to leave as it is.                          *)
LEMMA TickKeeps ==
    ASSUME Inv, isr # NoIsr, isr' = InTick, pending' \subseteq Irqs,
           UNCHANGED <<pie, active, ienable, table, call>>
    PROVE  /\ InterruptTypes' /\ CallType' /\ IsrType'
           /\ Apart' /\ Served' /\ Waits'
<1> USE DEF Inv
<1>1. InterruptTypes' /\ CallType' /\ IsrType'
  BY DEF InterruptTypes, CallType, IsrType
<1>2. call = Idle
  BY DEF Apart
<1>3. Apart' /\ Waits'
  BY <1>2 DEF Apart, Waits
<1>4. Served'
  <2>1. ASSUME NEW i \in Irqs PROVE Whole(i)'
    BY <1>2 DEF Served, Whole, Between
  <2> QED BY <1>2, <2>1 DEF Served, InTick
<1> QED BY <1>1, <1>3, <1>4

(* the beginning of alt_tick,                                              *)
LEMMA TickStep == Inv /\ Tick => Inv'
<1> SUFFICES ASSUME Inv, Tick PROVE Inv'
  OBVIOUS
<1>1. /\ isr # NoIsr /\ isr' = InTick /\ pending' \subseteq Irqs
      /\ UNCHANGED <<pie, active, ienable, table, call>>
      /\ UNCHANGED <<rate, reset, links, alarms>>
      /\ nticks' = Later(nticks, 1) /\ cursor' = links.next[Head]
  BY DEF Tick, NoIsr, cpu, list, Inv, InterruptTypes
<1>2. ClockType'
  <2>1. nticks' \in Ticking
    BY <1>1, LaterTicks DEF Inv, ClockType
  <2> QED BY <1>1, <2>1 DEF Inv, ClockType
<1>3. ListOK'
  <2>1. Linked(links) /\ Started(links, Head)
    BY DEF Inv, ListOK, Linked
  <2>2. cursor' \in Nodes /\ Started(links, cursor')
    BY <1>1, <2>1, NextStarted, NodeFacts
  <2> QED BY <1>1, <2>2 DEF Inv, ListOK
<1> QED BY <1>1, <1>2, <1>3, TickKeeps DEF Inv

(* A callback leaves the list linked.                                      *)
LEMMA CallBackStep ==
    ASSUME Inv, pie = FALSE, NEW a \in AlarmIds, Started(links, a),
           NEW al \in AlarmTypes, CallBack(a, al)
    PROVE  /\ Linked(links') /\ alarms' \in AlarmTypes /\ pie' = FALSE
           /\ \A x \in Nodes : Started(links, x) => Started(links', x)
<1>1. Linked(links) /\ nticks \in Ticking /\ a \in Nodes
  BY NodeFacts DEF Inv, ListOK, ClockType
<1>2. PICK p \in Periods :
        LET Answered(l, times) ==
                IF p = 0 THEN links' = Removed(l, a) /\ alarms' = times
                ELSE links' = l /\ alarms' = Renewed(times, a, p)
        IN \/ Answered(links, al) /\ UNCHANGED pie
           \/ \E b \in AlarmIds :
                 /\ Started(links, b) /\ Answered(Removed(links, b), al)
                 /\ pie' = EnableAll(pie)
           \/ \E b \in AlarmIds, n \in Intervals :
                 /\ ~Registered(links, b)
                 /\ Answered(Inserted(links, b), SetTime(al, b, nticks, n + 1))
                 /\ pie' = EnableAll(pie)
  BY DEF CallBack
<1>3. p \in Ticking
  BY TickAssumption
<1>4. ASSUME NEW l, Linked(l), \A x \in Nodes : Started(links, x) => Started(l, x),
             NEW t \in AlarmTypes,
             IF p = 0 THEN links' = Removed(l, a) /\ alarms' = t
             ELSE links' = l /\ alarms' = Renewed(t, a, p)
      PROVE  /\ Linked(links') /\ alarms' \in AlarmTypes
             /\ \A x \in Nodes : Started(links, x) => Started(links', x)
  <2>1. CASE p = 0
    BY <1>1, <1>4, <2>1, RemovedLinked
  <2>2. CASE p # 0
    <3>1. Renewed(t, a, p) \in AlarmTypes
      BY <1>1, <1>3, TimesTyped
    <3> QED BY <1>4, <2>2, <3>1
  <2> QED BY <2>1, <2>2
<1>5. CASE /\ IF p = 0 THEN links' = Removed(links, a) /\ alarms' = al
              ELSE links' = links /\ alarms' = Renewed(al, a, p)
           /\ UNCHANGED pie
  BY <1>1, <1>4, <1>5
<1>6. ASSUME NEW b \in AlarmIds, Started(links, b), pie' = EnableAll(pie),
             IF p = 0 THEN links' = Removed(Removed(links, b), a) /\ alarms' = al
             ELSE links' = Removed(links, b) /\ alarms' = Renewed(al, a, p)
      PROVE  /\ Linked(links') /\ alarms' \in AlarmTypes /\ pie' = FALSE
             /\ \A x \in Nodes : Started(links, x) => Started(links', x)
  <2>1. /\ Linked(Removed(links, b))
        /\ \A x \in Nodes : Started(links, x) => Started(Removed(links, b), x)
    BY <1>1, <1>6, RemovedLinked
  <2> QED BY <1>4, <1>6, <2>1 DEF EnableAll
<1>7. ASSUME NEW b \in AlarmIds, NEW n \in Intervals, ~Registered(links, b),
             pie' = EnableAll(pie),
             IF p = 0 THEN /\ links' = Removed(Inserted(links, b), a)
                           /\ alarms' = SetTime(al, b, nticks, n + 1)
             ELSE /\ links' = Inserted(links, b)
                  /\ alarms' = Renewed(SetTime(al, b, nticks, n + 1), a, p)
      PROVE  /\ Linked(links') /\ alarms' \in AlarmTypes /\ pie' = FALSE
             /\ \A x \in Nodes : Started(links, x) => Started(links', x)
  <2>1. /\ Linked(Inserted(links, b))
        /\ \A x \in Nodes : Started(links, x) => Started(Inserted(links, b), x)
    BY <1>1, <1>7, InsertedLinked
  <2>2. n + 1 \in Nat
    <3>1. n \in Nat
      BY TickAssumption, Units
    <3> QED BY <3>1
  <2>3. SetTime(al, b, nticks, n + 1) \in AlarmTypes
    BY <1>1, <2>2, TimesTyped
  <2> QED BY <1>4, <1>7, <2>1, <2>3 DEF EnableAll
<1> QED BY <1>2, <1>5, <1>6, <1>7

(* and its loop over the alarms.                                           *)
LEMMA VisitStep == Inv /\ Visit => Inv'
<1> SUFFICES ASSUME Inv, Visit PROVE Inv'
  OBVIOUS
<1> DEFINE al == Cleared(alarms, cursor)
<1>1. /\ isr # NoIsr /\ isr' = InTick /\ pending' = pending
      /\ UNCHANGED <<active, ienable, table, call>>
      /\ UNCHANGED <<rate, reset, nticks>>
      /\ cursor' = links.next[cursor] /\ cursor # Head
  BY DEF Visit, NoIsr, InTick
<1>2. /\ cursor \in AlarmIds /\ Started(links, cursor) /\ Linked(links)
      /\ pie = FALSE /\ pending \subseteq Irqs /\ alarms \in AlarmTypes
      /\ nticks \in Ticking
  BY <1>1 DEF Inv, ListOK, Nodes, Apart, InterruptTypes, ClockType
<1>3. al \in AlarmTypes
  BY <1>2, TimesTyped
<1>4. cursor' \in Nodes /\ Started(links, cursor')
  BY <1>1, <1>2, NextStarted, NodeFacts
<1>5. /\ Linked(links') /\ alarms' \in AlarmTypes /\ pie' = FALSE
      /\ \A x \in Nodes : Started(links, x) => Started(links', x)
  <2>1. CASE Due(cursor, al)
    <3>1. CallBack(cursor, al)
      BY <2>1 DEF Visit
    <3> HIDE DEF al
    <3> QED BY <1>2, <1>3, <3>1, CallBackStep
  <2>2. CASE ~Due(cursor, al)
    <3>1. alarms' = al /\ links' = links /\ pie' = pie
      BY <2>2 DEF Visit
    <3> QED BY <1>2, <1>3, <3>1
  <2> QED BY <2>1, <2>2
<1>6. ListOK'
  BY <1>4, <1>5 DEF ListOK
<1>7. ClockType'
  BY <1>1 DEF Inv, ClockType
<1> QED BY <1>1, <1>2, <1>5, <1>6, <1>7, TickKeeps DEF Inv

-----------------------------------------------------------------------------
(* The theorems.                                                           *)
THEOREM Invariance == Spec => []Inv
<1>1. Inv /\ UNCHANGED vars => Inv'
  <2> SUFFICES ASSUME Inv, UNCHANGED vars PROVE Inv'
    OBVIOUS
  <2> USE DEF Inv, vars, interruptVars, cpu, clock, list
  <2>1. InterruptTypes' /\ CallType' /\ IsrType' /\ ClockType' /\ ListOK'
    BY DEF InterruptTypes, CallType, IsrType, ClockType, ListOK
  <2>2. Apart' /\ Waits'
    BY DEF Apart, Waits, Registered, Started
  <2>3. Served'
    <3>1. ASSUME NEW i \in Irqs PROVE Whole(i)'
      BY DEF Served, Whole, Between
    <3> QED BY <3>1 DEF Served
  <2> QED BY <2>1, <2>2, <2>3
<1>2. Inv /\ Next => Inv'
  <2>1. CASE Program
    BY <2>1, ProgramStep
  <2>2. CASE Continues
    BY <2>2, StartStep, FinishStep, RegisterStep DEF Continues
  <2>3. CASE Serves
    BY <2>3, HandlerStep, TickStep, VisitStep DEF Serves
  <2>4. CASE \E i \in Irqs : Raise(i) /\ UNCHANGED <<clock, list>>
    BY <2>4, HandlerStep
  <2> QED BY <2>1, <2>2, <2>3, <2>4 DEF Next
<1> QED BY <1>1, <1>2, InitInv, PTL DEF Spec

(* Nothing leaves its type: the count of ticks and the times of the alarms *)
(* stay in the range of alt_u32, and every pointer of the list points to   *)
(* an alarm or to the head.                                                *)
THEOREM TicksTypeCorrect == Spec => []TypeOK
<1>1. Inv => TypeOK
  BY InvImplies
<1> QED BY <1>1, Invariance, PTL

(* No handler runs inside another, and none inside a call of the program   *)
(* that has turned interrupts off.                                         *)
THEOREM HandlersRunAlone == Spec => []Alone
<1>1. Inv => Alone
  BY InvImplies
<1> QED BY <1>1, Invariance, PTL

(* A handler that is called is the one that was registered, with its own   *)
(* context, and its interrupt is on.                                       *)
THEOREM HandlersAreRight == Spec => []RightHandler
<1>1. Inv => RightHandler
  BY InvImplies
<1> QED BY <1>1, Invariance, PTL

(* Whatever the program, the callbacks and the walk itself start and stop, *)
(* the list of alarms is a ring.                                           *)
THEOREM ListIsRing == Spec => []Ring
<1>1. Inv => Ring
  BY InvImplies
<1> QED BY <1>1, Invariance, PTL

(* settimeofday() does what it says while the product fits in 32 bits.     *)
THEOREM ClockSets == Spec => ClockIsSet
<1>1. Inv => [\A t \in Times : SetTimeOfDay(t) /\ nticks * TickLength < TickRange
                => WallTime(reset', nticks) = t]_vars
  <2> SUFFICES ASSUME Inv, NEW t \in Times, SetTimeOfDay(t),
                      nticks * TickLength < TickRange
               PROVE  WallTime(reset', nticks) = t
    OBVIOUS
  <2>1. nticks \in Nat
    BY Units DEF Inv, ClockType, Ticking
  <2>2. reset' = ResetTime(t, nticks)
    BY DEF SetTimeOfDay
  <2> QED BY <2>1, <2>2, SetThenGet
<1> QED BY <1>1, Invariance, PTL DEF ClockIsSet

(* The clock advances by one tick's length with every tick.                *)
THEOREM ClockAdvances == Spec => ClockMovesOn
<1>1. Inv => [nticks' = nticks + 1 /\ Micros(reset) + nticks * TickLength >= 0
              => Micros(WallTime(reset, nticks'))
                   = Micros(WallTime(reset, nticks)) + TickLength]_vars
  <2> SUFFICES ASSUME Inv, nticks' = nticks + 1,
                      Micros(reset) + nticks * TickLength >= 0
               PROVE  Micros(WallTime(reset, nticks'))
                        = Micros(WallTime(reset, nticks)) + TickLength
    OBVIOUS
  <2> DEFINE n == nticks
             L == TickLength
             M == Micros(reset)
  <2>1. n \in Nat /\ reset \in [sec : Int, usec : Int]
    BY Units DEF Inv, ClockType, Ticking
  <2>2. M \in Int
    BY <2>1, Units, SMT DEF Micros
  <2>3. n + 1 \in Nat /\ (n + 1) * L = n * L + L /\ n * L \in Nat
    <3>1. L \in Nat /\ n \in Nat
      BY <2>1, Units
    <3> HIDE DEF n, L
    <3> QED BY <3>1, SMT
  <2>4. M + (n + 1) * L >= 0
    <3>1. L \in Nat
      BY Units
    <3> HIDE DEF n, L, M
    <3> DEFINE x == n * L
               y == (n + 1) * L
    <3>2. x \in Nat /\ y = x + L /\ M + x >= 0
      BY <2>3 DEF n, L, M
    <3> HIDE DEF x, y
    <3>3. M + y >= 0
      BY <2>2, <3>1, <3>2
    <3> QED BY <3>3 DEF y
  <2>5. Micros(WallTime(reset, n)) = M + n * L
    BY <2>1, WallTimeIsExact
  <2>6. Micros(WallTime(reset, n + 1)) = M + (n + 1) * L
    BY <2>1, <2>3, <2>4, WallTimeIsExact
  <2>7. M + (n + 1) * L = (M + n * L) + L
    <3>1. L \in Nat
      BY Units
    <3> HIDE DEF n, L, M
    <3> DEFINE x == n * L
    <3>2. x \in Nat /\ (n + 1) * L = x + L
      BY <2>3
    <3> HIDE DEF x
    <3>3. M + (x + L) = (M + x) + L
      BY <2>2, <3>1, <3>2
    <3> QED BY <3>2, <3>3 DEF x
  <2> QED BY <2>5, <2>6, <2>7
<1> QED BY <1>1, Invariance, PTL DEF ClockMovesOn

(* Both together: the clock shows what was set, and runs on with the ticks. *)
THEOREM WallClockFollowsTicks == Spec => WallClock
BY ClockSets, ClockAdvances, PTL DEF WallClock

-----------------------------------------------------------------------------
(* The alarms in the order of the list.  That they can be numbered so that *)
(* the numbers rise from each alarm to the next says that the walk from    *)
(* the head comes to every one of them: it is all that a proof needs of    *)
(* how the pointers lead on.                                               *)
Sorted(l, pos) ==
    /\ pos \in [AlarmIds -> Int]
    /\ \A x \in AlarmIds : Registered(l, x) =>
        /\ l.next[Head] # Head /\ pos[l.next[Head]] <= pos[x]
        /\ l.next[x] # Head => pos[x] < pos[l.next[x]]
        /\ \A y \in AlarmIds : Registered(l, y) =>
              /\ pos[x] = pos[y] => x = y
              /\ pos[x] < pos[y] => l.next[x] # Head /\ pos[l.next[x]] <= pos[y]

(* What a node that is in the list points to is in the list, too.          *)
LEMMA NextRegistered ==
    ASSUME NEW l, Linked(l), NEW x \in Nodes, x = Head \/ Registered(l, x),
           l.next[x] # Head
    PROVE  l.next[x] \in AlarmIds /\ Registered(l, l.next[x])
<1> DEFINE y == l.next[x]
<1>1. Leads(l, x) /\ Started(l, x) /\ Null \notin Nodes
  BY NodeFacts DEF Linked, Registered, Started
<1>2. y \in Nodes /\ l.prev[y] = x /\ Started(l, y)
  BY <1>1, NextStarted DEF Leads, Started
<1>3. y \in AlarmIds /\ y # x
  BY <1>2, NodeFacts DEF Nodes, Registered
<1>4. Leads(l, y)
  BY <1>2 DEF Linked
<1>5. l.next[y] # y /\ l.next[y] # Null
  BY <1>2, <1>3, <1>4 DEF Leads, Started
<1> QED BY <1>3, <1>5 DEF Registered

(* An alarm that is inserted comes before all others.                      *)
LEMMA InsertedSorted ==
    ASSUME NEW l, Linked(l), NEW a \in AlarmIds, ~Registered(l, a),
           NEW pos, Sorted(l, pos)
    PROVE  /\ \A x \in AlarmIds :
                Registered(Inserted(l, a), x) <=> x = a \/ Registered(l, x)
           /\ \A x \in AlarmIds \ {a} : Inserted(l, a).next[x] = l.next[x]
           /\ \E q : /\ Sorted(Inserted(l, a), q)
                     /\ \A x \in AlarmIds \ {a} : q[x] = pos[x]
                     /\ \A x \in AlarmIds : Registered(l, x) => q[a] < q[x]
<1> DEFINE first == l.next[Head]
           m == Inserted(l, a)
           q == [pos EXCEPT ![a] = IF first = Head THEN 0 ELSE pos[first] - 1]
<1>1. /\ l \in LinkTypes /\ Head \in Nodes /\ a \in Nodes /\ a # Head
      /\ Null \notin Nodes /\ Head \notin AlarmIds /\ AlarmIds \subseteq Nodes
      /\ pos \in [AlarmIds -> Int]
  BY NodeFacts DEF Linked, Sorted
<1>2. first \in Nodes /\ first # a
  <2>1. first \in Nodes /\ l.prev[first] = Head
    BY <1>1 DEF Linked, Leads, Started
  <2>2. \/ l.next[a] = a /\ l.prev[a] = a
        \/ l.next[a] = Null /\ l.prev[a] = Null
    BY <1>1 DEF Linked, Leads, Registered
  <2> QED BY <1>1, <2>1, <2>2
<1>3. first # Head => first \in AlarmIds /\ Registered(l, first)
  BY <1>1, NextRegistered
<1>4. m.next = [l.next EXCEPT ![a] = first, ![Head] = a]
  BY DEF Inserted
<1> HIDE DEF m
<1>5. \A x \in Nodes : m.next[x] = IF x = Head THEN a ELSE IF x = a THEN first
                                   ELSE l.next[x]
  BY <1>1, <1>2, <1>4 DEF LinkTypes
<1>6. \A x \in AlarmIds : Registered(m, x) <=> x = a \/ Registered(l, x)
  BY <1>1, <1>2, <1>5 DEF Registered
<1>7. \A x \in AlarmIds : x # a => m.next[x] = l.next[x]
  BY <1>1, <1>5
<1>8. /\ q \in [AlarmIds -> Int] /\ \A x \in AlarmIds \ {a} : q[x] = pos[x]
      /\ first # Head => q[a] < q[first] /\ q[first] = pos[first]
  BY <1>1, <1>2, <1>3
<1> HIDE DEF q
<1>9. ASSUME NEW x \in AlarmIds, Registered(l, x)
      PROVE  first # Head /\ q[a] < q[x] /\ q[first] <= q[x]
  <2>1. x # a /\ first # Head /\ pos[first] <= pos[x]
    BY <1>9 DEF Sorted
  <2>2. q[x] = pos[x] /\ q[first] = pos[first] /\ q[a] < q[first]
    BY <1>8, <2>1
  <2>3. q[x] \in Int /\ q[first] \in Int /\ q[a] \in Int
    BY <1>3, <1>8, <2>1
  <2> QED BY <2>1, <2>2, <2>3
<1>10. Sorted(m, q)
  <2> SUFFICES ASSUME NEW x \in AlarmIds, Registered(m, x)
               PROVE  /\ m.next[Head] # Head /\ q[m.next[Head]] <= q[x]
                      /\ m.next[x] # Head => q[x] < q[m.next[x]]
                      /\ \A y \in AlarmIds : Registered(m, y) =>
                           /\ q[x] = q[y] => x = y
                           /\ q[x] < q[y] => /\ m.next[x] # Head
                                             /\ q[m.next[x]] <= q[y]
    BY <1>8 DEF Sorted
  <2>1. m.next[Head] = a /\ a # Head /\ q[a] \in Int
    BY <1>1, <1>5, <1>8
  <2>2. CASE x = a
    <3>1. m.next[x] = first
      BY <1>1, <1>5, <2>2
    <3> QED BY <1>6, <1>8, <1>9, <2>1, <2>2, <3>1
  <2>3. CASE x # a
    <3>1. Registered(l, x) /\ m.next[x] = l.next[x] /\ q[x] = pos[x]
      BY <1>6, <1>7, <1>8, <2>3
    <3>2. q[a] < q[x] /\ q[x] \in Int
      BY <1>8, <1>9, <3>1
    <3>3. l.next[x] # Head => l.next[x] \in AlarmIds /\ Registered(l, l.next[x])
      BY <1>1, <3>1, NextRegistered
    <3>4. l.next[x] # Head => l.next[x] # a /\ q[l.next[x]] = pos[l.next[x]]
      BY <1>8, <3>3
    <3>5. m.next[x] # Head => q[x] < q[m.next[x]]
      BY <3>1, <3>4 DEF Sorted
    <3>6. ASSUME NEW y \in AlarmIds, Registered(m, y)
          PROVE  /\ q[x] = q[y] => x = y
                 /\ q[x] < q[y] => m.next[x] # Head /\ q[m.next[x]] <= q[y]
      <4>1. CASE y = a
        BY <2>1, <3>2, <4>1
      <4>2. CASE y # a
        <5>1. Registered(l, y) /\ q[y] = pos[y]
          BY <1>6, <1>8, <3>6, <4>2
        <5> QED BY <3>1, <3>4, <5>1 DEF Sorted
      <4> QED BY <4>1, <4>2
    <3> QED BY <2>1, <3>2, <3>5, <3>6
  <2> QED BY <2>2, <2>3
<1> QED BY <1>6, <1>7, <1>8, <1>9, <1>10 DEF m

(* Removal leaves the others in their order.                               *)
LEMMA RemovedSorted ==
    ASSUME NEW l, Linked(l), NEW a \in AlarmIds, Started(l, a),
           NEW pos, Sorted(l, pos)
    PROVE  /\ \A x \in AlarmIds :
                Registered(Removed(l, a), x) <=> x # a /\ Registered(l, x)
           /\ Sorted(Removed(l, a), pos)
<1> DEFINE p == l.prev[a]
           n == l.next[a]
           m == Removed(l, a)
<1>1. /\ l \in LinkTypes /\ Head \in Nodes /\ a \in Nodes /\ a # Head
      /\ Null \notin Nodes /\ Head \notin AlarmIds /\ AlarmIds \subseteq Nodes
      /\ pos \in [AlarmIds -> Int]
  BY NodeFacts DEF Linked, Sorted
<1>2. p \in Nodes /\ n \in Nodes /\ l.next[p] = a /\ l.prev[n] = a
  BY <1>1 DEF Linked, Leads, Started
<1>3. m.next = [l.next EXCEPT ![p] = n, ![a] = a]
  BY DEF Removed
<1>4. n # Head /\ n # a => n \in AlarmIds /\ Registered(l, n)
  BY <1>1, <1>2, NextRegistered DEF Registered
<1> HIDE DEF m
<1>5. \A x \in Nodes : m.next[x] = IF x = a THEN a ELSE IF x = p THEN n ELSE l.next[x]
  BY <1>1, <1>2, <1>3 DEF LinkTypes
<1>6. \A x \in Nodes : l.next[x] = a => x = p
  <2> TAKE x \in Nodes
  <2>1. l.next[x] = a => l.prev[a] = x
    BY <1>1 DEF Linked, Leads
  <2> QED BY <2>1
<1> HIDE DEF p, n
<1>7. CASE n = a
  <2>1. p = a
    BY <1>1, <1>2, <1>6, <1>7 DEF n, p
  <2>2. ~Registered(l, a) /\ \A x \in Nodes : m.next[x] = l.next[x]
    BY <1>1, <1>5, <1>7, <2>1 DEF Registered, n
  <2>3. \A x \in AlarmIds : Registered(m, x) <=> Registered(l, x)
    BY <1>1, <2>2 DEF Registered
  <2>4. Sorted(m, pos)
    BY <1>1, <2>2, <2>3 DEF Sorted
  <2> QED BY <2>2, <2>3, <2>4 DEF m
<1>8. CASE n # a
  <2>0. Registered(l, a) /\ p # a
    BY <1>1, <1>2, <1>8 DEF Registered, n
  <2>1. p # Head => p \in AlarmIds /\ Registered(l, p) /\ pos[p] < pos[a]
    <3>1. p # Head => p \in AlarmIds /\ Registered(l, p)
      BY <1>1, <1>2, <2>0 DEF Nodes, Registered
    <3> QED BY <1>1, <1>2, <3>1 DEF Sorted
  <2>2. n # Head => n \in AlarmIds /\ Registered(l, n) /\ pos[a] < pos[n]
    BY <1>4, <1>8, <2>0 DEF Sorted, n
  <2>3. ASSUME NEW x \in AlarmIds
        PROVE  Registered(m, x) <=> x # a /\ Registered(l, x)
    <3>1. CASE x = a
      BY <1>1, <1>5, <3>1 DEF Registered
    <3>2. CASE x # a /\ x # p
      BY <1>1, <1>5, <3>2 DEF Registered
    <3>3. CASE x = p
      <4>1. m.next[x] = n /\ Registered(l, x) /\ pos[x] < pos[a]
        BY <1>1, <1>5, <2>0, <2>1, <3>3
      <4>2. n # x
        <5>1. n = x => pos[a] < pos[x]
          BY <1>1, <2>2
        <5>2. pos[a] \in Int /\ pos[x] \in Int
          BY <1>1
        <5> QED BY <4>1, <5>1, <5>2
      <4> QED BY <1>1, <1>2, <2>0, <3>3, <4>1, <4>2 DEF Registered
    <3> QED BY <3>1, <3>2, <3>3
  <2>4. ASSUME NEW x \in AlarmIds, x # a, Registered(l, x)
        PROVE  m.next[Head] # Head /\ pos[m.next[Head]] <= pos[x]
    <3>1. l.next[Head] # Head /\ pos[l.next[Head]] <= pos[x]
      BY <2>4 DEF Sorted
    <3>2. CASE p = Head
      <4>1. l.next[Head] = a /\ m.next[Head] = n
        BY <1>1, <1>2, <1>5, <3>2
      <4>2. pos[a] <= pos[x] /\ pos[a] # pos[x]
        BY <2>0, <2>4, <3>1, <4>1 DEF Sorted
      <4>3. pos[a] < pos[x]
        <5>1. pos[a] \in Int /\ pos[x] \in Int
          BY <1>1
        <5> QED BY <4>2, <5>1
      <4> QED BY <2>0, <2>4, <4>1, <4>3 DEF Sorted, n
    <3>3. CASE p # Head
      <4>1. m.next[Head] = l.next[Head]
        BY <1>1, <1>5, <3>3
      <4> QED BY <3>1, <4>1
    <3> QED BY <3>2, <3>3
  <2>5. ASSUME NEW x \in AlarmIds, x # a, Registered(l, x), m.next[x] # Head
        PROVE  pos[x] < pos[m.next[x]]
    <3>1. CASE x = p
      <4>1. m.next[x] = n /\ pos[x] < pos[a] /\ pos[a] < pos[n] /\ n \in AlarmIds
        BY <1>1, <1>5, <2>1, <2>2, <2>5, <3>1
      <4>2. pos[x] \in Int /\ pos[a] \in Int /\ pos[n] \in Int
        BY <1>1, <4>1
      <4> QED BY <4>1, <4>2
    <3>2. CASE x # p
      <4>1. m.next[x] = l.next[x]
        BY <1>1, <1>5, <2>5, <3>2
      <4> QED BY <2>5, <4>1 DEF Sorted
    <3> QED BY <3>1, <3>2
  <2>6. ASSUME NEW x \in AlarmIds, x # a, Registered(l, x),
               NEW y \in AlarmIds, y # a, Registered(l, y), pos[x] < pos[y]
        PROVE  m.next[x] # Head /\ pos[m.next[x]] <= pos[y]
    <3>1. l.next[x] # Head /\ pos[l.next[x]] <= pos[y]
      BY <2>6 DEF Sorted
    <3>2. CASE x = p
      <4>1. l.next[x] = a /\ m.next[x] = n
        BY <1>1, <1>2, <1>5, <2>6, <3>2
      <4>2. pos[a] <= pos[y] /\ pos[a] # pos[y]
        BY <2>0, <2>6, <3>1, <4>1 DEF Sorted
      <4>3. pos[a] < pos[y]
        <5>1. pos[a] \in Int /\ pos[y] \in Int
          BY <1>1
        <5> QED BY <4>2, <5>1
      <4> QED BY <2>0, <2>6, <4>1, <4>3 DEF Sorted, n
    <3>3. CASE x # p
      <4>1. m.next[x] = l.next[x]
        BY <1>1, <1>5, <2>6, <3>3
      <4> QED BY <3>1, <4>1
    <3> QED BY <3>2, <3>3
  <2>7. Sorted(m, pos)
    <3>1. ASSUME NEW x \in AlarmIds, NEW y \in AlarmIds,
                 Registered(l, x), Registered(l, y), pos[x] = pos[y]
          PROVE  x = y
      BY <3>1 DEF Sorted
    <3> QED BY <1>1, <2>3, <2>4, <2>5, <2>6, <3>1 DEF Sorted
  <2> QED BY <2>3, <2>7 DEF m
<1> QED BY <1>7, <1>8

-----------------------------------------------------------------------------
(* What is left of an alarm's time.  An alarm is early while it is at its  *)
(* time, or the flag of its time has to be cleared, and the walk has not   *)
(* come to it.                                                             *)
LeftOf(l, al, a) ==
    IF ~Registered(l, a) THEN -1
    ELSE IF al.rollover[a] /\ nticks # 0 THEN al.time[a] + TickRange - nticks
    ELSE al.time[a] - nticks
Sound(al, a) == al.rollover[a] \/ nticks <= al.time[a]
Early(al, a) == IF al.rollover[a] THEN nticks = 0 ELSE al.time[a] = nticks

(* The count rolls over once at most.                                      *)
LEMMA LaterIs ==
    ASSUME NEW t \in Ticking, NEW n \in Ticking
    PROVE  Later(t, n) = IF t + n < TickRange THEN t + n ELSE t + n - TickRange
<1> DEFINE R == TickRange
<1>1. R \in Nat /\ R > 2 /\ t \in Nat /\ n \in Nat /\ t < R /\ n < R
  BY Units DEF Ticking
<1> HIDE DEF R
<1>2. CASE t + n < R
  <2>1. (t + n) % R = t + n
    BY <1>1, <1>2, SMT
  <2> QED BY <1>2, <2>1 DEF Later, R
<1>3. CASE ~(t + n < R)
  <2>1. (t + n) % R = t + n - R
    <3>1. t + n - R \in Nat /\ t + n - R < R /\ t + n = 1 * R + (t + n - R)
      BY <1>1, <1>3
    <3>2. (1 * R + (t + n - R)) % R = t + n - R
      BY <1>1, <3>1, RemainderOf
    <3> QED BY <3>1, <3>2
  <2> QED BY <1>3, <2>1 DEF Later, R
<1> QED BY <1>2, <1>3

(* An alarm that is set n ticks ahead has n ticks left.                    *)
LEMMA SetAhead ==
    ASSUME nticks \in Ticking, NEW al \in AlarmTypes, NEW a \in AlarmIds,
           NEW n \in 1 .. TickRange - 1, al.time[a] = Later(nticks, n),
           al.rollover[a] = (al.time[a] < nticks)
    PROVE  /\ Sound(al, a) /\ ~Early(al, a)
           /\ \A l : Registered(l, a) => LeftOf(l, al, a) = n
<1> DEFINE R == TickRange
           t == al.time[a]
<1>1. /\ R \in Nat /\ nticks \in Nat /\ nticks < R /\ n \in Nat /\ n > 0 /\ n < R
      /\ n \in Ticking
  BY Units DEF Ticking
<1>2. t = IF nticks + n < R THEN nticks + n ELSE nticks + n - R
  BY <1>1, LaterIs
<1>3. al.rollover[a] = (t < nticks)
  OBVIOUS
<1>4. t \in Nat
  BY <1>1, <1>2
<1> HIDE DEF R, t
<1>5. CASE nticks + n < R
  <2>1. t = nticks + n /\ ~(t < nticks) /\ t # nticks /\ nticks <= t /\ t - nticks = n
    BY <1>1, <1>2, <1>5
  <2>2. ~al.rollover[a]
    BY <1>3, <2>1
  <2> QED BY <2>1, <2>2 DEF Sound, Early, LeftOf, t
<1>6. CASE ~(nticks + n < R)
  <2>1. /\ t = nticks + n - R /\ t < nticks /\ nticks # 0
        /\ t + R - nticks = n
    BY <1>1, <1>2, <1>6
  <2>2. al.rollover[a]
    BY <1>3, <2>1
  <2> QED BY <2>1, <2>2 DEF Sound, Early, LeftOf, t, R
<1> QED BY <1>5, <1>6

Same(al, m, b) == m.time[b] = al.time[b] /\ m.rollover[b] = al.rollover[b]

(* What is left of an alarm nobody touches is the same.                    *)
LEMMA SameLeft ==
    ASSUME NEW al, NEW m, NEW b, Same(al, m, b)
    PROVE  /\ Sound(m, b) <=> Sound(al, b)
           /\ Early(m, b) <=> Early(al, b)
           /\ \A l : LeftOf(l, m, b) = LeftOf(l, al, b)
BY DEF Same, Sound, Early, LeftOf

(* An alarm set n ticks ahead is n ticks away, the others keep theirs.     *)
LEMMA SetTimeCounts ==
    ASSUME nticks \in Ticking, NEW al \in AlarmTypes, NEW a \in AlarmIds,
           NEW n \in 1 .. TickRange - 1
    PROVE  LET m == SetTime(al, a, nticks, n) IN
           /\ m \in AlarmTypes /\ Sound(m, a) /\ ~Early(m, a)
           /\ \A l : Registered(l, a) => LeftOf(l, m, a) = n
           /\ \A b \in AlarmIds \ {a} : Same(al, m, b)
<1> DEFINE m == SetTime(al, a, nticks, n)
<1>1. n \in Nat
  BY Units
<1>2. m \in AlarmTypes
  BY <1>1, TimesTyped
<1>3. /\ m.time[a] = Later(nticks, n) /\ m.rollover[a] = (Later(nticks, n) < nticks)
      /\ \A b \in AlarmIds \ {a} : Same(al, m, b)
  BY DEF SetTime, AlarmTypes, Same
<1> HIDE DEF m
<1>4. /\ Sound(m, a) /\ ~Early(m, a)
      /\ \A l : Registered(l, a) => LeftOf(l, m, a) = n
  BY <1>2, <1>3, SetAhead
<1> QED BY <1>2, <1>3, <1>4 DEF m

(* The answer of a callback counts from the time of the alarm.             *)
LEMMA RenewedCounts ==
    ASSUME nticks \in Ticking, NEW al \in AlarmTypes, NEW a \in AlarmIds,
           NEW n \in Ticking, n # 0
    PROVE  LET m == Renewed(al, a, n) IN
           /\ m \in AlarmTypes /\ Sound(m, a)
           /\ \A b \in AlarmIds \ {a} : Same(al, m, b)
           /\ al.time[a] = nticks /\ ~al.rollover[a] =>
                /\ ~Early(m, a)
                /\ \A l : Registered(l, a) => LeftOf(l, m, a) = n
<1> DEFINE m == Renewed(al, a, n)
           t == Later(al.time[a], n)
<1>1. m \in AlarmTypes
  BY TimesTyped
<1>2. t \in Ticking
  BY LaterTicks DEF AlarmTypes
<1>3. /\ m.time[a] = t /\ m.rollover[a] = ((t < nticks) \/ al.rollover[a])
      /\ \A b \in AlarmIds \ {a} : Same(al, m, b)
  <2> DEFINE s == SetTime(al, a, al.time[a], n)
  <2>1. /\ s.time[a] = t /\ s.rollover[a] = (t < nticks)
        /\ \A b \in AlarmIds \ {a} : Same(al, s, b)
    BY DEF SetTime, AlarmTypes, Same
  <2>2. s \in AlarmTypes
    <3>1. (t < nticks) \in BOOLEAN
      OBVIOUS
    <3> QED BY <1>2, <3>1 DEF SetTime, AlarmTypes
  <2> HIDE DEF s, t
  <2>3. CASE al.rollover[a]
    <3>1. m = [s EXCEPT !.rollover[a] = TRUE]
      BY <2>3 DEF Renewed, s
    <3> HIDE DEF m
    <3>2. /\ m.time = s.time /\ m.rollover[a] = TRUE
          /\ \A b \in AlarmIds \ {a} : m.rollover[b] = s.rollover[b]
      BY <2>2, <3>1 DEF AlarmTypes
    <3>3. ((t < nticks) \/ al.rollover[a]) = TRUE
      BY <2>3
    <3> QED BY <2>1, <3>2, <3>3 DEF Same
  <2>4. CASE ~al.rollover[a]
    <3>1. m = s
      BY <2>4 DEF Renewed, s
    <3> QED BY <2>1, <2>4, <3>1 DEF AlarmTypes
  <2> QED BY <2>3, <2>4
<1> HIDE DEF m
<1>4. Sound(m, a)
  <2>1. t \in Int /\ nticks \in Int
    BY <1>2, Units DEF Ticking
  <2> HIDE DEF t
  <2>2. t < nticks \/ nticks <= t
    BY <2>1
  <2> QED BY <1>3, <2>2 DEF Sound
<1>5. ASSUME al.time[a] = nticks, ~al.rollover[a]
      PROVE  ~Early(m, a) /\ \A l : Registered(l, a) => LeftOf(l, m, a) = n
  <2>1. m.time[a] = Later(nticks, n) /\ m.rollover[a] = (m.time[a] < nticks)
    BY <1>3, <1>5
  <2>2. n \in 1 .. TickRange - 1
    BY Units DEF Ticking
  <2> QED BY <1>1, <2>1, <2>2, SetAhead
<1> QED BY <1>1, <1>3, <1>4, <1>5 DEF m

(* The walk clears the flag in the tick in which it has done its work.     *)
LEMMA ClearedCounts ==
    ASSUME nticks \in Ticking, NEW al \in AlarmTypes, NEW a \in AlarmIds
    PROVE  LET m == Cleared(al, a) IN
           /\ m \in AlarmTypes /\ m.time[a] = al.time[a]
           /\ m.rollover[a] => nticks # 0
           /\ Sound(al, a) => Sound(m, a)
           /\ \A l : LeftOf(l, m, a) = LeftOf(l, al, a)
           /\ \A b \in AlarmIds \ {a} : Same(al, m, b)
<1> DEFINE m == Cleared(al, a)
<1>1. m \in AlarmTypes
  BY TimesTyped, Units DEF Ticking
<1>2. CASE nticks = 0
  <2>1. /\ m.time = al.time /\ m.rollover[a] = FALSE
        /\ \A b \in AlarmIds \ {a} : m.rollover[b] = al.rollover[b]
    BY <1>2 DEF Cleared, AlarmTypes
  <2>2. 0 <= m.time[a]
    BY <1>1, Units DEF AlarmTypes, Ticking
  <2> HIDE DEF m
  <2> QED BY <1>1, <1>2, <2>1, <2>2 DEF Sound, LeftOf, Same, m
<1>3. CASE nticks # 0
  <2>1. m = al
    BY <1>3 DEF Cleared
  <2> QED BY <1>1, <1>3, <2>1 DEF Same
<1> QED BY <1>2, <1>3

-----------------------------------------------------------------------------
(* What the countdown rests on.  Every alarm in the list that is early is  *)
(* still ahead of the walk, so that there is none when the walk is done    *)
(* and the next tick may come.  A walk led astray has all ahead of it: it  *)
(* gets out only when a callback puts its alarm back at the head.          *)
Ahead(pos, a) ==
    /\ isr = InTick /\ cursor # Head
    /\ Registered(links, cursor) => pos[cursor] <= pos[a]
Counts(pos) ==
    /\ Sorted(links, pos)
    /\ \A a \in AlarmIds : Registered(links, a) =>
          /\ Sound(alarms, a)
          /\ Early(alarms, a) => Ahead(pos, a)

(* An alarm has its time when it is put into the list.                     *)
Timed ==
    call # Idle /\ call.op = "start" /\ call.step = 2 =>
        /\ alarms.time[call.alarm] = Later(nticks, call.n + 1)
        /\ alarms.rollover[call.alarm] = (alarms.time[call.alarm] < nticks)

Countable == \E pos : Counts(pos)
CountInv == Timed /\ Countable

(* At the start no alarm is in the list.                                   *)
LEMMA InitCounts == Init => CountInv /\ Promise!Init
<1> SUFFICES ASSUME Init PROVE CountInv /\ Promise!Init
  OBVIOUS
<1>1. \A a \in AlarmIds : ~Registered(links, a)
  BY NodeFacts DEF Init, Registered
<1>2. Counts([a \in AlarmIds |-> 0])
  BY <1>1 DEF Counts, Sorted
<1>3. Timed
  BY DEF Timed, Init, InterruptInit
<1>4. Left = [a \in AlarmIds |-> -1]
  BY <1>1 DEF Left
<1> QED BY <1>2, <1>3, <1>4 DEF CountInv, Countable, Promise!Init, Promise!Off

(* Left, alarm by alarm.                                                   *)
LEMMA LeftIs == Left = [a \in AlarmIds |-> LeftOf(links, alarms, a)]
BY DEF Left, LeftOf

(* What depends on the clock alone is the same when that is.               *)
LEMMA SameTick ==
    ASSUME nticks' = nticks
    PROVE  /\ Left' = [a \in AlarmIds |-> LeftOf(links', alarms', a)]
           /\ \A a : /\ Sound(alarms, a)' <=> Sound(alarms', a)
                     /\ Early(alarms, a)' <=> Early(alarms', a)
BY DEF Left, LeftOf, Sound, Early

(* The same list is sorted in the same way.                                *)
LEMMA SortedSame == ASSUME NEW pos, Sorted(links, pos), links' = links
                    PROVE  Sorted(links, pos)'
BY DEF Sorted, Registered

(* No alarm is early unless a walk is under way.                           *)
LEMMA NoneEarly ==
    ASSUME NEW pos, Counts(pos), isr # InTick \/ cursor = Head,
           NEW a \in AlarmIds, Registered(links, a)
    PROVE  ~Early(alarms, a)
BY DEF Counts, Ahead

-----------------------------------------------------------------------------
(* Steps that leave the list and the count alone.                          *)
LEMMA QuietStep ==
    ASSUME CountInv, UNCHANGED <<nticks, cursor, links, alarms>>,
           isr = InTick => isr' = InTick \/ cursor = Head, Timed'
    PROVE  CountInv' /\ UNCHANGED Left
<1>1. PICK pos : Counts(pos)
  BY DEF CountInv, Countable
<1>2. ASSUME NEW a \in AlarmIds, Registered(links, a)
      PROVE  /\ Sound(alarms, a)'
             /\ Early(alarms, a)' => Ahead(pos, a)'
  BY <1>1, <1>2 DEF Counts, Sound, Early, Ahead
<1>3. Counts(pos)'
  BY <1>1, <1>2, SortedSame DEF Counts, Registered
<1>4. Left' = Left
  BY DEF Left
<1> QED BY <1>3, <1>4 DEF CountInv, Countable

(* The calls that do not touch the list.                                   *)
LEMMA OtherCalls ==
    ASSUME Inv, CountInv, Program \/ Finish
           \/ ((SetHandler \/ SetContext \/ WriteMask) /\ UNCHANGED <<clock, list>>)
    PROVE  CountInv' /\ UNCHANGED Left
<1>1. /\ UNCHANGED <<nticks, cursor, links, alarms, isr>>
  <2>1. CASE Program
    BY <2>1 DEF Program, ClockDriver, Stop, Start, SetTimeOfDay, Register, SetMask,
                Begin, clock, list, interruptVars
  <2>2. CASE Finish
    BY <2>2 DEF Finish, End, clock, list
  <2>3. CASE (SetHandler \/ SetContext \/ WriteMask) /\ UNCHANGED <<clock, list>>
    BY <2>3 DEF SetHandler, SetContext, WriteMask, clock, list
  <2> QED BY <2>1, <2>2, <2>3
<1>2. Timed'
  <2>1. CASE Program
    <3>1. ASSUME NEW c, Begin(c), c.step # 2 PROVE Timed'
      BY <3>1 DEF Begin, Timed
    <3>2. CASE ClockDriver
      BY <3>1, <3>2 DEF ClockDriver, Register
    <3>3. ASSUME NEW a \in AlarmIds, Stop(a) PROVE Timed'
      BY <3>1, <3>3 DEF Stop
    <3>4. ASSUME NEW a \in AlarmIds, NEW n \in Intervals, Start(a, n) PROVE Timed'
      BY <3>1, <3>4 DEF Start
    <3>5. ASSUME NEW t \in Times, SetTimeOfDay(t) PROVE Timed'
      BY <3>5 DEF SetTimeOfDay, interruptVars, Timed
    <3>6. ASSUME NEW i \in Irqs, NEW c \in Owners, Register(i, c) PROVE Timed'
      BY <3>1, <3>6 DEF Register
    <3>7. ASSUME NEW i \in Irqs, NEW on \in BOOLEAN, SetMask(i, on) PROVE Timed'
      BY <3>1, <3>7 DEF SetMask
    <3> QED BY <2>1, <3>2, <3>3, <3>4, <3>5, <3>6, <3>7 DEF Program
  <2>2. CASE Finish
    BY <2>2 DEF Finish, End, Timed
  <2>3. CASE SetHandler \/ SetContext \/ WriteMask
    <3>1. /\ call # Idle /\ call.op \in {"register", "mask"}
          /\ \E n : call' = [call EXCEPT !.step = n]
      BY <2>3 DEF SetHandler, SetContext, WriteMask, At, Step
    <3>2. call'.op = call.op
      <4>1. CASE call.op = "register"
        BY <3>1, <4>1, CallKinds
      <4>2. CASE call.op = "mask"
        BY <3>1, <4>2, CallKinds
      <4> QED BY <3>1, <4>1, <4>2
    <3> QED BY <3>1, <3>2 DEF Timed
  <2> QED BY <2>1, <2>2, <2>3
<1> QED BY <1>1, <1>2, QuietStep

(* The handlers, and the end of alt_tick.                                  *)
LEMMA OtherHandlers ==
    ASSUME Inv, CountInv,
           Handlers \/ TickDone \/ (\E i \in Irqs : Raise(i) /\ UNCHANGED <<clock, list>>)
    PROVE  CountInv' /\ UNCHANGED Left
<1>1. /\ UNCHANGED <<nticks, cursor, links, alarms, call>>
  BY DEF Handlers, Interrupt, Dispatch, Serve, Raise, TickDone, clock, list
<1>2. isr = InTick => isr' = InTick \/ cursor = Head
  <2>1. CASE TickDone
    BY <2>1 DEF TickDone
  <2>2. CASE \E i \in Irqs : Raise(i)
    BY <2>2 DEF Raise
  <2>3. CASE Dispatch \/ \E i \in Irqs : Serve(i)
    <3>1. CASE Dispatch
      BY <3>1 DEF Dispatch, InTick
    <3>2. ASSUME NEW i \in Irqs, Serve(i) PROVE isr # InTick
      BY <3>2 DEF Serve, InTick
    <3> QED BY <2>3, <3>1, <3>2
  <2>4. CASE Interrupt
    <3>1. isr # InTick
      BY <2>4 DEF Interrupt, Inv, Apart, NoIsr, InTick
    <3> QED BY <3>1
  <2> QED BY <2>1, <2>2, <2>3, <2>4 DEF Handlers
<1>3. Timed'
  BY <1>1 DEF CountInv, Countable, Timed
<1> QED BY <1>1, <1>2, <1>3, QuietStep

-----------------------------------------------------------------------------
(* The program starts and stops alarms.                                    *)
LEMMA StartsAndStops ==
    ASSUME Inv, CountInv, StartTime \/ StartLink \/ StopLink
    PROVE  CountInv' /\ (Promise!Next \/ UNCHANGED Left)
<1> DEFINE a == call.alarm
           n == call.n + 1
<1>1. /\ call # Idle /\ isr = NoIsr /\ NoIsr # InTick /\ a \in AlarmIds
      /\ UNCHANGED <<nticks, cursor, isr>>
      /\ nticks \in Ticking /\ Linked(links) /\ alarms \in AlarmTypes
      /\ call.op = "start" => n \in 1 .. TickRange - 1 /\ call.n \in Intervals
  <2>1. /\ call # Idle /\ call.op \in {"start", "stop"}
        /\ UNCHANGED <<nticks, cursor, isr>>
    BY DEF StartTime, StartLink, StopLink, At, cpu, clock
  <2>2. call.op = "start" => n \in 1 .. TickRange - 1 /\ call.n \in Intervals
    <3>1. call.op = "start" => call.n \in Intervals
      BY <2>1, CallKinds
    <3>2. call.op = "start" => call.n \in 0 .. TickRange - 2
      BY <3>1, TickAssumption
    <3> QED BY <3>1, <3>2, Units
  <2> QED BY <2>1, <2>2, CallKinds DEF Inv, ClockType, ListOK, NoIsr, InTick
<1>2. PICK pos : Counts(pos)
  BY DEF CountInv, Countable
<1>3. \A b \in AlarmIds : Registered(links, b) =>
         Sound(alarms, b) /\ ~Early(alarms, b)
  BY <1>1, <1>2, NoneEarly DEF Counts
<1>4. ASSUME NEW q, Sorted(links', q),
             \A b \in AlarmIds : Registered(links', b) =>
                Sound(alarms', b) /\ ~Early(alarms', b)
      PROVE  Counts(q)'
  BY <1>1, <1>4, SameTick DEF Counts
<1>5. /\ Left = [b \in AlarmIds |-> LeftOf(links, alarms, b)]
      /\ Left' = [b \in AlarmIds |-> LeftOf(links', alarms', b)]
  BY <1>1, LeftIs, SameTick
<1>6. CASE StartTime
  <2>1. /\ call.op = "start" /\ call.step = 1 /\ links' = links
        /\ alarms' = SetTime(alarms, a, nticks, n) /\ call' = [call EXCEPT !.step = 2]
    BY <1>6 DEF StartTime, At, Step
  <2>2. ~Registered(links, a)
    BY <1>1, <2>1 DEF Inv, Waits
  <2>3. \A b \in AlarmIds \ {a} : Same(alarms, alarms', b)
    BY <1>1, <2>1, SetTimeCounts
  <2>4. \A b \in AlarmIds : LeftOf(links', alarms', b) = LeftOf(links, alarms, b)
    BY <2>1, <2>2, <2>3, SameLeft DEF LeftOf
  <2>5. Left' = Left
    BY <1>5, <2>4
  <2>6. Counts(pos)'
    <3>1. \A b \in AlarmIds : Registered(links', b) =>
             Sound(alarms', b) /\ ~Early(alarms', b)
      BY <1>3, <2>1, <2>2, <2>3, SameLeft
    <3> QED BY <1>2, <1>4, <2>1, <3>1 DEF Counts
  <2>7. Timed'
    <3>1. call'.alarm = a /\ call'.n = call.n
      BY <1>1, <2>1, CallKinds
    <3>2. /\ alarms'.time[a] = Later(nticks, n)
          /\ alarms'.rollover[a] = (alarms'.time[a] < nticks)
      BY <1>1, <2>1 DEF SetTime, AlarmTypes
    <3> QED BY <1>1, <3>1, <3>2 DEF Timed, Later
  <2> QED BY <2>5, <2>6, <2>7 DEF CountInv, Countable
<1>7. CASE StartLink
  <2>1. /\ call.op = "start" /\ call.step = 2 /\ alarms' = alarms
        /\ links' = Inserted(links, a) /\ call' = [call EXCEPT !.step = 3]
    BY <1>7 DEF StartLink, At, Step
  <2>2. ~Registered(links, a)
    BY <1>1, <2>1 DEF Inv, Waits
  <2>3. /\ \A x \in AlarmIds : Registered(links', x) <=> x = a \/ Registered(links, x)
        /\ \E q : Sorted(links', q)
    <3>1. Sorted(links, pos)
      BY <1>2 DEF Counts
    <3> QED BY <1>1, <2>1, <2>2, <3>1, InsertedSorted
  <2>4. /\ Sound(alarms, a) /\ ~Early(alarms, a)
        /\ LeftOf(links', alarms, a) = n
    <3>1. /\ alarms.time[a] = Later(nticks, n)
          /\ alarms.rollover[a] = (alarms.time[a] < nticks)
      BY <1>1, <2>1 DEF CountInv, Countable, Timed
    <3> HIDE DEF a, n
    <3> QED BY <1>1, <2>1, <2>3, <3>1, SetAhead
  <2>5. PICK q : Sorted(links', q)
    BY <2>3
  <2>6. Counts(q)'
    BY <1>3, <1>4, <2>1, <2>3, <2>4, <2>5
  <2>7. Timed'
    <3>1. call'.step = 3
      BY <1>1, <2>1, CallKinds
    <3> QED BY <3>1 DEF Timed
  <2>8. LeftOf(links, alarms, a) = -1
        /\ \A b \in AlarmIds \ {a} : LeftOf(links', alarms', b) = LeftOf(links, alarms, b)
    BY <2>1, <2>2, <2>3 DEF LeftOf
  <2>9. Promise!Start(a, call.n)
    <3>1. Left[a] = -1
      BY <1>1, <1>5, <2>8
    <3>2. Left' = [Left EXCEPT ![a] = n]
      BY <1>1, <1>5, <2>1, <2>4, <2>8
    <3> QED BY <3>1, <3>2 DEF Promise!Start, Promise!Off
  <2>10. Promise!Next
    BY <1>1, <2>1, <2>9 DEF Promise!Next
  <2> QED BY <2>6, <2>7, <2>10 DEF CountInv, Countable
<1>8. CASE StopLink
  <2>1. /\ call.op = "stop" /\ alarms' = alarms
        /\ links' = Removed(links, a) /\ call' = [call EXCEPT !.step = 3]
    BY <1>8 DEF StopLink, At, Step
  <2>2. Started(links, a)
    BY <1>1, <2>1 DEF Inv, Waits
  <2>3. /\ \A x \in AlarmIds : Registered(links', x) <=> x # a /\ Registered(links, x)
        /\ Sorted(links', pos)
    <3>1. Sorted(links, pos)
      BY <1>2 DEF Counts
    <3> QED BY <1>1, <2>1, <2>2, <3>1, RemovedSorted
  <2>4. Counts(pos)'
    BY <1>3, <1>4, <2>1, <2>3
  <2>5. Timed'
    <3>1. call'.step = 3
      BY <1>1, <2>1, CallKinds
    <3> QED BY <3>1 DEF Timed
  <2>6. /\ LeftOf(links', alarms', a) = -1
        /\ \A b \in AlarmIds \ {a} : LeftOf(links', alarms', b) = LeftOf(links, alarms, b)
    BY <1>1, <2>1, <2>3 DEF LeftOf
  <2>7. Promise!Stop(a)
    <3>1. Left' = [Left EXCEPT ![a] = -1]
      BY <1>1, <1>5, <2>6
    <3> QED BY <3>1 DEF Promise!Stop, Promise!Off
  <2>8. Promise!Next
    BY <1>1, <2>7 DEF Promise!Next
  <2> QED BY <2>4, <2>5, <2>8 DEF CountInv, Countable
<1> QED BY <1>6, <1>7, <1>8

-----------------------------------------------------------------------------
(* A tick comes when no alarm is early, and takes one from each.           *)
LEMMA TickCounts ==
    ASSUME Inv, CountInv, Tick PROVE CountInv' /\ Promise!Tick
<1>1. /\ isr # InTick /\ isr' = InTick /\ UNCHANGED <<call, links, alarms>>
      /\ nticks' = Later(nticks, 1) /\ cursor' = links.next[Head] /\ call = Idle
  BY DEF Tick, InTick, list, Inv, Apart, NoIsr
<1>2. /\ nticks \in Ticking /\ Linked(links) /\ alarms \in AlarmTypes
  BY DEF Inv, ClockType, ListOK
<1>3. PICK pos : Counts(pos)
  BY DEF CountInv, Countable
<1>4. nticks' = IF nticks + 1 < TickRange THEN nticks + 1 ELSE 0
  <2>1. 1 \in Ticking
    BY Units DEF Ticking
  <2>2. Later(nticks, 1) = IF nticks + 1 < TickRange THEN nticks + 1
                           ELSE nticks + 1 - TickRange
    BY <1>2, <2>1, LaterIs
  <2> QED BY <1>1, <1>2, <2>2, Units DEF Ticking
<1>5. ASSUME NEW a \in AlarmIds, Registered(links, a)
      PROVE  /\ Sound(alarms, a)' /\ Ahead(pos, a)'
             /\ LeftOf(links, alarms, a) \in Int
             /\ LeftOf(links, alarms, a) # 0 /\ LeftOf(links, alarms, a) # -1
             /\ LeftOf(links, alarms, a)' = LeftOf(links, alarms, a) - 1
  <2> DEFINE t == alarms.time[a]
             f == alarms.rollover[a]
             R == TickRange
  <2>1. /\ t \in Nat /\ t < R /\ R \in Nat /\ f \in BOOLEAN
        /\ nticks \in Nat /\ nticks < R
    BY <1>2, Units DEF AlarmTypes, Ticking
  <2>2. Sound(alarms, a) /\ ~Early(alarms, a)
    BY <1>1, <1>3, <1>5, NoneEarly DEF Counts
  <2>3. (f /\ nticks # 0) \/ (~f /\ nticks < t)
    BY <2>1, <2>2 DEF Sound, Early
  <2>4. Ahead(pos, a)'
    BY <1>1, <1>3, <1>5 DEF Ahead, Counts, Sorted
  <2>5. Registered(links, a)'
    BY <1>1, <1>5 DEF Registered
  <2>6. CASE f /\ nticks # 0
    <3>1. f' /\ t' = t
      BY <1>1, <2>6
    <3>2. LeftOf(links, alarms, a) = t + R - nticks
      BY <1>5, <2>6 DEF LeftOf
    <3>3. LeftOf(links, alarms, a)' = IF nticks' # 0 THEN t + R - nticks' ELSE t - nticks'
      BY <1>1, <2>5, <2>6 DEF LeftOf
    <3>4. Sound(alarms, a)'
      BY <3>1 DEF Sound
    <3> HIDE DEF t, R
    <3> QED BY <1>4, <2>1, <2>4, <2>6, <3>2, <3>3, <3>4 DEF R
  <2>7. CASE ~f /\ nticks < t
    <3>1. nticks' = nticks + 1 /\ nticks + 1 <= t
      BY <1>4, <2>1, <2>7
    <3>2. LeftOf(links, alarms, a) = t - nticks
      BY <1>5, <2>7 DEF LeftOf
    <3>3. LeftOf(links, alarms, a)' = t - nticks'
      BY <1>1, <2>5, <2>7 DEF LeftOf
    <3>4. Sound(alarms, a)'
      BY <1>1, <3>1 DEF Sound
    <3> HIDE DEF t
    <3> QED BY <2>1, <2>4, <2>7, <3>1, <3>2, <3>3, <3>4
  <2> QED BY <2>3, <2>6, <2>7
<1>6. CountInv'
  <2>1. Counts(pos)'
    BY <1>1, <1>3, <1>5, SortedSame DEF Counts, Registered
  <2>2. Timed'
    BY <1>1 DEF Timed
  <2> QED BY <2>1, <2>2 DEF CountInv, Countable
<1>7. Promise!Tick
  <2>1. Left' = [a \in AlarmIds |-> LeftOf(links, alarms, a)']
    BY DEF Left, LeftOf
  <2>2. ASSUME NEW a \in AlarmIds
        PROVE  /\ Left[a] # 0
               /\ LeftOf(links, alarms, a)' = IF Left[a] = -1 THEN -1 ELSE Left[a] - 1
    <3>1. CASE Registered(links, a)
      BY <1>5, <3>1, LeftIs
    <3>2. CASE ~Registered(links, a)
      <4>1. Left[a] = -1
        BY <3>2, LeftIs DEF LeftOf
      <4>2. LeftOf(links, alarms, a)' = -1
        BY <1>1, <3>2 DEF LeftOf, Registered
      <4> QED BY <4>1, <4>2
    <3> QED BY <3>1, <3>2
  <2>3. Left' = [a \in AlarmIds |-> IF Left[a] = -1 THEN -1 ELSE Left[a] - 1]
    BY <2>1, <2>2
  <2> QED BY <2>2, <2>3 DEF Promise!Tick, Promise!Off
<1> QED BY <1>6, <1>7

-----------------------------------------------------------------------------
(* The answer of the callback of c, after the callback has changed the     *)
(* list to l and the times to t.                                           *)
AnsweredBy(c, p, l, t) ==
    IF p = 0 THEN links' = Removed(l, c) /\ alarms' = t
    ELSE links' = l /\ alarms' = Renewed(t, c, p)

(* The answer of a callback changes its own alarm only.                    *)
LEMMA AnswerLeaves ==
    ASSUME nticks \in Ticking, NEW c \in AlarmIds, NEW p \in Ticking,
           NEW l, Linked(l), Started(l, c), NEW pos, Sorted(l, pos),
           NEW t \in AlarmTypes, AnsweredBy(c, p, l, t)
    PROVE  /\ Sorted(links', pos)
           /\ \A x \in AlarmIds : Registered(links', x) <=>
                 Registered(l, x) /\ ~(p = 0 /\ x = c)
           /\ \A x \in AlarmIds \ {c} : Same(t, alarms', x)
           /\ p # 0 => alarms' = Renewed(t, c, p)
<1>1. CASE p = 0
  BY <1>1, RemovedSorted DEF AnsweredBy, Same
<1>2. CASE p # 0
  <2>1. \A x \in AlarmIds \ {c} : Same(t, alarms', x)
    BY <1>2, RenewedCounts DEF AnsweredBy
  <2> QED BY <1>2, <2>1 DEF AnsweredBy
<1> QED BY <1>1, <1>2

(* The next of the walk has all other early alarms ahead.                  *)
StillAhead(c, l, t, pos) ==
    \A x \in AlarmIds \ {c} : Registered(l, x) =>
        /\ Sound(t, x)
        /\ Early(t, x) => /\ cursor' # Head
                          /\ Registered(l, cursor') => pos[cursor'] <= pos[x]

(* It leaves no alarm early behind the walk, ...                           *)
LEMMA AnswerCounts ==
    ASSUME nticks \in Ticking, NEW c \in AlarmIds, NEW p \in Ticking,
           NEW l, Linked(l), Started(l, c), NEW pos, Sorted(l, pos),
           NEW t \in AlarmTypes, AnsweredBy(c, p, l, t),
           nticks' = nticks, isr' = InTick,
           StillAhead(c, l, t, pos),
           cursor' \in Nodes,
           Registered(l, c) => cursor' = c \/ (t.time[c] = nticks /\ ~t.rollover[c])
    PROVE  Countable'
<1>1. /\ Sorted(links', pos)
      /\ \A x \in AlarmIds : Registered(links', x) <=>
            Registered(l, x) /\ ~(p = 0 /\ x = c)
      /\ \A x \in AlarmIds \ {c} : Same(t, alarms', x)
      /\ p # 0 => alarms' = Renewed(t, c, p)
  BY AnswerLeaves
<1>2. ASSUME NEW x \in AlarmIds, Registered(links', x)
      PROVE  /\ Sound(alarms', x)
             /\ Early(alarms', x) => Ahead(pos, x)'
  <2>0. cursor' # Head => cursor' \in AlarmIds
    BY DEF Nodes
  <2>1. CASE x # c
    <3>1. /\ Sound(t, x)
          /\ Early(t, x) => /\ cursor' # Head
                            /\ Registered(l, cursor') => pos[cursor'] <= pos[x]
      BY <1>1, <1>2, <2>1 DEF StillAhead
    <3>2. Sound(alarms', x) /\ (Early(alarms', x) <=> Early(t, x))
      BY <1>1, <2>1, <3>1, SameLeft
    <3>3. Early(alarms', x) => Ahead(pos, x)'
      BY <1>1, <2>0, <3>1, <3>2 DEF Ahead
    <3> QED BY <3>2, <3>3
  <2>2. CASE x = c
    <3>1. p # 0 /\ Registered(l, c) /\ alarms' = Renewed(t, c, p)
      BY <1>1, <1>2, <2>2
    <3>2. /\ Sound(alarms', c)
          /\ t.time[c] = nticks /\ ~t.rollover[c] => ~Early(alarms', c)
      BY <3>1, RenewedCounts
    <3>3. CASE cursor' = c
      <4>1. c # Head /\ pos[c] <= pos[c]
        <5>1. pos[c] \in Int
          BY <1>1 DEF Sorted
        <5> QED BY <5>1, NodeFacts
      <4> QED BY <2>2, <3>2, <3>3, <4>1 DEF Ahead
    <3>4. CASE t.time[c] = nticks /\ ~t.rollover[c]
      BY <2>2, <3>2, <3>4
    <3> QED BY <3>1, <3>3, <3>4
  <2> QED BY <2>1, <2>2
<1>3. \A x \in AlarmIds : /\ Sound(alarms, x)' <=> Sound(alarms', x)
                          /\ Early(alarms, x)' <=> Early(alarms', x)
  BY SameTick
<1>4. Sorted(links, pos)' <=> Sorted(links', pos)
  BY DEF Sorted, Registered
<1>5. Counts(pos)'
  BY <1>1, <1>2, <1>3, <1>4 DEF Counts, Registered
<1> QED BY <1>5 DEF Countable

(* ... and gives c its next interval.                                      *)
LEMMA AnswerLeft ==
    ASSUME nticks \in Ticking, NEW c \in AlarmIds, NEW p \in Ticking,
           NEW l, Linked(l), Started(l, c), NEW pos, Sorted(l, pos),
           NEW t \in AlarmTypes, AnsweredBy(c, p, l, t),
           nticks' = nticks, t.time[c] = nticks, ~t.rollover[c]
    PROVE  Left' = [x \in AlarmIds |->
                      IF x # c THEN LeftOf(l, t, x)
                      ELSE IF p = 0 \/ ~Registered(l, c) THEN -1 ELSE p]
<1>1. /\ \A x \in AlarmIds : Registered(links', x) <=>
            Registered(l, x) /\ ~(p = 0 /\ x = c)
      /\ \A x \in AlarmIds \ {c} : Same(t, alarms', x)
      /\ p # 0 => alarms' = Renewed(t, c, p)
  BY AnswerLeaves
<1>2. ASSUME NEW x \in AlarmIds
      PROVE  LeftOf(links', alarms', x) =
               IF x # c THEN LeftOf(l, t, x)
               ELSE IF p = 0 \/ ~Registered(l, c) THEN -1 ELSE p
  <2>1. CASE x # c
    <3>1. LeftOf(links', alarms', x) = LeftOf(links', t, x)
      BY <1>1, <2>1, SameLeft
    <3> QED BY <1>1, <2>1, <3>1 DEF LeftOf
  <2>2. CASE x = c /\ (p = 0 \/ ~Registered(l, c))
    BY <1>1, <2>2 DEF LeftOf
  <2>3. CASE x = c /\ p # 0 /\ Registered(l, c)
    BY <1>1, <2>3, RenewedCounts
  <2> QED BY <2>1, <2>2, <2>3
<1> QED BY <1>2, SameTick

(* What a callback does to the list before it answers.                     *)
Called(l, t, al) ==
    \/ l = links /\ t = al
    \/ \E b \in AlarmIds : Started(links, b) /\ l = Removed(links, b) /\ t = al
    \/ \E b \in AlarmIds, n \in Intervals :
          /\ ~Registered(links, b)
          /\ l = Inserted(links, b) /\ t = SetTime(al, b, nticks, n + 1)

(* A callback may start or stop an alarm, and then gives its answer.       *)
LEMMA CallBackIs ==
    ASSUME NEW c, NEW al, CallBack(c, al)
    PROVE  \E p \in Periods : \E l, t : Called(l, t, al) /\ AnsweredBy(c, p, l, t)
<1>1. PICK p \in Periods :
        LET Answered(l, times) ==
                IF p = 0 THEN links' = Removed(l, c) /\ alarms' = times
                ELSE links' = l /\ alarms' = Renewed(times, c, p)
        IN \/ Answered(links, al)
           \/ \E b \in AlarmIds :
                 Started(links, b) /\ Answered(Removed(links, b), al)
           \/ \E b \in AlarmIds, n \in Intervals :
                 /\ ~Registered(links, b)
                 /\ Answered(Inserted(links, b), SetTime(al, b, nticks, n + 1))
  BY DEF CallBack
<1>2. CASE AnsweredBy(c, p, links, al)
  BY <1>2 DEF Called
<1>3. CASE \E b \in AlarmIds :
             Started(links, b) /\ AnsweredBy(c, p, Removed(links, b), al)
  BY <1>3 DEF Called
<1>4. CASE \E b \in AlarmIds, n \in Intervals :
             /\ ~Registered(links, b)
             /\ AnsweredBy(c, p, Inserted(links, b), SetTime(al, b, nticks, n + 1))
  BY <1>4 DEF Called
<1> QED BY <1>1, <1>2, <1>3, <1>4 DEF AnsweredBy

(* It leaves the others linked, in their order and with their times.       *)
LEMMA CalledCounts ==
    ASSUME Inv, NEW pos, Sorted(links, pos), NEW al \in AlarmTypes,
           NEW l, NEW t, Called(l, t, al)
    PROVE  /\ Linked(l) /\ t \in AlarmTypes
           /\ \A x \in Nodes : Started(links, x) => Started(l, x)
           /\ \E q :
                /\ Sorted(l, q)
                /\ \A x \in AlarmIds : Registered(l, x) =>
                     \/ /\ Registered(links, x) /\ q[x] = pos[x] /\ Same(al, t, x)
                     \/ /\ ~Registered(links, x) /\ Sound(t, x) /\ ~Early(t, x)
                        /\ \A y \in AlarmIds : Registered(l, y) => q[x] <= q[y]
           /\ \A x \in AlarmIds : Registered(links, x) => Same(al, t, x)
<1>1. Linked(links) /\ nticks \in Ticking
  BY DEF Inv, ListOK, ClockType
<1>2. CASE l = links /\ t = al
  BY <1>1, <1>2 DEF Same
<1>3. ASSUME NEW b \in AlarmIds, Started(links, b), l = Removed(links, b), t = al
      PROVE  /\ Linked(l) /\ Sorted(l, pos)
             /\ \A x \in Nodes : Started(links, x) => Started(l, x)
             /\ \A x \in AlarmIds : Registered(l, x) => Registered(links, x)
             /\ \A x : Same(al, t, x)
  BY <1>1, <1>3, RemovedSorted, RemovedLinked DEF Same
<1>4. ASSUME NEW b \in AlarmIds, NEW n \in Intervals, ~Registered(links, b),
             l = Inserted(links, b), t = SetTime(al, b, nticks, n + 1)
      PROVE  /\ Linked(l) /\ t \in AlarmTypes
             /\ \A x \in Nodes : Started(links, x) => Started(l, x)
             /\ \E q :
                  /\ Sorted(l, q)
                  /\ \A x \in AlarmIds : Registered(l, x) =>
                     \/ /\ Registered(links, x) /\ q[x] = pos[x] /\ Same(al, t, x)
                     \/ /\ ~Registered(links, x) /\ Sound(t, x) /\ ~Early(t, x)
                        /\ \A y \in AlarmIds : Registered(l, y) => q[x] <= q[y]
             /\ \A x \in AlarmIds : Registered(links, x) => Same(al, t, x)
  <2>1. n + 1 \in 1 .. TickRange - 1
    <3>1. n \in 0 .. TickRange - 2
      BY TickAssumption
    <3> QED BY <3>1, Units
  <2>2. /\ t \in AlarmTypes /\ Sound(t, b) /\ ~Early(t, b)
        /\ \A x \in AlarmIds \ {b} : Same(al, t, x)
    <3> DEFINE m == n + 1
    <3>1. m \in 1 .. TickRange - 1 /\ t = SetTime(al, b, nticks, m)
      BY <1>4, <2>1
    <3> HIDE DEF m
    <3> QED BY <1>1, <3>1, SetTimeCounts
  <2>3. /\ Linked(l) /\ \A x \in Nodes : Started(links, x) => Started(l, x)
    BY <1>1, <1>4, InsertedLinked
  <2>4. /\ \A x \in AlarmIds : Registered(l, x) <=> x = b \/ Registered(links, x)
        /\ \E q : /\ Sorted(l, q)
                  /\ \A x \in AlarmIds \ {b} : q[x] = pos[x]
                  /\ \A x \in AlarmIds : Registered(links, x) => q[b] < q[x]
    BY <1>1, <1>4, InsertedSorted
  <2>5. PICK q : /\ Sorted(l, q)
                 /\ \A x \in AlarmIds \ {b} : q[x] = pos[x]
                 /\ \A x \in AlarmIds : Registered(links, x) => q[b] < q[x]
    BY <2>4
  <2>6. ASSUME NEW y \in AlarmIds, Registered(l, y) PROVE q[b] <= q[y]
    <3>1. q[b] \in Int /\ q[y] \in Int
      BY <2>5 DEF Sorted
    <3> QED BY <2>4, <2>5, <2>6, <3>1
  <2>7. \A x \in AlarmIds : Registered(l, x) =>
           \/ /\ Registered(links, x) /\ q[x] = pos[x] /\ Same(al, t, x)
           \/ /\ ~Registered(links, x) /\ Sound(t, x) /\ ~Early(t, x)
              /\ \A y \in AlarmIds : Registered(l, y) => q[x] <= q[y]
    BY <1>4, <2>2, <2>4, <2>5, <2>6
  <2> QED BY <1>4, <2>2, <2>3, <2>5, <2>7
<1> QED BY <1>2, <1>3, <1>4 DEF Called

-----------------------------------------------------------------------------
(* The walk goes on.                                                       *)
LEMMA VisitCounts ==
    ASSUME Inv, CountInv, Visit
    PROVE  CountInv' /\ (Astray \/ Promise!Next \/ UNCHANGED Left)
<1> DEFINE c == cursor
           al == Cleared(alarms, c)
<1>1. /\ isr = InTick /\ isr' = InTick /\ UNCHANGED <<nticks, call>>
      /\ cursor' = links.next[c] /\ c # Head /\ call = Idle
  BY DEF Visit, Inv, Apart, NoIsr, InTick
<1>2. /\ c \in AlarmIds /\ c \in Nodes /\ Started(links, c) /\ Linked(links)
      /\ alarms \in AlarmTypes /\ nticks \in Ticking
      /\ cursor' \in Nodes
  <2>1. c \in AlarmIds /\ c \in Nodes /\ Started(links, c) /\ Linked(links)
    BY <1>1 DEF Inv, ListOK, Nodes
  <2>2. cursor' \in Nodes
    BY <1>1, <2>1, NextStarted
  <2> QED BY <2>1, <2>2 DEF Inv, ListOK, ClockType
<1>3. PICK pos : Counts(pos)
  BY DEF CountInv, Countable
<1>4. Timed'
  BY <1>1 DEF Timed
<1>5. /\ al \in AlarmTypes /\ al.time[c] = alarms.time[c]
      /\ al.rollover[c] => nticks # 0
      /\ Sound(alarms, c) => Sound(al, c)
      /\ \A l : LeftOf(l, al, c) = LeftOf(l, alarms, c)
      /\ \A x \in AlarmIds \ {c} : Same(alarms, al, x)
  BY <1>2, ClearedCounts
<1> HIDE DEF al
<1>6. /\ \A x \in AlarmIds : LeftOf(links, al, x) = LeftOf(links, alarms, x)
      /\ Left = [x \in AlarmIds |-> LeftOf(links, al, x)]
  <2>1. \A x \in AlarmIds : LeftOf(links, al, x) = LeftOf(links, alarms, x)
    BY <1>5, SameLeft
  <2> QED BY <2>1, LeftIs
<1>7. ~Registered(links, c) => cursor' = c
  BY <1>1, <1>2 DEF Registered, Started
(* The alarms that are early are ahead of the next one, too.               *)
<1>8. ASSUME NEW x \in AlarmIds, x # c, Registered(links, x)
      PROVE  /\ Sound(al, x)
             /\ Early(al, x) => /\ cursor' # Head
                                /\ Registered(links, cursor') => pos[cursor'] <= pos[x]
  <2>1. Sound(al, x) /\ (Early(al, x) <=> Early(alarms, x))
    BY <1>3, <1>5, <1>8, SameLeft DEF Counts
  <2>2. CASE ~Registered(links, c)
    BY <1>1, <1>7, <2>1, <2>2
  <2>3. CASE Registered(links, c) /\ Early(al, x)
    <3>1. Sorted(links, pos) /\ pos[c] <= pos[x]
      BY <1>3, <1>8, <2>1, <2>3 DEF Counts, Ahead
    <3>2. pos[c] # pos[x]
      BY <1>2, <1>8, <2>3, <3>1 DEF Sorted
    <3>3. pos[c] < pos[x]
      <4>1. pos[c] \in Int /\ pos[x] \in Int
        BY <1>2, <3>1 DEF Sorted
      <4> QED BY <3>1, <3>2, <4>1
    <3>4. cursor' # Head /\ pos[cursor'] <= pos[x]
      BY <1>1, <1>2, <1>8, <2>3, <3>1, <3>3 DEF Sorted
    <3> QED BY <2>1, <3>4
  <2> QED BY <2>1, <2>2, <2>3
<1>9. CASE ~Due(c, al)
  <2>1. links' = links /\ alarms' = al
    BY <1>9 DEF Visit, al
  <2>2. Left' = Left
    BY <1>1, <1>6, <2>1, SameTick
  <2>3. ASSUME NEW x \in AlarmIds, Registered(links, x)
        PROVE  /\ Sound(alarms', x)
               /\ Early(alarms', x) => Ahead(pos, x)'
    <3>1. CASE x # c
      BY <1>1, <1>8, <2>1, <2>3, <3>1 DEF Ahead, Registered
    <3>2. CASE x = c
      <4>1. Sound(al, c)
        BY <1>3, <1>5, <2>3, <3>2 DEF Counts
      <4>2. ~Early(al, c)
        <5>1. al.time[c] \in Int /\ nticks \in Int
          BY <1>2, <1>5, Units DEF AlarmTypes, Ticking
        <5> QED BY <1>5, <1>9, <5>1 DEF Early, Due
      <4> QED BY <2>1, <3>2, <4>1, <4>2
    <3> QED BY <3>1, <3>2
  <2>4. Counts(pos)'
    <3>1. Sorted(links, pos)'
      BY <1>3, <2>1, SortedSame DEF Counts
    <3> QED BY <1>1, <2>1, <2>3, <3>1, SameTick DEF Counts, Registered
  <2> QED BY <1>4, <2>2, <2>4 DEF CountInv, Countable
<1>10. CASE Due(c, al)
  <2>1. CallBack(c, al)
    BY <1>10 DEF Visit, al
  <2>2. PICK p \in Periods : \E l, t : Called(l, t, al) /\ AnsweredBy(c, p, l, t)
    BY <2>1, CallBackIs
  <2>3. PICK l, t : Called(l, t, al) /\ AnsweredBy(c, p, l, t)
    BY <2>2
  <2>4. p \in Ticking /\ Sorted(links, pos)
    BY <1>3, TickAssumption DEF Counts
  <2>5. /\ Linked(l) /\ t \in AlarmTypes /\ Started(l, c)
        /\ \A x \in AlarmIds : Registered(links, x) => Same(al, t, x)
        /\ \E q :
             /\ Sorted(l, q)
             /\ \A x \in AlarmIds : Registered(l, x) =>
                  \/ /\ Registered(links, x) /\ q[x] = pos[x] /\ Same(al, t, x)
                  \/ /\ ~Registered(links, x) /\ Sound(t, x) /\ ~Early(t, x)
                     /\ \A y \in AlarmIds : Registered(l, y) => q[x] <= q[y]
    BY <1>2, <1>5, <2>3, <2>4, CalledCounts
  <2>6. PICK q :
             /\ Sorted(l, q)
             /\ \A x \in AlarmIds : Registered(l, x) =>
                  \/ /\ Registered(links, x) /\ q[x] = pos[x] /\ Same(al, t, x)
                  \/ /\ ~Registered(links, x) /\ Sound(t, x) /\ ~Early(t, x)
                     /\ \A y \in AlarmIds : Registered(l, y) => q[x] <= q[y]
    BY <2>5
  <2>7. Registered(links, c) => t.time[c] = nticks /\ ~t.rollover[c]
    <3> SUFFICES ASSUME Registered(links, c)
                 PROVE  t.time[c] = nticks /\ ~t.rollover[c]
      OBVIOUS
    <3>1. Sound(al, c) /\ al.time[c] <= nticks /\ ~al.rollover[c]
      BY <1>2, <1>3, <1>5, <1>10 DEF Counts, Due
    <3>2. al.time[c] = nticks
      <4>1. al.time[c] \in Int /\ nticks \in Int
        BY <1>2, <1>5, Units DEF AlarmTypes, Ticking
      <4> QED BY <3>1, <4>1 DEF Sound
    <3> QED BY <1>2, <2>5, <3>1, <3>2 DEF Same
  <2>8. Countable'
    <3>1. ASSUME NEW x \in AlarmIds \ {c}, Registered(l, x)
          PROVE  /\ Sound(t, x)
                 /\ Early(t, x) => /\ cursor' # Head
                                   /\ Registered(l, cursor') => q[cursor'] <= q[x]
      <4>1. CASE ~Registered(links, x)
        BY <2>6, <3>1, <4>1
      <4>2. CASE Registered(links, x)
        <5>1. q[x] = pos[x] /\ Same(al, t, x)
          BY <2>6, <3>1, <4>2
        <5>2. /\ Sound(t, x)
              /\ Early(t, x) => /\ cursor' # Head
                                /\ Registered(links, cursor') => pos[cursor'] <= pos[x]
          BY <1>8, <3>1, <4>2, <5>1, SameLeft
        <5>3. ASSUME Early(t, x), Registered(l, cursor') PROVE q[cursor'] <= q[x]
          <6>1. cursor' \in AlarmIds
            BY <1>2, <5>2, <5>3 DEF Nodes
          <6>2. CASE Registered(links, cursor')
            BY <2>6, <5>1, <5>2, <5>3, <6>1, <6>2
          <6>3. CASE ~Registered(links, cursor')
            BY <2>6, <3>1, <5>3, <6>1, <6>3
          <6> QED BY <6>2, <6>3
        <5> QED BY <5>2, <5>3
      <4> QED BY <4>1, <4>2
    <3>4. StillAhead(c, l, t, q)
      BY <3>1 DEF StillAhead
    <3>2. Registered(l, c) => cursor' = c \/ (t.time[c] = nticks /\ ~t.rollover[c])
      BY <1>7, <2>7
    <3>3. /\ nticks \in Ticking /\ c \in AlarmIds /\ p \in Ticking
          /\ Linked(l) /\ Started(l, c) /\ Sorted(l, q) /\ t \in AlarmTypes
          /\ AnsweredBy(c, p, l, t) /\ nticks' = nticks /\ isr' = InTick
          /\ cursor' \in Nodes
      BY <1>1, <1>2, <2>3, <2>4, <2>5, <2>6
    <3> HIDE DEF c
    <3> QED BY <3>2, <3>3, <3>4, AnswerCounts
  <2>9. CASE ~Registered(links, c)
    BY <1>1, <1>4, <2>8, <2>9 DEF CountInv, Astray
  <2>10. CASE Registered(links, c)
    <3> DEFINE renewed == [Left EXCEPT ![c] = IF p = 0 THEN -1 ELSE p]
    <3>1. Left' = [x \in AlarmIds |->
                      IF x # c THEN LeftOf(l, t, x)
                      ELSE IF p = 0 \/ ~Registered(l, c) THEN -1 ELSE p]
      <4> HIDE DEF c
      <4> QED BY <1>1, <1>2, <2>3, <2>4, <2>5, <2>6, <2>7, <2>10, AnswerLeft
    <3>2. Left[c] = 0
      <4>1. nticks - nticks = 0
        BY <1>2, Units DEF Ticking
      <4>2. al.time[c] = nticks /\ ~al.rollover[c]
        BY <1>2, <2>5, <2>7, <2>10 DEF Same
      <4> QED BY <1>2, <1>6, <2>10, <4>1, <4>2 DEF LeftOf
    <3>3. ASSUME l = links, t = al PROVE Promise!CallBack(c, p)
      <4>1. Left' = renewed
        BY <1>2, <1>6, <2>10, <3>1, <3>3
      <4> HIDE DEF renewed
      <4>2. Promise!CallBack(c, p)
        BY <3>2, <4>1 DEF Promise!CallBack, Promise!Off, renewed
      <4> QED BY <4>2
    <3>4. ASSUME NEW b \in AlarmIds, Started(links, b), l = Removed(links, b), t = al
          PROVE  Promise!CallBack(c, p)
      <4>1. \A x \in AlarmIds : Registered(l, x) <=> x # b /\ Registered(links, x)
        BY <1>2, <2>4, <3>4, RemovedSorted
      <4>2. \A x \in AlarmIds :
                LeftOf(l, t, x) = IF x = b THEN -1 ELSE LeftOf(links, al, x)
        BY <3>4, <4>1 DEF LeftOf
      <4>3. Left' = [renewed EXCEPT ![b] = -1]
        BY <1>2, <1>6, <2>10, <3>1, <4>1, <4>2
      <4> QED BY <3>2, <4>3 DEF Promise!CallBack, Promise!Off
    <3>5. ASSUME NEW b \in AlarmIds, NEW n \in Intervals, ~Registered(links, b),
                 l = Inserted(links, b), t = SetTime(al, b, nticks, n + 1)
          PROVE  Promise!CallBack(c, p)
      <4>1. \A x \in AlarmIds : Registered(l, x) <=> x = b \/ Registered(links, x)
        BY <1>2, <2>4, <3>5, InsertedSorted
      <4>2. n + 1 \in 1 .. TickRange - 1
        <5>1. n \in 0 .. TickRange - 2
          BY TickAssumption
        <5> QED BY <5>1, Units
      <4>3. LeftOf(l, t, b) = n + 1 /\ \A x \in AlarmIds \ {b} : Same(al, t, x)
        <5> DEFINE m == n + 1
        <5>1. m \in 1 .. TickRange - 1 /\ t = SetTime(al, b, nticks, m)
          BY <3>5, <4>2
        <5> HIDE DEF m
        <5>2. LeftOf(l, t, b) = m /\ \A x \in AlarmIds \ {b} : Same(al, t, x)
          BY <1>2, <1>5, <4>1, <5>1, SetTimeCounts
        <5> QED BY <5>2 DEF m
      <4>4. \A x \in AlarmIds \ {b} : LeftOf(l, t, x) = LeftOf(links, al, x)
        BY <4>1, <4>3, SameLeft DEF LeftOf
      <4>5. b # c /\ Left[b] = -1
        BY <1>6, <2>10, <3>5 DEF LeftOf
      <4>6. Left' = [renewed EXCEPT ![b] = n + 1]
        BY <1>2, <1>6, <2>10, <3>1, <4>1, <4>3, <4>4, <4>5
      <4> QED BY <3>2, <4>5, <4>6 DEF Promise!CallBack, Promise!Off
    <3>6. Promise!CallBack(c, p)
      <4> HIDE DEF c, renewed
      <4> QED BY <2>3, <3>3, <3>4, <3>5 DEF Called
    <3> QED BY <1>2, <1>4, <2>2, <2>8, <3>6 DEF CountInv, Promise!Next
  <2> QED BY <2>9, <2>10
<1> QED BY <1>9, <1>10

(* The alarms count down: the detailed system implements Alarms, as long   *)
(* as the walk is not led astray.                                          *)
THEOREM AlarmsOnTime == Spec => OnTime
<1>1. Init => CountInv /\ Promise!Init
  BY InitCounts
<1>2. Inv /\ CountInv /\ [Next]_vars =>
         CountInv' /\ [Promise!Next \/ Astray]_Left
  <2> SUFFICES ASSUME Inv, CountInv, [Next]_vars
               PROVE  CountInv' /\ (Promise!Next \/ Astray \/ UNCHANGED Left)
    OBVIOUS
  <2>1. CASE Program
    BY <2>1, OtherCalls
  <2>2. CASE Continues
    BY <2>2, OtherCalls, StartsAndStops DEF Continues
  <2>3. CASE Serves
    <3>1. CASE Tick
      BY <3>1, TickCounts DEF Promise!Next
    <3> QED BY <2>3, <3>1, OtherHandlers, VisitCounts DEF Serves
  <2>4. CASE \E i \in Irqs : Raise(i) /\ UNCHANGED <<clock, list>>
    BY <2>4, OtherHandlers
  <2>5. CASE UNCHANGED vars
    <3>1. UNCHANGED <<nticks, cursor, links, alarms, isr, call>>
      BY <2>5 DEF vars, interruptVars, clock, list
    <3>2. Timed'
      BY <3>1 DEF CountInv, Timed
    <3> QED BY <3>1, <3>2, QuietStep
  <2> QED BY <2>1, <2>2, <2>3, <2>4, <2>5 DEF Next
<1> QED BY <1>1, <1>2, Invariance, PTL DEF Spec, OnTime

=============================================================================
