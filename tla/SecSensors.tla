----------------------------- MODULE SecSensors -----------------------------
(***************************************************************************)
(* The table of security sensors of x10state.c: one entry per RF address,  *)
(* updated by every security event that passes dup_filter, sorted by the   *)
(* ST command, read by GETSTATUSSEC, cleared by ST 0.                      *)
(*                                                                         *)
(* SH624 remotes and SP554A sensors have 8 bit addresses, the others 17    *)
(* bit addresses held in 24 bits.  Both are kept as plain numbers.         *)
(***************************************************************************)
EXTENDS Integers, Sequences, FiniteSets, Functions

CONSTANTS
  SIZE,        \* entries of X10sensors, 512 in the code
  Addrs,       \* the 24 bit addresses
  Funcs,       \* the function bytes of events
  MAXEVENTS    \* bound on the events, which stand for time(NULL) as well

ASSUME SizeAssumption == SIZE \in Nat \ {0}
ASSUME AddrsAssumption == Addrs \subseteq 0 .. 2^24 - 1
ASSUME FuncsAssumption == Funcs \subseteq 0 .. 255
ASSUME BoundAssumption == MAXEVENTS \in Nat

VARIABLES
  X10sensors,  \* the entries in use, X10sensorcount of them
  (* history *)
  events,      \* how many events there were
  first,       \* the addresses in the order of their first events
  latest       \* the latest event of each of them

vars == <<X10sensors, events, first, latest>>

AddrBits == {0, 1}    \* secaddr8: 0 is a 17 bit address, 1 an 8 bit one

\* An 8 bit address is one byte.  A 17 bit one has even parity in its low
\* sixteen bits, or secaf_decode refuses the event.
Odd(a) == Cardinality({k \in 0 .. 15 : (a \div 2^k) % 2 = 1}) % 2 = 1
ValidAddr(a, addr8) == IF addr8 = 1 THEN a < 256 ELSE ~Odd(a)

Sensors == [secaddr : Addrs, secaddr8 : AddrBits, sensorstatus : Funcs,
            lastupdate : Nat]
Slots == 1 .. Len(X10sensors)
Find(addr) == {i \in Slots : X10sensors[i].secaddr = addr}

Update_status_only(addr, func) ==
  \E i \in Find(addr) :
    X10sensors' = [X10sensors EXCEPT ![i].sensorstatus = func]

Update_alerts_only(addr, func) ==
  \E i \in Find(addr) :
    X10sensors' = IF func < 128
                  THEN [X10sensors EXCEPT ![i].sensorstatus = func,
                                          ![i].lastupdate = events']
                  ELSE [X10sensors EXCEPT ![i].lastupdate = events']

\* A known sensor.  The kind of its address stays what it was.
Update(addr, func) ==
  \E i \in Find(addr) :
    X10sensors' = [X10sensors EXCEPT ![i].sensorstatus = func,
                                     ![i].lastupdate = events']

\* A new one: dropped when the table is full, which it is with one entry left.
AddNew_unchecked(addr, func, addr8) ==
  IF Len(X10sensors) + 1 >= SIZE
  THEN UNCHANGED X10sensors
  ELSE X10sensors' = Append(X10sensors,
         [secaddr |-> addr, secaddr8 |-> addr8, sensorstatus |-> func,
          lastupdate |-> events'])

AddNew(addr, func, addr8) ==
  /\ Find(addr) = {}
  /\ IF Len(X10sensors) + 1 >= SIZE
     THEN UNCHANGED X10sensors
     ELSE X10sensors' = Append(X10sensors,
            [secaddr |-> addr, secaddr8 |-> addr8, sensorstatus |-> func,
             lastupdate |-> events'])

hua_sec_event(addr, func, addr8) ==
  /\ ValidAddr(addr, addr8)
  /\ events < MAXEVENTS
  /\ events' = events + 1
  /\ Update(addr, func) \/ AddNew(addr, func, addr8)
  /\ latest' = [a \in DOMAIN latest \cup {addr} |->
                  IF a = addr THEN [func |-> func, time |-> events', addr8 |-> addr8]
                  ELSE latest[a]]
  /\ first' = IF addr \in DOMAIN latest THEN first ELSE Append(first, addr)

\* ST: qsort by address, then printing.
hua_show ==
  /\ \E order \in Bijection(Slots, Slots) :
       /\ X10sensors' = [i \in Slots |-> X10sensors[order[i]]]
       /\ \A i, j \in Slots :
            i < j => X10sensors'[i].secaddr <= X10sensors'[j].secaddr
  /\ UNCHANGED <<events, first, latest>>

\* ST 0, and the start of mydaemon.
hua_sec_init ==
  /\ X10sensors' = <<>>
  /\ first' = <<>>
  /\ latest' = <<>>
  /\ UNCHANGED events

Alert8   == {4}
Normal8  == {132}
Alert17  == {0, 1, 4, 5, 12, 13}
Normal17 == {128, 129, 132, 133, 140, 141}

\* 1 alert, 0 normal, -1 not known.
hua_getstatus_sec(rf8bitaddr, rfaddr) ==
  LET Has(A8, A17) ==
        \E i \in Find(rfaddr) :
          /\ X10sensors[i].secaddr8 = rf8bitaddr
          /\ X10sensors[i].sensorstatus \in (IF rf8bitaddr = 1 THEN A8 ELSE A17)
  IN  IF Has(Alert8, Alert17) THEN 1 ELSE IF Has(Normal8, Normal17) THEN 0 ELSE -1

\* What GETSTATUSSEC answers.
GetStatusSec(addr8, addr) ==
  IF hua_getstatus_sec(addr8, addr) = 1 THEN "on" ELSE "off"

Init ==
  /\ X10sensors = <<>>
  /\ events = 0
  /\ first = <<>>
  /\ latest = <<>>

Next ==
  \/ \E addr \in Addrs, func \in Funcs, addr8 \in AddrBits :
       hua_sec_event(addr, func, addr8)
  \/ hua_show
  \/ hua_sec_init

Spec == Init /\ [][Next]_vars

-----------------------------------------------------------------------------
(***************************************************************************)
(* Properties                                                              *)
(***************************************************************************)

\* The table is a sequence of sensors that leaves one entry free.
TypeOK ==
  /\ X10sensors \in Seq(Sensors)
  /\ Len(X10sensors) <= SIZE - 1
  /\ events \in Nat

\* An address has one entry, also after sorting: an update reaches the entry
\* that a later query reads.
OneEntryEach == \A a \in Addrs : Cardinality(Find(a)) <= 1

\* The sensors that were heard first have an entry as long as there is room,
\* each entry holds the latest event of its sensor, even of one that comes
\* when the table is full, and sorting loses none.
TableFollowsEvents ==
  /\ {X10sensors[i].secaddr : i \in Slots}
       = {first[i] : i \in {j \in DOMAIN first : j <= SIZE - 1}}
  /\ \A i \in Slots :
       LET s == X10sensors[i]
       IN  /\ s.sensorstatus = latest[s.secaddr].func
           /\ s.lastupdate = latest[s.secaddr].time

\* "1<<7 1=close/normal, 0=open/alert" (decode.c): GETSTATUSSEC answers on only
\* for a sensor whose latest event is an alert, however long ago that was and
\* whatever was heard, sorted or cleared since.  An alarm that is over is not
\* reported.
AlarmsAreCurrent ==
  \A addr8 \in AddrBits, a \in Addrs :
    GetStatusSec(addr8, a) = "on" => a \in DOMAIN latest /\ latest[a].func < 128

=============================================================================
