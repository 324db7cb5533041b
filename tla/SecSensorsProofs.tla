--------------------------- MODULE SecSensorsProofs ---------------------------
(***************************************************************************)
(* Theorems about the table of security sensors, for every size of it and  *)
(* any events.                                                             *)
(*                                                                         *)
(* That an answer is current needs each entry to hold the latest event of  *)
(* its address (Current).  An update changes one entry, so this needs      *)
(* every address to have one entry only (Distinct).                        *)
(*                                                                         *)
(* Which sensors are in the table needs the addresses heard so far to be   *)
(* exactly those in first, and the table to be as long as first or full    *)
(* (Told): a new address is refused only when SIZE - 1 others came before. *)
(***************************************************************************)
EXTENDS SecSensors, SequenceTheorems, FiniteSetTheorems, TLAPS

Distinct == \A i, j \in Slots : X10sensors[i].secaddr = X10sensors[j].secaddr => i = j

Current ==
  \A i \in Slots : /\ X10sensors[i].secaddr \in DOMAIN latest
                   /\ X10sensors[i].sensorstatus = latest[X10sensors[i].secaddr].func

Inv == TypeOK /\ Distinct /\ Current

LEMMA InvInit == Init => Inv
<1> SUFFICES ASSUME Init PROVE Inv
  OBVIOUS
<1>1. X10sensors \in Seq(Sensors) /\ Len(X10sensors) = 0 /\ events = 0
  BY DEF Init
<1>2. TypeOK
  BY <1>1, SizeAssumption DEF TypeOK
<1>3. Slots = {}
  BY <1>1 DEF Slots
<1> QED
  BY <1>2, <1>3 DEF Inv, Distinct, Current

\* hua_sec_event, whether the sensor is known, new, or new and refused.
LEMMA EventStep ==
  ASSUME Inv, NEW addr \in Addrs, NEW func \in Funcs, NEW addr8 \in AddrBits,
         hua_sec_event(addr, func, addr8)
  PROVE  Inv'
<1>1. /\ X10sensors \in Seq(Sensors) /\ Len(X10sensors) \in Nat
      /\ Len(X10sensors) <= SIZE - 1 /\ events \in Nat
      /\ Distinct /\ Current
  BY DEF Inv, TypeOK
<1>2. /\ events' = events + 1
      /\ Update(addr, func) \/ AddNew(addr, func, addr8)
      /\ latest' = [a \in DOMAIN latest \cup {addr} |->
                      IF a = addr THEN [func |-> func, time |-> events', addr8 |-> addr8]
                      ELSE latest[a]]
  BY DEF hua_sec_event
<1>3. events' \in Nat
  BY <1>1, <1>2
<1>4. /\ addr \in DOMAIN latest' /\ latest'[addr].func = func
      /\ \A a \in DOMAIN latest : /\ a \in DOMAIN latest'
                                  /\ a # addr => latest'[a] = latest[a]
  BY <1>2
<1>5. \A i \in Slots : X10sensors[i] \in Sensors
  BY <1>1 DEF Slots
<1>6. CASE Update(addr, func)
  <2>1. PICK i \in Slots :
          /\ X10sensors[i].secaddr = addr
          /\ X10sensors' = [X10sensors EXCEPT ![i].sensorstatus = func,
                                              ![i].lastupdate = events']
    BY <1>6 DEF Update, Find
  <2> DEFINE new == [X10sensors[i] EXCEPT !.sensorstatus = func, !.lastupdate = events']
  <2>2. new \in Sensors /\ new.secaddr = addr /\ new.sensorstatus = func
    BY <1>3, <1>5, <2>1 DEF Sensors
  <2>3. X10sensors' = [X10sensors EXCEPT ![i] = new]
    BY <1>1, <2>1 DEF Slots
  <2> HIDE DEF new
  <2>4. X10sensors' \in Seq(Sensors) /\ Len(X10sensors') = Len(X10sensors)
    BY <1>1, <2>2, <2>3, ExceptSeq DEF Slots
  <2>5. Slots' = Slots
    BY <2>4 DEF Slots
  <2>6. \A j \in Slots : X10sensors'[j] = IF j = i THEN new ELSE X10sensors[j]
    BY <1>1, <2>3 DEF Slots
  <2>7. TypeOK'
    BY <1>1, <1>3, <2>4 DEF TypeOK
  <2>8. Distinct'
    BY <1>1, <2>1, <2>2, <2>5, <2>6 DEF Distinct
  <2>9. Current'
    <3> SUFFICES ASSUME NEW j \in Slots
                 PROVE  /\ X10sensors'[j].secaddr \in DOMAIN latest'
                        /\ X10sensors'[j].sensorstatus = latest'[X10sensors'[j].secaddr].func
      BY <2>5 DEF Current
    <3>1. CASE j = i
      BY <1>4, <2>2, <2>6, <3>1
    <3>2. CASE j # i
      <4>1. X10sensors'[j] = X10sensors[j] /\ X10sensors[j].secaddr # addr
        BY <1>1, <2>1, <2>6, <3>2 DEF Distinct
      <4> QED
        BY <1>1, <1>4, <4>1 DEF Current
    <3> QED
      BY <3>1, <3>2
  <2> QED
    BY <2>7, <2>8, <2>9 DEF Inv
<1>7. CASE AddNew(addr, func, addr8)
  <2>1. \A i \in Slots : X10sensors[i].secaddr # addr
    BY <1>7 DEF AddNew, Find
  <2>2. CASE UNCHANGED X10sensors
    <3>1. Slots' = Slots
      BY <2>2 DEF Slots
    <3>2. TypeOK' /\ Distinct'
      BY <1>1, <1>3, <2>2, <3>1 DEF TypeOK, Distinct
    <3>3. Current'
      BY <1>1, <1>4, <2>1, <2>2, <3>1 DEF Current
    <3> QED
      BY <3>2, <3>3 DEF Inv
  <2>3. CASE ~UNCHANGED X10sensors
    <3> DEFINE new == [secaddr |-> addr, secaddr8 |-> addr8, sensorstatus |-> func,
                       lastupdate |-> events']
    <3>1. /\ X10sensors' = Append(X10sensors, new)
          /\ ~(Len(X10sensors) + 1 >= SIZE)
      BY <1>7, <2>3 DEF AddNew
    <3>2. new \in Sensors /\ new.secaddr = addr /\ new.sensorstatus = func
      BY <1>3 DEF Sensors
    <3> HIDE DEF new
    <3>3. /\ X10sensors' \in Seq(Sensors) /\ Len(X10sensors') = Len(X10sensors) + 1
          /\ X10sensors'[Len(X10sensors) + 1] = new
          /\ \A j \in Slots : X10sensors'[j] = X10sensors[j]
      BY <1>1, <3>1, <3>2, AppendProperties DEF Slots
    <3>4. Slots' = Slots \cup {Len(X10sensors) + 1}
      BY <1>1, <3>3 DEF Slots
    <3>5. TypeOK'
      BY <1>1, <1>3, <3>1, <3>3, SizeAssumption DEF TypeOK
    <3>6. Distinct'
      BY <1>1, <2>1, <3>2, <3>3, <3>4 DEF Distinct
    <3>7. Current'
      BY <1>1, <1>4, <2>1, <3>2, <3>3, <3>4 DEF Current
    <3> QED
      BY <3>5, <3>6, <3>7 DEF Inv
  <2> QED
    BY <2>2, <2>3
<1> QED
  BY <1>2, <1>6, <1>7

\* The sorting of hua_show moves entries and changes none.
LEMMA SortStep ==
  ASSUME Inv, hua_show
  PROVE  Inv'
<1>1. PICK order \in Bijection(Slots, Slots) :
        X10sensors' = [i \in Slots |-> X10sensors[order[i]]]
  BY DEF hua_show
<1>2. /\ X10sensors \in Seq(Sensors) /\ Len(X10sensors) \in Nat
      /\ UNCHANGED <<events, latest>>
  BY DEF Inv, TypeOK, hua_show
<1>3. /\ \A i \in Slots : order[i] \in Slots
      /\ \A i, j \in Slots : order[i] = order[j] => i = j
  BY <1>1 DEF Bijection, Injection, IsInjective
<1>4. X10sensors' \in Seq(Sensors) /\ Len(X10sensors') = Len(X10sensors)
  BY <1>1, <1>2, <1>3 DEF Slots
<1>5. Slots' = Slots
  BY <1>4 DEF Slots
<1>6. TypeOK'
  BY <1>2, <1>4 DEF Inv, TypeOK
<1>7. Distinct'
  BY <1>1, <1>3, <1>5 DEF Inv, Distinct
<1>8. Current'
  BY <1>1, <1>2, <1>3, <1>5 DEF Inv, Current
<1> QED
  BY <1>6, <1>7, <1>8 DEF Inv

LEMMA InvStep == Inv /\ [Next]_vars => Inv'
<1> SUFFICES ASSUME Inv, [Next]_vars PROVE Inv'
  OBVIOUS
<1>1. CASE \E addr \in Addrs, func \in Funcs, addr8 \in AddrBits :
             hua_sec_event(addr, func, addr8)
  BY <1>1, EventStep
<1>2. CASE hua_show
  BY <1>2, SortStep
<1>3. CASE hua_sec_init
  <2>1. X10sensors' \in Seq(Sensors) /\ Len(X10sensors') = 0 /\ events' = events
    BY <1>3 DEF hua_sec_init
  <2>2. Slots' = {}
    BY <2>1 DEF Slots
  <2>3. TypeOK'
    BY <2>1, SizeAssumption DEF Inv, TypeOK
  <2> QED
    BY <2>2, <2>3 DEF Inv, Distinct, Current
<1>4. CASE UNCHANGED vars
  BY <1>4 DEF vars, Inv, TypeOK, Distinct, Current, Slots
<1> QED
  BY <1>1, <1>2, <1>3, <1>4 DEF Next

LEMMA InvariantHolds == Spec => []Inv
<1> QED
  BY InvInit, InvStep, PTL DEF Spec

\* The table never holds more than SIZE - 1 sensors (hua_sec_event).
THEOREM TypeCorrect == Spec => []TypeOK
<1>1. Inv => TypeOK
  BY DEF Inv
<1> QED
  BY <1>1, InvariantHolds, PTL

\* No address has two entries, whatever is added, refused, sorted or cleared.
THEOREM NoSecondEntry == Spec => []OneEntryEach
<1>1. Inv => OneEntryEach
  <2> SUFFICES ASSUME Inv, NEW a \in Addrs PROVE Cardinality(Find(a)) <= 1
    BY DEF OneEntryEach
  <2>1. CASE Find(a) = {}
    BY <2>1, FS_EmptySet
  <2>2. CASE Find(a) # {}
    <3>1. PICK i : i \in Find(a)
      BY <2>2
    <3>2. Find(a) = {i}
      BY <3>1 DEF Inv, Distinct, Find
    <3>3. Cardinality(Find(a)) = 1
      BY <3>2, FS_Singleton, Zenon
    <3> QED
      BY <3>3
  <2> QED
    BY <2>1, <2>2
<1> QED
  BY <1>1, InvariantHolds, PTL

\* GETSTATUSSEC answers on only for a sensor whose latest event is an alert
\* (hua_getstatus_sec).
THEOREM AlarmsCurrent == Spec => []AlarmsAreCurrent
<1>1. Inv => AlarmsAreCurrent
  <2> SUFFICES ASSUME Inv, NEW addr8 \in AddrBits, NEW a \in Addrs,
                      GetStatusSec(addr8, a) = "on"
               PROVE  a \in DOMAIN latest /\ latest[a].func < 128
    BY DEF AlarmsAreCurrent
  <2>1. hua_getstatus_sec(addr8, a) = 1
    BY DEF GetStatusSec
  <2>2. PICK i \in Find(a) :
          X10sensors[i].sensorstatus \in (IF addr8 = 1 THEN Alert8 ELSE Alert17)
    BY <2>1 DEF hua_getstatus_sec
  <2>3. X10sensors[i].sensorstatus \in {0, 1, 4, 5, 12, 13}
    BY <2>2 DEF Alert8, Alert17
  <2>4. a \in DOMAIN latest /\ X10sensors[i].sensorstatus = latest[a].func
    BY <2>2 DEF Inv, Current, Find
  <2> QED
    BY <2>3, <2>4
<1> QED
  BY <1>1, InvariantHolds, PTL
-----------------------------------------------------------------------------
(***************************************************************************)
(* Which sensors are in the table                                          *)
(***************************************************************************)

Kept == {j \in DOMAIN first : j <= SIZE - 1}

Told ==
  /\ first \in Seq(Addrs)
  /\ DOMAIN latest = {first[j] : j \in DOMAIN first}
  /\ Len(X10sensors) = IF Len(first) <= SIZE - 1 THEN Len(first) ELSE SIZE - 1

\* The two halves of TableFollowsEvents, as facts about single entries.
Members ==
  /\ \A i \in Slots : \E j \in Kept : X10sensors[i].secaddr = first[j]
  /\ \A j \in Kept : \E i \in Slots : X10sensors[i].secaddr = first[j]

Fresh ==
  \A i \in Slots : /\ X10sensors[i].sensorstatus = latest[X10sensors[i].secaddr].func
                   /\ X10sensors[i].lastupdate = latest[X10sensors[i].secaddr].time

FollowInv == Inv /\ Told /\ Members /\ Fresh

\* The history of an event: its address is new, or has been heard before.
LEMMA HistoryStep ==
  ASSUME Told, NEW addr \in Addrs, NEW func \in Funcs, NEW addr8 \in AddrBits,
         hua_sec_event(addr, func, addr8)
  PROVE  /\ first' \in Seq(Addrs)
         /\ DOMAIN latest' = {first'[j] : j \in DOMAIN first'}
         /\ latest'[addr].func = func /\ latest'[addr].time = events'
         /\ \A a \in DOMAIN latest \ {addr} : latest'[a] = latest[a]
         /\ \/ /\ addr \notin DOMAIN latest /\ Len(first') = Len(first) + 1
               /\ first'[Len(first) + 1] = addr
               /\ \A j \in 1 .. Len(first) : first'[j] = first[j]
            \/ addr \in DOMAIN latest /\ first' = first
<1>1. /\ first \in Seq(Addrs) /\ DOMAIN latest = {first[j] : j \in DOMAIN first}
      /\ Len(first) \in Nat /\ DOMAIN first = 1 .. Len(first)
  BY DEF Told
<1>2. /\ latest' = [a \in DOMAIN latest \cup {addr} |->
                      IF a = addr THEN [func |-> func, time |-> events', addr8 |-> addr8]
                      ELSE latest[a]]
      /\ first' = IF addr \in DOMAIN latest THEN first ELSE Append(first, addr)
  BY DEF hua_sec_event
<1>3. /\ DOMAIN latest' = DOMAIN latest \cup {addr}
      /\ latest'[addr] = [func |-> func, time |-> events', addr8 |-> addr8]
      /\ \A a \in DOMAIN latest \ {addr} : latest'[a] = latest[a]
  BY <1>2
<1>4. latest'[addr].func = func /\ latest'[addr].time = events'
  BY <1>3
<1>5. CASE addr \in DOMAIN latest
  <2>1. first' = first /\ DOMAIN latest' = DOMAIN latest
    BY <1>2, <1>3, <1>5
  <2> QED
    BY <1>1, <1>3, <1>4, <1>5, <2>1
<1>6. CASE addr \notin DOMAIN latest
  <2>1. first' = Append(first, addr)
    BY <1>2, <1>6
  <2>2. /\ first' \in Seq(Addrs) /\ Len(first') = Len(first) + 1
        /\ first'[Len(first) + 1] = addr
        /\ \A j \in 1 .. Len(first) : first'[j] = first[j]
        /\ DOMAIN first' = 1 .. Len(first) + 1
    BY <1>1, <2>1, AppendProperties
  <2>3. DOMAIN latest' = {first'[j] : j \in DOMAIN first'}
    <3>1. ASSUME NEW a \in DOMAIN latest' PROVE \E j \in DOMAIN first' : a = first'[j]
      <4>1. CASE a = addr
        BY <1>1, <2>2, <4>1
      <4>2. CASE a \in DOMAIN latest
        <5>1. PICK j \in DOMAIN first : a = first[j]
          BY <1>1, <4>2
        <5>2. j \in DOMAIN first' /\ first'[j] = a
          BY <1>1, <2>2, <5>1
        <5> QED
          BY <5>2
      <4> QED
        BY <1>3, <4>1, <4>2
    <3>2. ASSUME NEW j \in DOMAIN first' PROVE first'[j] \in DOMAIN latest'
      <4>1. CASE j = Len(first) + 1
        BY <1>3, <2>2, <4>1
      <4>2. CASE j \in 1 .. Len(first)
        BY <1>1, <1>3, <2>2, <4>2
      <4> QED
        BY <1>1, <2>2, <4>1, <4>2
    <3> QED
      BY <3>1, <3>2
  <2> QED
    BY <1>3, <1>4, <1>6, <2>2, <2>3
<1> QED
  BY <1>5, <1>6

LEMMA FollowEvent ==
  ASSUME FollowInv, NEW addr \in Addrs, NEW func \in Funcs, NEW addr8 \in AddrBits,
         hua_sec_event(addr, func, addr8)
  PROVE  FollowInv'
<1>1. /\ X10sensors \in Seq(Sensors) /\ Len(X10sensors) \in Nat
      /\ Distinct /\ Current /\ Told /\ Members /\ Fresh
      /\ SIZE \in Nat \ {0} /\ first \in Seq(Addrs)
      /\ DOMAIN latest = {first[j] : j \in DOMAIN first}
      /\ Len(X10sensors) = IF Len(first) <= SIZE - 1 THEN Len(first) ELSE SIZE - 1
      /\ Len(first) \in Nat /\ DOMAIN first = 1 .. Len(first)
  BY SizeAssumption DEF FollowInv, Inv, TypeOK, Told
<1>2. Inv'
  BY EventStep DEF FollowInv
<1>3. /\ first' \in Seq(Addrs)
      /\ DOMAIN latest' = {first'[j] : j \in DOMAIN first'}
      /\ latest'[addr].func = func /\ latest'[addr].time = events'
      /\ \A a \in DOMAIN latest \ {addr} : latest'[a] = latest[a]
      /\ \/ /\ addr \notin DOMAIN latest /\ Len(first') = Len(first) + 1
            /\ first'[Len(first) + 1] = addr
            /\ \A j \in 1 .. Len(first) : first'[j] = first[j]
         \/ addr \in DOMAIN latest /\ first' = first
  BY <1>1, HistoryStep
<1>4. DOMAIN first' = 1 .. Len(first')
  BY <1>3
<1>5. Update(addr, func) \/ AddNew(addr, func, addr8)
  BY DEF hua_sec_event
<1>6. CASE Update(addr, func)
  <2>1. PICK i \in Slots :
          /\ X10sensors[i].secaddr = addr
          /\ X10sensors' = [X10sensors EXCEPT ![i].sensorstatus = func,
                                              ![i].lastupdate = events']
    BY <1>6 DEF Update, Find
  <2> DEFINE new == [X10sensors[i] EXCEPT !.sensorstatus = func, !.lastupdate = events']
  <2>2. X10sensors[i] \in Sensors /\ events' \in Nat
    BY <1>1, <1>2, <2>1 DEF Slots, Inv, TypeOK
  <2>3. /\ new.secaddr = addr /\ new.sensorstatus = func /\ new.lastupdate = events'
        /\ new \in Sensors
    BY <2>1, <2>2 DEF Sensors
  <2>4. X10sensors' = [X10sensors EXCEPT ![i] = new]
    BY <1>1, <2>1 DEF Slots
  <2> HIDE DEF new
  <2>5. /\ Len(X10sensors') = Len(X10sensors)
        /\ \A j \in Slots : X10sensors'[j] = IF j = i THEN new ELSE X10sensors[j]
    <3>1. Len(X10sensors') = Len(X10sensors)
      BY <1>1, <2>3, <2>4, ExceptSeq DEF Slots
    <3>2. \A j \in Slots : X10sensors'[j] = IF j = i THEN new ELSE X10sensors[j]
      BY <1>1, <2>4 DEF Slots
    <3> QED
      BY <3>1, <3>2
  <2>6. Slots' = Slots
    BY <2>5 DEF Slots
  <2>7. addr \in DOMAIN latest
    BY <1>1, <2>1 DEF Current
  <2>8. first' = first
    BY <1>3, <2>7
  <2>9. Told'
    BY <1>1, <1>3, <2>5, <2>8 DEF Told
  <2>10. \A j \in Slots : X10sensors'[j].secaddr = X10sensors[j].secaddr
    BY <2>1, <2>3, <2>5
  <2>11. Members'
    <3>1. /\ \A j \in Slots : \E k \in Kept : X10sensors'[j].secaddr = first[k]
          /\ \A k \in Kept : \E j \in Slots : X10sensors'[j].secaddr = first[k]
      BY <1>1, <2>10 DEF Members
    <3>2. Kept' = Kept
      BY <2>8 DEF Kept
    <3> QED
      BY <2>6, <2>8, <3>1, <3>2 DEF Members
  <2>12. Fresh'
    <3> SUFFICES ASSUME NEW j \in Slots
                 PROVE  /\ X10sensors'[j].sensorstatus = latest'[X10sensors'[j].secaddr].func
                        /\ X10sensors'[j].lastupdate = latest'[X10sensors'[j].secaddr].time
      BY <2>6 DEF Fresh
    <3>1. CASE j = i
      BY <1>3, <2>3, <2>5, <3>1
    <3>2. CASE j # i
      <4>1. X10sensors'[j] = X10sensors[j] /\ X10sensors[j].secaddr \in DOMAIN latest \ {addr}
        BY <1>1, <2>1, <2>5, <3>2 DEF Distinct, Current
      <4> QED
        BY <1>1, <1>3, <4>1 DEF Fresh
    <3> QED
      BY <3>1, <3>2
  <2> QED
    BY <1>2, <2>9, <2>11, <2>12 DEF FollowInv
<1>7. CASE AddNew(addr, func, addr8)
  <2> DEFINE new == [secaddr |-> addr, secaddr8 |-> addr8, sensorstatus |-> func,
                     lastupdate |-> events']
  <2>1. /\ \A i \in Slots : X10sensors[i].secaddr # addr
        /\ X10sensors' = IF Len(X10sensors) + 1 >= SIZE THEN X10sensors
                         ELSE Append(X10sensors, new)
    BY <1>7 DEF AddNew, Find
  <2>2. new \in Sensors
    <3>1. events' \in Nat
      BY <1>2 DEF Inv, TypeOK
    <3> QED
      BY <3>1 DEF Sensors
  <2>3. new.secaddr = addr /\ new.sensorstatus = func /\ new.lastupdate = events'
    OBVIOUS
  <2> HIDE DEF new
  <2>4. \A i \in Slots : X10sensors[i].secaddr \in DOMAIN latest \ {addr}
    BY <1>1, <2>1 DEF Current
  <2>5. CASE Len(X10sensors) + 1 >= SIZE
    <3>1. X10sensors' = X10sensors /\ Slots' = Slots
      BY <2>1, <2>5 DEF Slots
    <3>2. Len(first) >= SIZE - 1
      BY <1>1, <2>5
    <3>3. Told' /\ Kept' = Kept /\ \A j \in Kept : first'[j] = first[j]
      <4>1. CASE first' = first
        BY <1>1, <1>3, <3>1, <4>1 DEF Told, Kept
      <4>2. CASE /\ Len(first') = Len(first) + 1
                 /\ \A j \in 1 .. Len(first) : first'[j] = first[j]
        <5>1. ~(Len(first') <= SIZE - 1) /\ Len(X10sensors) = SIZE - 1
          BY <1>1, <3>2, <4>2
        <5>2. Told'
          BY <1>3, <3>1, <5>1 DEF Told
        <5>3. Kept' = Kept
          BY <1>1, <1>4, <3>2, <4>2 DEF Kept
        <5> QED
          BY <1>1, <4>2, <5>2, <5>3 DEF Kept
      <4> QED
        BY <1>3, <4>1, <4>2
    <3>4. Members'
      BY <1>1, <3>1, <3>3 DEF Members
    <3>5. Fresh'
      BY <1>1, <1>3, <2>4, <3>1 DEF Fresh
    <3> QED
      BY <1>2, <3>3, <3>4, <3>5 DEF FollowInv
  <2>6. CASE ~(Len(X10sensors) + 1 >= SIZE)
    <3>1. /\ Len(X10sensors') = Len(X10sensors) + 1
          /\ X10sensors'[Len(X10sensors) + 1] = new
          /\ \A j \in Slots : X10sensors'[j] = X10sensors[j]
      BY <1>1, <2>1, <2>2, <2>6, AppendProperties DEF Slots
    <3>2. Slots' = Slots \cup {Len(X10sensors) + 1}
      BY <1>1, <3>1 DEF Slots
    <3>3. Len(first) = Len(X10sensors) /\ Len(first) < SIZE - 1
      BY <1>1, <2>6
    <3>4. Kept = DOMAIN first
      BY <1>1, <3>3 DEF Kept
    <3>5. addr \notin DOMAIN latest
      <4>1. ASSUME addr \in DOMAIN latest PROVE FALSE
        <5>1. PICK j \in DOMAIN first : addr = first[j]
          BY <1>1, <4>1
        <5>2. \E i \in Slots : X10sensors[i].secaddr = first[j]
          BY <1>1, <3>4, <5>1 DEF Members
        <5> QED
          BY <2>1, <5>1, <5>2
      <4> QED
        BY <4>1
    <3>6. /\ Len(first') = Len(first) + 1 /\ first'[Len(first) + 1] = addr
          /\ \A j \in 1 .. Len(first) : first'[j] = first[j]
      BY <1>3, <3>5
    <3>7. Told'
      BY <1>1, <1>3, <3>1, <3>3, <3>6 DEF Told
    <3>8. Kept' = DOMAIN first \cup {Len(first) + 1}
      BY <1>1, <1>4, <3>3, <3>6 DEF Kept
    <3>9. Members'
      <4>1. ASSUME NEW i \in Slots' PROVE \E j \in Kept' : X10sensors'[i].secaddr = first'[j]
        <5>1. CASE i \in Slots
          <6>1. PICK j \in Kept : X10sensors[i].secaddr = first[j]
            BY <1>1, <5>1 DEF Members
          <6> QED
            BY <1>1, <3>1, <3>4, <3>6, <3>8, <5>1, <6>1
        <5>2. CASE i = Len(X10sensors) + 1
          BY <2>3, <3>1, <3>6, <3>8, <5>2
        <5> QED
          BY <3>2, <5>1, <5>2
      <4>2. ASSUME NEW j \in Kept' PROVE \E i \in Slots' : X10sensors'[i].secaddr = first'[j]
        <5>1. CASE j \in DOMAIN first
          <6>1. PICK i \in Slots : X10sensors[i].secaddr = first[j]
            BY <1>1, <3>4, <5>1 DEF Members
          <6> QED
            BY <1>1, <3>1, <3>2, <3>6, <5>1, <6>1
        <5>2. CASE j = Len(first) + 1
          BY <2>3, <3>1, <3>2, <3>6, <5>2
        <5> QED
          BY <3>8, <5>1, <5>2
      <4> QED
        BY <4>1, <4>2 DEF Members
    <3>10. Fresh'
      <4>1. ASSUME NEW i \in Slots
            PROVE  /\ X10sensors'[i].sensorstatus = latest'[X10sensors'[i].secaddr].func
                   /\ X10sensors'[i].lastupdate = latest'[X10sensors'[i].secaddr].time
        <5>1. latest'[X10sensors[i].secaddr] = latest[X10sensors[i].secaddr]
          BY <1>3, <2>4
        <5> QED
          BY <1>1, <3>1, <5>1 DEF Fresh
      <4>2. ASSUME NEW i, i = Len(X10sensors) + 1
            PROVE  /\ X10sensors'[i].sensorstatus = latest'[X10sensors'[i].secaddr].func
                   /\ X10sensors'[i].lastupdate = latest'[X10sensors'[i].secaddr].time
        BY <1>3, <2>3, <3>1, <4>2
      <4> QED
        BY <3>2, <4>1, <4>2 DEF Fresh
    <3> QED
      BY <1>2, <3>7, <3>9, <3>10 DEF FollowInv
  <2> QED
    BY <2>5, <2>6
<1> QED
  BY <1>5, <1>6, <1>7

\* Sorting moves each entry to one place, and fills each place.
LEMMA FollowSort ==
  ASSUME FollowInv, hua_show
  PROVE  FollowInv'
<1>1. PICK order \in Bijection(Slots, Slots) :
        X10sensors' = [i \in Slots |-> X10sensors[order[i]]]
  BY DEF hua_show
<1>2. UNCHANGED <<events, first, latest>> /\ Told /\ Members /\ Fresh
  BY DEF FollowInv, hua_show
<1>3. /\ \A i \in Slots : order[i] \in Slots
      /\ \A j \in Slots : \E i \in Slots : order[i] = j
  BY <1>1 DEF Bijection, Injection, Surjection, IsInjective
<1>4. Inv'
  BY SortStep DEF FollowInv
<1>5. Len(X10sensors') = Len(X10sensors) /\ Slots' = Slots
  <2>1. Len(X10sensors) \in Nat
    BY DEF FollowInv, Inv, TypeOK
  <2>2. Len(X10sensors') = Len(X10sensors)
    BY <1>1, <2>1 DEF Slots
  <2> QED
    BY <2>2 DEF Slots
<1>6. Told'
  BY <1>2, <1>5 DEF Told
<1>7. Members'
  <2>1. Kept' = Kept
    BY <1>2 DEF Kept
  <2>2. ASSUME NEW i \in Slots PROVE \E j \in Kept : X10sensors'[i].secaddr = first[j]
    <3>1. X10sensors'[i] = X10sensors[order[i]] /\ order[i] \in Slots
      BY <1>1, <1>3
    <3> QED
      BY <1>2, <3>1 DEF Members
  <2>3. ASSUME NEW j \in Kept PROVE \E i \in Slots : X10sensors'[i].secaddr = first[j]
    <3>1. PICK m \in Slots : X10sensors[m].secaddr = first[j]
      BY <1>2 DEF Members
    <3>2. PICK i \in Slots : order[i] = m
      BY <1>3
    <3> QED
      BY <1>1, <3>1, <3>2
  <2> QED
    BY <1>2, <1>5, <2>1, <2>2, <2>3 DEF Members
<1>8. Fresh'
  BY <1>1, <1>2, <1>3, <1>5 DEF Fresh
<1> QED
  BY <1>4, <1>6, <1>7, <1>8 DEF FollowInv

LEMMA FollowEmpty ==
  ASSUME X10sensors = <<>>, first = <<>>, latest = <<>>
  PROVE  Told /\ Members /\ Fresh
<1>1. Len(X10sensors) = 0 /\ Slots = {} /\ Kept = {} /\ Len(first) = 0 /\ first \in Seq(Addrs)
      /\ DOMAIN latest = {} /\ DOMAIN first = {}
  BY DEF Slots, Kept
<1> QED
  BY <1>1, SizeAssumption DEF Told, Members, Fresh

LEMMA FollowStep == FollowInv /\ [Next]_vars => FollowInv'
<1> SUFFICES ASSUME FollowInv, [Next]_vars PROVE FollowInv'
  OBVIOUS
<1>1. CASE \E addr \in Addrs, func \in Funcs, addr8 \in AddrBits :
             hua_sec_event(addr, func, addr8)
  BY <1>1, FollowEvent
<1>2. CASE hua_show
  BY <1>2, FollowSort
<1>3. CASE hua_sec_init
  <2>1. Inv'
    BY InvStep DEF FollowInv
  <2>2. Len(X10sensors') = 0 /\ Slots' = {} /\ Kept' = {} /\ Len(first') = 0
        /\ first' \in Seq(Addrs) /\ DOMAIN latest' = {} /\ DOMAIN first' = {}
    BY <1>3 DEF hua_sec_init, Slots, Kept
  <2>3. Told' /\ Members' /\ Fresh'
    BY <2>2, SizeAssumption DEF Told, Members, Fresh
  <2> QED
    BY <2>1, <2>3 DEF FollowInv
<1>4. CASE UNCHANGED vars
  BY <1>4, InvStep DEF vars, FollowInv, Told, Members, Fresh, Kept, Slots
<1> QED
  BY <1>1, <1>2, <1>3, <1>4 DEF Next

\* The table is what the events say it is: the first SIZE - 1 sensors heard since
\* it was cleared, each with its latest event, in whatever order.
THEOREM FollowsEvents == Spec => []TableFollowsEvents
<1>1. Init => FollowInv
  BY InvInit, FollowEmpty DEF Init, FollowInv
<1>2. FollowInv => TableFollowsEvents
  BY DEF FollowInv, Members, Fresh, Kept, TableFollowsEvents
<1> QED
  BY <1>1, <1>2, FollowStep, PTL DEF Spec

=============================================================================
