---------------------------- MODULE GatewayProofs ----------------------------
(***************************************************************************)
(* Whatever commands and packets do to each other, they use the device     *)
(* tables and the duplicate filter only as X10State and DupFilter say: the *)
(* behaviours of Gateway are behaviours of both, for any houses, units,    *)
(* functions and commands.  What is proved of the tables alone then holds  *)
(* in the daemon.                                                          *)
(*                                                                         *)
(* The inductive invariant says that every call that is left to do has a   *)
(* frame, or an RF command, of the model.                                  *)
(*                                                                         *)
(* Three more invariants about the calls that are left: in which order     *)
(* they show frames to the tables and to the line (LineInv), how many      *)
(* writes they can lead to (StormInv), and what they will still tell the   *)
(* tables about a unit that was switched already (KnowInv).                *)
(***************************************************************************)
EXTENDS Gateway, SequenceTheorems, TLAPS

-----------------------------------------------------------------------------
(***************************************************************************)
(* The device tables alone (X10State), for any houses, units, function     *)
(* codes and levels.                                                       *)
(***************************************************************************)

Inv == TypeOK /\ StateDimAgree

\* What hua_func and hua_func_all write (x10state.c) is well typed and keeps
\* state and level in agreement, whatever units they act on.
LEMMA FuncStep ==
  ASSUME Inv, NEW h \in Houses, NEW us \in SUBSET Units, NEW func \in {On, Off},
         HouseUnitState' = StateOf(h, us, func),
         HouseUnitDim' = DimOf(h, us, func)
  PROVE  /\ HouseUnitState' \in [Houses -> [Units -> Status]]
         /\ HouseUnitDim' \in [Houses -> [Units -> 0 .. 255]]
         /\ StateDimAgree'
<1>1. /\ HouseUnitState \in [Houses -> [Units -> Status]]
      /\ HouseUnitDim \in [Houses -> [Units -> 0 .. 255]]
  BY DEF Inv, TypeOK
<1>2. /\ HouseUnitState' \in [Houses -> [Units -> Status]]
      /\ HouseUnitDim' \in [Houses -> [Units -> 0 .. 255]]
  BY <1>1 DEF StateOf, DimOf, Status, FullDim
<1>3. ASSUME NEW g \in Houses, NEW u \in Units
      PROVE  HouseUnitState'[g][u] = On <=> HouseUnitDim'[g][u] > 0
  <2>1. HouseUnitState[g][u] = On <=> HouseUnitDim[g][u] > 0
    BY DEF Inv, StateDimAgree, hua_getstatus, hua_getstatus_xdim
  <2>2. CASE g = h /\ u \in us
    BY <1>1, <2>2 DEF StateOf, DimOf, On, Off, FullDim
  <2>3. CASE ~(g = h /\ u \in us)
    BY <1>1, <2>1, <2>3 DEF StateOf, DimOf
  <2> QED
    BY <2>2, <2>3
<1> QED
  BY <1>2, <1>3 DEF StateDimAgree, hua_getstatus, hua_getstatus_xdim

LEMMA OpType ==
  ASSUME NEW n \in OpNames, NEW h \in Houses, NEW u \in Units, NEW x \in 0 .. 255
  PROVE  Op(n, h, u, x) \in Ops /\ Op(n, h, AnyUnit, x) \in Ops
BY UnitsAssumption DEF Op, Ops, AnyUnit

\* Recording one or two operations keeps the log a log.
LEMMA RecordStep ==
  ASSUME TypeOK, NEW ops \in Seq(Ops), Record(ops)
  PROVE  log' \in Seq(Ops) /\ Len(log') <= MAXLOG
<1>1. log \in Seq(Ops) /\ log' = log \o ops /\ Len(log) + Len(ops) <= MAXLOG
  BY DEF TypeOK, Record
<1> QED
  BY <1>1, ConcatProperties

LEMMA OneOp ==
  ASSUME TypeOK, NEW o \in Ops, Record(<<o>>)
  PROVE  log' \in Seq(Ops) /\ Len(log') <= MAXLOG
<1>1. <<o>> \in Seq(Ops)
  OBVIOUS
<1> QED
  BY <1>1, RecordStep

LEMMA InvInit == Init => Inv
<1> SUFFICES ASSUME Init PROVE Inv
  OBVIOUS
<1>1. log = <<>> /\ <<>> \in Seq(Ops) /\ Len(<<>>) = 0
  BY DEF Init
<1>2. TypeOK
  BY <1>1, MaxLogAssumption DEF Init, TypeOK, Status
<1>3. StateDimAgree
  BY DEF Init, StateDimAgree, hua_getstatus, hua_getstatus_xdim, Unknown, On
<1> QED
  BY <1>2, <1>3 DEF Inv

LEMMA InvStep == Inv /\ [Next]_vars => Inv'
<1> SUFFICES ASSUME Inv, [Next]_vars PROVE Inv'
  OBVIOUS
<1>0. TypeOK
  BY DEF Inv
<1>1. ASSUME NEW h \in Houses, NEW u \in Units, PlHouseUnit(h, u) PROVE Inv'
  <2>1. log' \in Seq(Ops) /\ Len(log') <= MAXLOG
    BY <1>0, <1>1, OneOp, OpType DEF PlHouseUnit, OpNames
  <2>2. StateDimAgree'
    BY <1>1 DEF PlHouseUnit, hua_add, Inv, StateDimAgree, hua_getstatus,
                hua_getstatus_xdim
  <2>3. TypeOK'
    BY <1>0, <1>1, <2>1 DEF PlHouseUnit, hua_add, TypeOK
  <2> QED
    BY <2>2, <2>3 DEF Inv
<1>2. ASSUME NEW h \in Houses, NEW us \in SUBSET Units, NEW func \in {On, Off},
             NEW n \in OpNames, NEW x \in 0 .. 255,
             Record(<<Op(n, h, AnyUnit, x)>>),
             X10protostate' = [X10protostate EXCEPT ![h] = 1],
             HouseUnitState' = StateOf(h, us, func),
             HouseUnitDim' = DimOf(h, us, func),
             UNCHANGED HouseUnitSelected
      PROVE  Inv'
  <2>1. log' \in Seq(Ops) /\ Len(log') <= MAXLOG
    BY <1>0, <1>2, OneOp, OpType, UnitsAssumption
  <2>2. /\ HouseUnitState' \in [Houses -> [Units -> Status]]
        /\ HouseUnitDim' \in [Houses -> [Units -> 0 .. 255]]
        /\ StateDimAgree'
    BY <1>2, FuncStep
  <2>3. TypeOK'
    BY <1>0, <1>2, <2>1, <2>2 DEF TypeOK
  <2> QED
    BY <2>2, <2>3 DEF Inv
<1>3. ASSUME UNCHANGED <<tables, log>>
      PROVE  Inv'
  BY <1>0, <1>3 DEF tables, Inv, TypeOK, StateDimAgree, hua_getstatus,
                    hua_getstatus_xdim
<1>4. ASSUME NEW h \in Houses, NEW f \in Funcs, PlHouseFunc(h, f) PROVE Inv'
  <2>1. HouseUnitSelected[h] \in SUBSET Units
    BY <1>0 DEF TypeOK
  <2>2. CASE Record(<<Op("alloff", h, AnyUnit, 0)>>) /\ hua_func_all(h, Off)
    <3>1. /\ X10protostate' = [X10protostate EXCEPT ![h] = 1]
          /\ HouseUnitState' = StateOf(h, Units, Off)
          /\ HouseUnitDim' = DimOf(h, Units, Off)
          /\ UNCHANGED HouseUnitSelected
      BY <2>2 DEF hua_func_all
    <3>2. "alloff" \in OpNames /\ 0 \in 0 .. 255 /\ Units \in SUBSET Units
      BY <2>1 DEF OpNames, FullDim
    <3> QED
      BY <1>2, <2>1, <2>2, <3>1, <3>2
  <2>3. CASE Record(<<Op("allon", h, AnyUnit, FullDim)>>) /\ hua_func_all(h, On)
    <3>1. /\ X10protostate' = [X10protostate EXCEPT ![h] = 1]
          /\ HouseUnitState' = StateOf(h, Units, On)
          /\ HouseUnitDim' = DimOf(h, Units, On)
          /\ UNCHANGED HouseUnitSelected
      BY <2>3 DEF hua_func_all
    <3>2. "allon" \in OpNames /\ FullDim \in 0 .. 255 /\ Units \in SUBSET Units
      BY <2>1 DEF OpNames, FullDim
    <3> QED
      BY <1>2, <2>1, <2>3, <3>1, <3>2
  <2>4. CASE Record(<<Op("on", h, AnyUnit, FullDim)>>) /\ hua_func(h, On)
    <3>1. /\ X10protostate' = [X10protostate EXCEPT ![h] = 1]
          /\ HouseUnitState' = StateOf(h, HouseUnitSelected[h], On)
          /\ HouseUnitDim' = DimOf(h, HouseUnitSelected[h], On)
          /\ UNCHANGED HouseUnitSelected
      BY <2>4 DEF hua_func
    <3>2. "on" \in OpNames /\ FullDim \in 0 .. 255 /\ HouseUnitSelected[h] \in SUBSET Units
      BY <2>1 DEF OpNames, FullDim
    <3> QED
      BY <1>2, <2>1, <2>4, <3>1, <3>2
  <2>5. CASE Record(<<Op("off", h, AnyUnit, 0)>>) /\ hua_func(h, Off)
    <3>1. /\ X10protostate' = [X10protostate EXCEPT ![h] = 1]
          /\ HouseUnitState' = StateOf(h, HouseUnitSelected[h], Off)
          /\ HouseUnitDim' = DimOf(h, HouseUnitSelected[h], Off)
          /\ UNCHANGED HouseUnitSelected
      BY <2>5 DEF hua_func
    <3>2. "off" \in OpNames /\ 0 \in 0 .. 255 /\ HouseUnitSelected[h] \in SUBSET Units
      BY <2>1 DEF OpNames, FullDim
    <3> QED
      BY <1>2, <2>1, <2>5, <3>1, <3>2
  <2>6. CASE UNCHANGED <<tables, log>>
    BY <1>3, <2>6
  <2> QED
    BY <1>4, <2>2, <2>3, <2>4, <2>5, <2>6 DEF PlHouseFunc
<1>5. ASSUME NEW h \in Houses, NEW u \in Units, NEW x \in Levels,
             PlExtended(h, u, x)
      PROVE  Inv'
  <2>1. x \in 0 .. 255
    BY LevelsAssumption
  <2>2. log' \in Seq(Ops) /\ Len(log') <= MAXLOG
    BY <1>0, <1>5, <2>1, OneOp, OpType DEF PlExtended, OpNames
  <2>3. /\ HouseUnitDim' = [HouseUnitDim EXCEPT ![h][u] = x]
        /\ HouseUnitState' =
             [HouseUnitState EXCEPT ![h][u] = IF x > 0 THEN On ELSE Off]
    BY <1>5 DEF PlExtended, hua_setstatus_xdim
  <2>4. /\ HouseUnitState \in [Houses -> [Units -> Status]]
        /\ HouseUnitDim \in [Houses -> [Units -> 0 .. 255]]
    BY <1>0 DEF TypeOK
  <2>5. /\ HouseUnitState' \in [Houses -> [Units -> Status]]
        /\ HouseUnitDim' \in [Houses -> [Units -> 0 .. 255]]
    BY <2>1, <2>3, <2>4 DEF Status
  <2>6. TypeOK'
    BY <1>0, <1>5, <2>2, <2>5 DEF PlExtended, hua_setstatus_xdim, TypeOK
  <2>7. ASSUME NEW g \in Houses, NEW v \in Units
        PROVE  HouseUnitState'[g][v] = On <=> HouseUnitDim'[g][v] > 0
    <3>1. HouseUnitState[g][v] = On <=> HouseUnitDim[g][v] > 0
      BY DEF Inv, StateDimAgree, hua_getstatus, hua_getstatus_xdim
    <3> QED
      BY <2>1, <2>3, <2>4, <3>1 DEF On, Off
  <2> QED
    BY <2>6, <2>7 DEF Inv, StateDimAgree, hua_getstatus, hua_getstatus_xdim
<1>6. ASSUME NEW h \in Houses, NEW u \in Units, NEW func \in {On, Off},
             RfHouseUnit(h, u, func)
      PROVE  Inv'
  <2> DEFINE selected == IF X10protostate[h] = 0
                         THEN HouseUnitSelected[h] \cup {u} ELSE {u}
             second == IF func = On THEN Op("on", h, AnyUnit, FullDim)
                                    ELSE Op("off", h, AnyUnit, 0)
  <2>1. Op("addr", h, u, 0) \in Ops /\ second \in Ops
    BY OpType DEF OpNames, FullDim
  <2>2. <<Op("addr", h, u, 0), second>> \in Seq(Ops)
    BY <2>1
  <2>3. log' \in Seq(Ops) /\ Len(log') <= MAXLOG
    BY <1>0, <1>6, <2>2, RecordStep DEF RfHouseUnit
  <2>4. selected \in SUBSET Units
    BY <1>0 DEF TypeOK
  <2>5. /\ HouseUnitSelected' = [HouseUnitSelected EXCEPT ![h] = selected]
        /\ X10protostate' = [X10protostate EXCEPT ![h] = 1]
        /\ HouseUnitState' = StateOf(h, selected, func)
        /\ HouseUnitDim' = DimOf(h, selected, func)
    BY <1>6 DEF RfHouseUnit
  <2> HIDE DEF selected, second
  <2>6. /\ HouseUnitState' \in [Houses -> [Units -> Status]]
        /\ HouseUnitDim' \in [Houses -> [Units -> 0 .. 255]]
        /\ StateDimAgree'
    BY <2>4, <2>5, FuncStep
  <2>7. TypeOK'
    BY <1>0, <2>3, <2>4, <2>5, <2>6 DEF TypeOK
  <2> QED
    BY <2>6, <2>7 DEF Inv
<1>7. CASE hua_sec_init
  <2>1. log' = <<>> /\ <<>> \in Seq(Ops) /\ Len(<<>>) = 0
    BY <1>7 DEF hua_sec_init
  <2>2. TypeOK'
    BY <1>7, <2>1, MaxLogAssumption DEF hua_sec_init, TypeOK, Status
  <2>3. StateDimAgree'
    BY <1>7 DEF hua_sec_init, StateDimAgree, hua_getstatus, hua_getstatus_xdim,
                Unknown, On
  <2> QED
    BY <2>2, <2>3 DEF Inv
<1>8. CASE UNCHANGED vars
  BY <1>3, <1>8 DEF vars
<1> QED
  BY <1>1, <1>4, <1>5, <1>6, <1>7, <1>8 DEF Next

LEMMA InvariantHolds == Spec => []Inv
<1> QED
  BY InvInit, InvStep, PTL DEF Spec

\* The tables of x10state.c keep their types, and a level its byte.
THEOREM TypeCorrect == Spec => []TypeOK
<1>1. Inv => TypeOK
  BY DEF Inv
<1> QED
  BY <1>1, InvariantHolds, PTL

\* getstatus and getstatus xdim agree, after any frames whatsoever
\* (hua_func, hua_func_all, hua_setstatus_xdim).
THEOREM StatusAgreesWithLevel == Spec => []StateDimAgree
<1>1. Inv => StateDimAgree
  BY DEF Inv
<1> QED
  BY <1>1, InvariantHolds, PTL

-----------------------------------------------------------------------------
(***************************************************************************)
(* The tables are what the operations make of them.  TablesFollowFrames is *)
(* not inductive: it does not say when X10protostate makes the next        *)
(* address start a new selection, nor that the operations that set a unit  *)
(* have a last one.                                                        *)
(***************************************************************************)

\* The last operation of house h was not an address.
Closed(l, h) ==
  \E j \in Positions(l, h) :
    l[j].op # "addr" /\ \A i \in Positions(l, h) : i <= j

HasLatest(l, h, u) ==
  Settings(l, h, u) # {} =>
    \E k \in Settings(l, h, u) : \A j \in Settings(l, h, u) : j <= k

\* The tables of house h, and of unit u of it, follow the operations l.
HouseFollows(l, h, selected, protostate) ==
  /\ selected = SelectedAfter(l, h, Len(l))
  /\ protostate = 1 <=> Closed(l, h)
UnitFollows(l, h, u, state, dim) ==
  /\ state = StatusAfter(l, h, u)
  /\ dim = LevelAfter(l, h, u)
  /\ HasLatest(l, h, u)

Follows ==
  \A h \in Houses :
    /\ HouseFollows(log, h, HouseUnitSelected[h], X10protostate[h])
    /\ \A u \in Units :
         UnitFollows(log, h, u, HouseUnitState[h][u], HouseUnitDim[h][u])

\* What operation o does to the selection sel of house h, and whether it acts
\* on unit u when sel is selected.
SelectedBy(o, h, sel, closed) ==
  IF o.house # h \/ o.op \notin {"addr", "ext"} THEN sel
  ELSE IF o.op = "ext" \/ closed THEN {o.unit}
  ELSE sel \cup {o.unit}
ActsOn(o, h, u, sel) ==
  /\ o.house = h
  /\ \/ o.op \in {"allon", "alloff"}
     \/ o.op = "ext" /\ o.unit = u
     \/ o.op \in {"on", "off"} /\ u \in sel

LEMMA AppendPositions ==
  ASSUME NEW l \in Seq(Ops), NEW o \in Ops, NEW h
  PROVE  /\ Append(l, o) \in Seq(Ops) /\ Len(Append(l, o)) = Len(l) + 1
         /\ Len(l) \in Nat
         /\ Append(l, o)[Len(l) + 1] = o
         /\ \A k \in 1 .. Len(l) : Append(l, o)[k] = l[k]
         /\ \A k : k \in Positions(Append(l, o), h) <=>
                     k \in Positions(l, h) \/ (k = Len(l) + 1 /\ o.house = h)
         /\ \A k \in Positions(l, h) : k \in 1 .. Len(l)
<1>1. /\ Append(l, o) \in Seq(Ops) /\ Len(Append(l, o)) = Len(l) + 1
      /\ Len(l) \in Nat
      /\ Append(l, o)[Len(l) + 1] = o
      /\ \A k \in 1 .. Len(l) : Append(l, o)[k] = l[k]
  OBVIOUS
<1>2. \A k : k \in 1 .. Len(l) + 1 <=> k \in 1 .. Len(l) \/ k = Len(l) + 1
  BY <1>1
<1> QED
  BY <1>1, <1>2 DEF Positions

\* Recording an operation changes nothing about the earlier ones.
LEMMA AppendRestarts ==
  ASSUME NEW l \in Seq(Ops), NEW o \in Ops, NEW h,
         NEW k \in 1 .. Len(l)
  PROVE  Restarts(Append(l, o), h, k) <=> Restarts(l, h, k)
<1> DEFINE l2 == Append(l, o)
<1>1. /\ Len(l) \in Nat
      /\ \A i \in 1 .. Len(l) : l2[i] = l[i]
      /\ \A i : i \in Positions(l2, h) <=>
                  i \in Positions(l, h) \/ (i = Len(l) + 1 /\ o.house = h)
      /\ \A i \in Positions(l, h) : i \in 1 .. Len(l)
  BY AppendPositions
<1> HIDE DEF l2
<1>2. \A i \in 1 .. k - 1 : i \in 1 .. Len(l)
  BY <1>1
<1>3. \A j \in 1 .. k - 1 :
        /\ l2[j] = l[j]
        /\ \A i \in j + 1 .. k - 1 : l2[i] = l[i]
  BY <1>1, <1>2
<1> QED
  BY <1>1, <1>3 DEF Restarts, l2

LEMMA AppendSelectedBefore ==
  ASSUME NEW l \in Seq(Ops), NEW o \in Ops, NEW h,
         NEW n \in 0 .. Len(l)
  PROVE  SelectedAfter(Append(l, o), h, n) = SelectedAfter(l, h, n)
<1> DEFINE l2 == Append(l, o)
<1>1. /\ Len(l) \in Nat
      /\ \A i \in 1 .. Len(l) : l2[i] = l[i]
      /\ \A i : i \in Positions(l2, h) <=>
                  i \in Positions(l, h) \/ (i = Len(l) + 1 /\ o.house = h)
      /\ \A i \in Positions(l, h) : i \in 1 .. Len(l)
  BY AppendPositions
<1>2. \A k \in 1 .. Len(l) : Restarts(l2, h, k) <=> Restarts(l, h, k)
  BY AppendRestarts
<1> HIDE DEF l2
<1>3. ASSUME NEW k \in 1 .. Len(l)
      PROVE  (\A m \in k + 1 .. n : ~Restarts(l2, h, m))
               <=> (\A m \in k + 1 .. n : ~Restarts(l, h, m))
  <2>1. \A m \in k + 1 .. n : m \in 1 .. Len(l)
    BY <1>1
  <2> QED
    BY <1>2, <2>1
<1>4. ASSUME NEW u \in Units
      PROVE (\E k \in Positions(l2, h) :
               /\ k <= n /\ l2[k].op \in {"addr", "ext"} /\ l2[k].unit = u
               /\ \A m \in k + 1 .. n : ~Restarts(l2, h, m))
        <=> (\E k \in Positions(l, h) :
               /\ k <= n /\ l[k].op \in {"addr", "ext"} /\ l[k].unit = u
               /\ \A m \in k + 1 .. n : ~Restarts(l, h, m))
  <2>1. \A k : k \in Positions(l2, h) /\ k <= n <=> k \in Positions(l, h) /\ k <= n
    BY <1>1
  <2>2. \A k \in Positions(l, h) : k \in 1 .. Len(l) /\ l2[k] = l[k]
    BY <1>1
  <2> QED
    BY <1>3, <2>1, <2>2
<1> QED
  BY <1>4 DEF SelectedAfter, l2

\* The last operation restarts the selection as X10protostate has it.
LEMMA AppendRestartsLast ==
  ASSUME NEW l \in Seq(Ops), NEW o \in Ops, NEW h
  PROVE  /\ Restarts(Append(l, o), h, Len(l) + 1) <=>
              o.house = h /\ (o.op = "ext" \/ (o.op = "addr" /\ Closed(l, h)))
         /\ Closed(Append(l, o), h) <=>
              IF o.house = h THEN o.op # "addr" ELSE Closed(l, h)
<1> DEFINE l2 == Append(l, o)
           n == Len(l) + 1
<1>1. /\ Len(l) \in Nat
      /\ l2[n] = o
      /\ \A i \in 1 .. Len(l) : l2[i] = l[i]
      /\ \A i : i \in Positions(l2, h) <=>
                  i \in Positions(l, h) \/ (i = n /\ o.house = h)
      /\ \A i \in Positions(l, h) : i \in 1 .. Len(l)
  BY AppendPositions
<1>2. n \in Nat /\ \A i \in Positions(l, h) : i \in Nat /\ i < n /\ i # n
  BY <1>1
<1> HIDE DEF l2, n
<1>3. (\E j \in 1 .. n - 1 :
             /\ l2[j].house = h /\ l2[j].op # "addr"
             /\ \A i \in j + 1 .. n - 1 : l2[i].house # h)
      <=> Closed(l, h)
  <2>1. ASSUME NEW j \in Positions(l, h)
        PROVE  (\A i \in j + 1 .. n - 1 : l2[i].house # h)
                 <=> (\A i \in Positions(l, h) : i <= j)
    <3>1. \A i : i \in j + 1 .. n - 1 <=> i \in 1 .. Len(l) /\ j < i
      BY <1>1 DEF n
    <3>2. \A i \in 1 .. Len(l) : l2[i].house = h <=> i \in Positions(l, h)
      BY <1>1 DEF Positions
    <3> QED
      BY <1>1, <3>1, <3>2
  <2>2. \A j : j \in Positions(l, h) <=>
                j \in 1 .. n - 1 /\ l2[j].house = h
    BY <1>1 DEF Positions, n
  <2>3. \A j \in Positions(l, h) : l2[j] = l[j]
    BY <1>1
  <2> QED
    BY <2>1, <2>2, <2>3 DEF Closed
<1>4. Restarts(l2, h, n) <=>
        o.house = h /\ (o.op = "ext" \/ (o.op = "addr" /\ Closed(l, h)))
  BY <1>1, <1>2, <1>3 DEF Restarts
<1>5. CASE o.house = h
  <2>1. n \in Positions(l2, h) /\ \A i \in Positions(l2, h) : i <= n
    BY <1>1, <1>2, <1>5
  <2>2. \A j \in Positions(l2, h) :
          (\A i \in Positions(l2, h) : i <= j) <=> j = n
    BY <1>1, <1>2, <2>1
  <2>3. Closed(l2, h) <=> o.op # "addr"
    BY <1>1, <2>1, <2>2 DEF Closed
  <2> QED
    BY <1>4, <1>5, <2>3 DEF l2, n
<1>6. CASE o.house # h
  <2>1. Positions(l2, h) = Positions(l, h)
    BY <1>1, <1>6
  <2>2. Closed(l2, h) <=> Closed(l, h)
    BY <1>1, <2>1 DEF Closed
  <2> QED
    BY <1>4, <1>6, <2>2 DEF l2, n
<1> QED
  BY <1>5, <1>6

LEMMA AppendSelected ==
  ASSUME NEW l \in Seq(Ops), NEW o \in Ops, NEW h
  PROVE  SelectedAfter(Append(l, o), h, Len(Append(l, o)))
           = SelectedBy(o, h, SelectedAfter(l, h, Len(l)), Closed(l, h))
<1> DEFINE l2 == Append(l, o)
           n == Len(l) + 1
           In(k, u) == l[k].op \in {"addr", "ext"} /\ l[k].unit = u
           Restarted == o.house = h /\ (o.op = "ext" \/ (o.op = "addr" /\ Closed(l, h)))
<1>1. /\ Len(l) \in Nat
      /\ l2[n] = o /\ Len(l2) = n
      /\ \A i \in 1 .. Len(l) : l2[i] = l[i]
      /\ \A i : i \in Positions(l2, h) <=>
                  i \in Positions(l, h) \/ (i = n /\ o.house = h)
      /\ \A i \in Positions(l, h) : i \in 1 .. Len(l)
  BY AppendPositions
<1>2. o.op \in OpNames /\ o.unit \in Units
  BY DEF Ops
<1>3. /\ Restarts(l2, h, n) <=> Restarted
      /\ \A k \in 1 .. Len(l) : Restarts(l2, h, k) <=> Restarts(l, h, k)
  BY AppendRestartsLast, AppendRestarts
<1> HIDE DEF l2, Restarted
<1>4. ASSUME NEW k \in 1 .. Len(l)
      PROVE  (\A m \in k + 1 .. n : ~Restarts(l2, h, m))
               <=> ~Restarted /\ (\A m \in k + 1 .. Len(l) : ~Restarts(l, h, m))
  <2>1. \A m : m \in k + 1 .. n <=> m \in k + 1 .. Len(l) \/ m = n
    BY <1>1
  <2>2. \A m \in k + 1 .. Len(l) : m \in 1 .. Len(l)
    BY <1>1
  <2> QED
    BY <1>3, <2>1, <2>2
<1>5. ASSUME NEW u \in Units
      PROVE (\E k \in Positions(l2, h) :
               /\ k <= n /\ l2[k].op \in {"addr", "ext"} /\ l2[k].unit = u
               /\ \A m \in k + 1 .. n : ~Restarts(l2, h, m))
        <=> \/ ~Restarted /\ u \in SelectedAfter(l, h, Len(l))
            \/ o.house = h /\ o.op \in {"addr", "ext"} /\ o.unit = u
  <2>1. \A m \in n + 1 .. n : FALSE
    BY <1>1
  <2>2. u \in SelectedAfter(l, h, Len(l)) <=>
          \E k \in Positions(l, h) :
            /\ In(k, u)
            /\ \A m \in k + 1 .. Len(l) : ~Restarts(l, h, m)
    BY <1>1 DEF SelectedAfter
  <2>3. \A k \in Positions(l, h) : k <= n /\ k \in 1 .. Len(l) /\ l2[k] = l[k]
    BY <1>1
  <2>4. n <= n
    BY <1>1
  <2> HIDE DEF n
  <2> QED
    BY <1>1, <1>4, <2>1, <2>2, <2>3, <2>4
<1>6. SelectedAfter(l2, h, n) =
        {u \in Units : \/ ~Restarted /\ u \in SelectedAfter(l, h, Len(l))
                       \/ o.house = h /\ o.op \in {"addr", "ext"} /\ o.unit = u}
  BY <1>5 DEF SelectedAfter
<1>7. SelectedAfter(l, h, Len(l)) \subseteq Units
  BY DEF SelectedAfter
<1>8. SelectedAfter(l2, h, n)
        = SelectedBy(o, h, SelectedAfter(l, h, Len(l)), Closed(l, h))
  BY <1>2, <1>6, <1>7 DEF SelectedBy, Restarted, OpNames
<1> QED
  BY <1>1, <1>8 DEF l2

LEMMA AppendSettings ==
  ASSUME NEW l \in Seq(Ops), NEW o \in Ops, NEW h, NEW u
  PROVE  /\ \A k : k \in Settings(Append(l, o), h, u) <=>
                     \/ k \in Settings(l, h, u)
                     \/ k = Len(l) + 1 /\ ActsOn(o, h, u, SelectedAfter(l, h, Len(l)))
         /\ \A k \in Settings(l, h, u) : k \in 1 .. Len(l)
<1> DEFINE l2 == Append(l, o)
           n == Len(l) + 1
<1>1. /\ Len(l) \in Nat
      /\ l2[n] = o
      /\ \A i \in 1 .. Len(l) : l2[i] = l[i]
      /\ \A i : i \in Positions(l2, h) <=>
                  i \in Positions(l, h) \/ (i = n /\ o.house = h)
      /\ \A i \in Positions(l, h) : i \in 1 .. Len(l)
  BY AppendPositions
<1>2. \A k \in 1 .. n : SelectedAfter(l2, h, k - 1) = SelectedAfter(l, h, k - 1)
  <2>1. \A k \in 1 .. n : k - 1 \in 0 .. Len(l)
    BY <1>1
  <2> QED
    BY <2>1, AppendSelectedBefore
<1>3. n \in 1 .. n /\ n - 1 = Len(l) /\ \A k \in 1 .. Len(l) : k \in 1 .. n /\ k # n
  BY <1>1
<1> HIDE DEF l2, n
<1>4. \A k \in Settings(l, h, u) : k \in 1 .. Len(l)
  BY <1>1 DEF Settings
<1>5. ASSUME NEW k \in 1 .. Len(l)
      PROVE  k \in Settings(l2, h, u) <=> k \in Settings(l, h, u)
  BY <1>1, <1>2, <1>3, <1>5 DEF Settings
<1>6. n \in Settings(l2, h, u) <=> ActsOn(o, h, u, SelectedAfter(l, h, Len(l)))
  BY <1>1, <1>2, <1>3 DEF Settings, ActsOn
<1>7. \A k \in Settings(l2, h, u) : k \in 1 .. Len(l) \/ k = n
  BY <1>1 DEF Settings
<1>8. ASSUME NEW k
      PROVE  k \in Settings(l2, h, u) <=>
               \/ k \in Settings(l, h, u)
               \/ k = n /\ ActsOn(o, h, u, SelectedAfter(l, h, Len(l)))
  BY <1>4, <1>5, <1>6, <1>7
<1> QED
  BY <1>4, <1>8 DEF l2, n

\* An operation sets the units it acts on and no others.
LEMMA AppendUnit ==
  ASSUME NEW l \in Seq(Ops), NEW o \in Ops, NEW h, NEW u, HasLatest(l, h, u)
  PROVE  LET acts == ActsOn(o, h, u, SelectedAfter(l, h, Len(l)))
         IN  /\ LevelAfter(Append(l, o), h, u)
                  = IF acts THEN o.level ELSE LevelAfter(l, h, u)
             /\ StatusAfter(Append(l, o), h, u)
                  = IF ~acts THEN StatusAfter(l, h, u)
                    ELSE IF o.level > 0 THEN On ELSE Off
             /\ HasLatest(Append(l, o), h, u)
<1> DEFINE l2 == Append(l, o)
           n == Len(l) + 1
           acts == ActsOn(o, h, u, SelectedAfter(l, h, Len(l)))
           S == Settings(l, h, u)
           S2 == Settings(l2, h, u)
<1>1. /\ Len(l) \in Nat /\ l2[n] = o
      /\ \A i \in 1 .. Len(l) : l2[i] = l[i]
  BY AppendPositions
<1>2. /\ \A k : k \in S2 <=> k \in S \/ (k = n /\ acts)
      /\ \A k \in S : k \in 1 .. Len(l)
  BY AppendSettings
<1> HIDE DEF acts, l2
<1>3. CASE acts
  <2>1. n \in S2 /\ \A j \in S2 : j <= n
    BY <1>1, <1>2, <1>3
  <2>2. \A k \in S2 : (\A j \in S2 : j <= k) => k = n
    BY <1>1, <1>2, <2>1
  <2> HIDE DEF S2, n
  <2>3. Latest(S2) = n
    BY <2>1, <2>2 DEF Latest
  <2>4. /\ LevelAfter(l2, h, u) = o.level
        /\ StatusAfter(l2, h, u) = IF o.level > 0 THEN On ELSE Off
        /\ HasLatest(l2, h, u)
    BY <1>1, <2>1, <2>3 DEF LevelAfter, StatusAfter, HasLatest, S2
  <2> QED
    BY <1>3, <2>4 DEF l2, acts
<1>4. CASE ~acts
  <2>1. S2 = S
    BY <1>2, <1>4
  <2>2. S # {} => Latest(S) \in S
    BY DEF HasLatest, Latest
  <2>3. S # {} => l2[Latest(S)] = l[Latest(S)]
    BY <1>1, <1>2, <2>2
  <2>4. /\ LevelAfter(l2, h, u) = LevelAfter(l, h, u)
        /\ StatusAfter(l2, h, u) = StatusAfter(l, h, u)
        /\ HasLatest(l2, h, u)
    BY <2>1, <2>3 DEF LevelAfter, StatusAfter, HasLatest
  <2> QED
    BY <1>4, <2>4 DEF l2, acts
<1> QED
  BY <1>3, <1>4

ProtoBy(o, h, proto) ==
  IF o.house # h THEN proto ELSE IF o.op = "addr" THEN 0 ELSE 1
StateBy(o, h, u, sel, state) ==
  IF ~ActsOn(o, h, u, sel) THEN state ELSE IF o.level > 0 THEN On ELSE Off
DimBy(o, h, u, sel, dim) == IF ActsOn(o, h, u, sel) THEN o.level ELSE dim

LEMMA HouseStep ==
  ASSUME NEW l \in Seq(Ops), NEW o \in Ops, NEW h, NEW sel, NEW proto,
         HouseFollows(l, h, sel, proto)
  PROVE  HouseFollows(Append(l, o), h, SelectedBy(o, h, sel, proto = 1),
                      ProtoBy(o, h, proto))
<1>1. /\ sel = SelectedAfter(l, h, Len(l))
      /\ proto = 1 <=> Closed(l, h)
  BY DEF HouseFollows
<1>2. SelectedAfter(Append(l, o), h, Len(Append(l, o)))
        = SelectedBy(o, h, sel, Closed(l, h))
  BY <1>1, AppendSelected
<1>3. SelectedBy(o, h, sel, Closed(l, h)) = SelectedBy(o, h, sel, proto = 1)
  BY <1>1 DEF SelectedBy
<1>4. ProtoBy(o, h, proto) = 1 <=> Closed(Append(l, o), h)
  BY <1>1, AppendRestartsLast DEF ProtoBy
<1> QED
  BY <1>2, <1>3, <1>4 DEF HouseFollows

LEMMA UnitStep ==
  ASSUME NEW l \in Seq(Ops), NEW o \in Ops, NEW h, NEW u, NEW sel,
         NEW state, NEW dim,
         sel = SelectedAfter(l, h, Len(l)), UnitFollows(l, h, u, state, dim)
  PROVE  UnitFollows(Append(l, o), h, u, StateBy(o, h, u, sel, state),
                     DimBy(o, h, u, sel, dim))
BY AppendUnit DEF UnitFollows, StateBy, DimBy

\* The tables change as operation o changes them.
Performs(o) ==
  \A h \in Houses :
    /\ HouseUnitSelected'[h]
         = SelectedBy(o, h, HouseUnitSelected[h], X10protostate[h] = 1)
    /\ X10protostate'[h] = ProtoBy(o, h, X10protostate[h])
    /\ \A u \in Units :
         /\ HouseUnitState'[h][u]
              = StateBy(o, h, u, HouseUnitSelected[h], HouseUnitState[h][u])
         /\ HouseUnitDim'[h][u]
              = DimBy(o, h, u, HouseUnitSelected[h], HouseUnitDim[h][u])

LEMMA FollowOne ==
  ASSUME TypeOK, Follows, NEW o \in Ops, log' = log \o <<o>>, Performs(o)
  PROVE  Follows'
<1>1. log \in Seq(Ops) /\ log' = Append(log, o)
  BY DEF TypeOK
<1>2. ASSUME NEW h \in Houses
      PROVE  /\ HouseFollows(log', h, HouseUnitSelected'[h], X10protostate'[h])
             /\ \A u \in Units : UnitFollows(log', h, u, HouseUnitState'[h][u],
                                             HouseUnitDim'[h][u])
  <2>1. /\ HouseFollows(log, h, HouseUnitSelected[h], X10protostate[h])
        /\ \A u \in Units :
             UnitFollows(log, h, u, HouseUnitState[h][u], HouseUnitDim[h][u])
    BY DEF Follows
  <2>2. HouseUnitSelected[h] = SelectedAfter(log, h, Len(log))
    BY <2>1 DEF HouseFollows
  <2>3. HouseFollows(log', h, HouseUnitSelected'[h], X10protostate'[h])
    <3>1. HouseFollows(Append(log, o), h,
            SelectedBy(o, h, HouseUnitSelected[h], X10protostate[h] = 1),
            ProtoBy(o, h, X10protostate[h]))
      BY <1>1, <2>1, HouseStep
    <3> QED
      BY <1>1, <3>1 DEF Performs
  <2>4. ASSUME NEW u \in Units
        PROVE  UnitFollows(log', h, u, HouseUnitState'[h][u], HouseUnitDim'[h][u])
    <3>1. UnitFollows(Append(log, o), h, u,
            StateBy(o, h, u, HouseUnitSelected[h], HouseUnitState[h][u]),
            DimBy(o, h, u, HouseUnitSelected[h], HouseUnitDim[h][u]))
      BY <1>1, <2>1, <2>2, UnitStep
    <3> QED
      BY <1>1, <3>1 DEF Performs
  <2> QED
    BY <2>3, <2>4
<1> QED
  BY <1>2 DEF Follows

\* A function on units us of one house: all of them, or those selected.
LEMMA FuncPerforms ==
  ASSUME TypeOK, NEW h \in Houses, NEW us \in SUBSET Units,
         NEW func \in {On, Off}, NEW o \in Ops,
         o.house = h, o.level = IF func = On THEN FullDim ELSE 0,
         \/ o.op \in {"allon", "alloff"} /\ us = Units
         \/ o.op \in {"on", "off"} /\ us = HouseUnitSelected[h],
         X10protostate' = [X10protostate EXCEPT ![h] = 1],
         HouseUnitState' = StateOf(h, us, func),
         HouseUnitDim' = DimOf(h, us, func),
         UNCHANGED HouseUnitSelected
  PROVE  Performs(o)
<1>1. /\ HouseUnitState \in [Houses -> [Units -> Status]]
      /\ HouseUnitDim \in [Houses -> [Units -> 0 .. 255]]
      /\ X10protostate \in [Houses -> {0, 1}]
  BY DEF TypeOK
<1>2. ASSUME NEW g \in Houses, NEW u \in Units
      PROVE  ActsOn(o, g, u, HouseUnitSelected[g]) <=> g = h /\ u \in us
  BY DEF ActsOn
<1>3. (o.level > 0 <=> func = On) /\ (o.level > 0 \/ func = Off)
  BY DEF FullDim, On, Off
<1>4. ASSUME NEW g \in Houses, NEW u \in Units
      PROVE  /\ HouseUnitState'[g][u]
                  = StateBy(o, g, u, HouseUnitSelected[g], HouseUnitState[g][u])
             /\ HouseUnitDim'[g][u]
                  = DimBy(o, g, u, HouseUnitSelected[g], HouseUnitDim[g][u])
  <2>1. CASE g = h /\ u \in us
    BY <1>1, <1>2, <1>3, <2>1 DEF StateBy, DimBy, StateOf, DimOf
  <2>2. CASE ~(g = h /\ u \in us)
    BY <1>1, <1>2, <2>2 DEF StateBy, DimBy, StateOf, DimOf
  <2> QED
    BY <2>1, <2>2
<1>5. ASSUME NEW g \in Houses
      PROVE  /\ HouseUnitSelected'[g]
                  = SelectedBy(o, g, HouseUnitSelected[g], X10protostate[g] = 1)
             /\ X10protostate'[g] = ProtoBy(o, g, X10protostate[g])
  BY <1>1 DEF SelectedBy, ProtoBy
<1> QED
  BY <1>4, <1>5 DEF Performs

\* What a house/function code does, if it does anything (cm15a_decode_plc).
ActingFuncs == AllOffFuncs \cup AllOnFuncs \cup OnFuncs \cup OffFuncs
FuncOp(h, f) ==
  IF f \in AllOffFuncs THEN Op("alloff", h, AnyUnit, 0)
  ELSE IF f \in AllOnFuncs THEN Op("allon", h, AnyUnit, FullDim)
  ELSE IF f \in OnFuncs THEN Op("on", h, AnyUnit, FullDim)
  ELSE Op("off", h, AnyUnit, 0)

LEMMA HouseFuncPerforms ==
  ASSUME TypeOK, NEW h \in Houses, NEW f \in ActingFuncs, PlHouseFunc(h, f)
  PROVE  /\ FuncOp(h, f) \in Ops
         /\ log' = log \o <<FuncOp(h, f)>>
         /\ Performs(FuncOp(h, f))
<1> DEFINE Level(func) == IF func = On THEN FullDim ELSE 0
<1>1. HouseUnitSelected[h] \in SUBSET Units /\ On # Off
  BY DEF TypeOK, On, Off
<1>2. ASSUME NEW n \in OpNames, NEW func \in {On, Off}, NEW us \in SUBSET Units,
             FuncOp(h, f) = Op(n, h, AnyUnit, Level(func)),
             Record(<<Op(n, h, AnyUnit, Level(func))>>),
             \/ n \in {"allon", "alloff"} /\ us = Units
             \/ n \in {"on", "off"} /\ us = HouseUnitSelected[h],
             X10protostate' = [X10protostate EXCEPT ![h] = 1],
             HouseUnitState' = StateOf(h, us, func),
             HouseUnitDim' = DimOf(h, us, func),
             UNCHANGED HouseUnitSelected
      PROVE  /\ FuncOp(h, f) \in Ops
             /\ log' = log \o <<FuncOp(h, f)>>
             /\ Performs(FuncOp(h, f))
  <2> DEFINE o == Op(n, h, AnyUnit, Level(func))
  <2>1. Level(func) \in 0 .. 255
    BY DEF FullDim
  <2>2. o \in Ops /\ o.op = n /\ o.house = h /\ o.level = Level(func)
    BY <2>1, OpType, UnitsAssumption DEF Op
  <2>3. log' = log \o <<o>>
    BY <1>2 DEF Record
  <2> HIDE DEF o
  <2>4. Performs(o)
    BY <1>2, <2>2, FuncPerforms
  <2> QED
    BY <1>2, <2>2, <2>3, <2>4 DEF o
<1>3. CASE f \in AllOffFuncs /\ Record(<<Op("alloff", h, AnyUnit, 0)>>) /\ hua_func_all(h, Off)
  <2>1. FuncOp(h, f) = Op("alloff", h, AnyUnit, Level(Off)) /\ "alloff" \in OpNames
    BY <1>1, <1>3 DEF FuncOp, OpNames
  <2> QED
    BY <1>1, <1>2, <1>3, <2>1 DEF hua_func_all
<1>4. CASE f \in AllOnFuncs /\ Record(<<Op("allon", h, AnyUnit, FullDim)>>) /\ hua_func_all(h, On)
  <2>1. FuncOp(h, f) = Op("allon", h, AnyUnit, Level(On)) /\ "allon" \in OpNames
    BY <1>4 DEF FuncOp, OpNames, AllOffFuncs, AllOnFuncs
  <2> QED
    BY <1>2, <1>4, <2>1 DEF hua_func_all
<1>5. CASE f \in OnFuncs /\ Record(<<Op("on", h, AnyUnit, FullDim)>>) /\ hua_func(h, On)
  <2>1. FuncOp(h, f) = Op("on", h, AnyUnit, Level(On)) /\ "on" \in OpNames
    BY <1>5 DEF FuncOp, OpNames, AllOffFuncs, AllOnFuncs, OnFuncs
  <2> QED
    BY <1>1, <1>2, <1>5, <2>1 DEF hua_func
<1>6. CASE f \in OffFuncs /\ Record(<<Op("off", h, AnyUnit, 0)>>) /\ hua_func(h, Off)
  <2>1. FuncOp(h, f) = Op("off", h, AnyUnit, Level(Off)) /\ "off" \in OpNames
    BY <1>1, <1>6 DEF FuncOp, OpNames, AllOffFuncs, AllOnFuncs, OnFuncs, OffFuncs
  <2> QED
    BY <1>1, <1>2, <1>6, <2>1 DEF hua_func
<1> QED
  BY <1>3, <1>4, <1>5, <1>6 DEF PlHouseFunc, ActingFuncs

LEMMA AddressPerforms ==
  ASSUME TypeOK, NEW h \in Houses, NEW u \in Units, PlHouseUnit(h, u)
  PROVE  LET o == Op("addr", h, u, 0)
         IN  o \in Ops /\ log' = log \o <<o>> /\ Performs(o)
<1> DEFINE o == Op("addr", h, u, 0)
<1>1. o \in Ops /\ o.op = "addr" /\ o.house = h /\ o.unit = u
  <2>1. "addr" \in OpNames /\ 0 \in 0 .. 255
    BY DEF OpNames
  <2>2. o \in Ops
    BY <2>1, OpType
  <2> QED
    BY <2>2 DEF Op
<1>2. log' = log \o <<o>>
  BY DEF PlHouseUnit, Record
<1>3. /\ HouseUnitSelected \in [Houses -> SUBSET Units]
      /\ X10protostate \in [Houses -> {0, 1}]
  BY DEF TypeOK
<1> HIDE DEF o
<1>4. ASSUME NEW g \in Houses
      PROVE  /\ HouseUnitSelected'[g]
                  = SelectedBy(o, g, HouseUnitSelected[g], X10protostate[g] = 1)
             /\ X10protostate'[g] = ProtoBy(o, g, X10protostate[g])
  BY <1>1, <1>3 DEF PlHouseUnit, hua_add, SelectedBy, ProtoBy
<1>5. ASSUME NEW g \in Houses, NEW v \in Units
      PROVE  /\ HouseUnitState'[g][v]
                  = StateBy(o, g, v, HouseUnitSelected[g], HouseUnitState[g][v])
             /\ HouseUnitDim'[g][v]
                  = DimBy(o, g, v, HouseUnitSelected[g], HouseUnitDim[g][v])
  BY <1>1 DEF PlHouseUnit, hua_add, StateBy, DimBy, ActsOn
<1> QED
  BY <1>1, <1>2, <1>4, <1>5 DEF Performs, o

LEMMA FollowExtended ==
  ASSUME TypeOK, Follows, NEW h \in Houses, NEW u \in Units, NEW x \in Levels,
         PlExtended(h, u, x)
  PROVE  Follows'
<1> DEFINE o == Op("ext", h, u, x)
<1>1. /\ o \in Ops /\ o.op = "ext" /\ o.house = h /\ o.unit = u /\ o.level = x
      /\ x \in 0 .. 255
  BY OpType, LevelsAssumption DEF OpNames, Op
<1>2. log' = log \o <<o>>
  BY DEF PlExtended, Record
<1>3. /\ HouseUnitSelected \in [Houses -> SUBSET Units]
      /\ X10protostate \in [Houses -> {0, 1}]
      /\ HouseUnitState \in [Houses -> [Units -> Status]]
      /\ HouseUnitDim \in [Houses -> [Units -> 0 .. 255]]
  BY DEF TypeOK
<1>4. /\ HouseUnitSelected' = [HouseUnitSelected EXCEPT ![h] = {u}]
      /\ X10protostate' = [X10protostate EXCEPT ![h] = 1]
      /\ HouseUnitDim' = [HouseUnitDim EXCEPT ![h][u] = x]
      /\ HouseUnitState' = [HouseUnitState EXCEPT ![h][u] = IF x > 0 THEN On ELSE Off]
  BY DEF PlExtended, hua_setstatus_xdim
<1> HIDE DEF o
<1>5. ASSUME NEW g \in Houses
      PROVE  /\ HouseUnitSelected'[g]
                  = SelectedBy(o, g, HouseUnitSelected[g], X10protostate[g] = 1)
             /\ X10protostate'[g] = ProtoBy(o, g, X10protostate[g])
  BY <1>1, <1>3, <1>4 DEF SelectedBy, ProtoBy
<1>6. ASSUME NEW g \in Houses, NEW v \in Units
      PROVE  /\ HouseUnitState'[g][v]
                  = StateBy(o, g, v, HouseUnitSelected[g], HouseUnitState[g][v])
             /\ HouseUnitDim'[g][v]
                  = DimBy(o, g, v, HouseUnitSelected[g], HouseUnitDim[g][v])
  BY <1>1, <1>3, <1>4 DEF StateBy, DimBy, ActsOn
<1> QED
  BY <1>1, <1>2, <1>5, <1>6, FollowOne DEF Performs

\* A standard RF code is two operations, an address and a function.
LEMMA FollowRf ==
  ASSUME TypeOK, Follows, NEW h \in Houses, NEW u \in Units, NEW func \in {On, Off},
         RfHouseUnit(h, u, func)
  PROVE  Follows'
<1> DEFINE a == Op("addr", h, u, 0)
           f == IF func = On THEN Op("on", h, AnyUnit, FullDim)
                             ELSE Op("off", h, AnyUnit, 0)
           l == Append(log, a)
           selected == IF X10protostate[h] = 0
                       THEN HouseUnitSelected[h] \cup {u} ELSE {u}
<1>1. /\ a \in Ops /\ a.op = "addr" /\ a.house = h /\ a.unit = u
      /\ f \in Ops /\ f.op \in {"on", "off"} /\ f.house = h
      /\ f.level > 0 <=> func = On
      /\ f.level = IF func = On THEN FullDim ELSE 0
  <2>1. {"addr", "on", "off"} \subseteq OpNames /\ 0 \in 0 .. 255 /\ FullDim \in 0 .. 255
    BY DEF OpNames, FullDim
  <2>2. a \in Ops /\ f \in Ops
    BY <2>1, OpType, UnitsAssumption
  <2>3. a.op = "addr" /\ a.house = h /\ a.unit = u
    BY DEF Op
  <2>4. /\ f.op \in {"on", "off"} /\ f.house = h
        /\ f.level = IF func = On THEN FullDim ELSE 0
    BY DEF Op
  <2> QED
    BY <2>2, <2>3, <2>4 DEF FullDim
<1>2. log \in Seq(Ops) /\ l \in Seq(Ops) /\ log' = Append(l, f)
  <2>1. log' = log \o <<a, f>>
    BY DEF RfHouseUnit, Record
  <2>2. log \in Seq(Ops)
    BY DEF TypeOK
  <2> HIDE DEF a, f
  <2>3. log \o <<a, f>> = Append(Append(log, a), f)
    BY <1>1, <2>2
  <2> QED
    BY <1>1, <2>1, <2>2, <2>3
<1>3. /\ HouseUnitSelected' = [HouseUnitSelected EXCEPT ![h] = selected]
      /\ X10protostate' = [X10protostate EXCEPT ![h] = 1]
      /\ HouseUnitState' = StateOf(h, selected, func)
      /\ HouseUnitDim' = DimOf(h, selected, func)
  BY DEF RfHouseUnit
<1>4. /\ HouseUnitSelected \in [Houses -> SUBSET Units]
      /\ X10protostate \in [Houses -> {0, 1}]
      /\ HouseUnitState \in [Houses -> [Units -> Status]]
      /\ HouseUnitDim \in [Houses -> [Units -> 0 .. 255]]
  BY DEF TypeOK
<1> HIDE DEF f, a
<1>5. ASSUME NEW g \in Houses
      PROVE  /\ HouseFollows(log', g, HouseUnitSelected'[g], X10protostate'[g])
             /\ \A v \in Units : UnitFollows(log', g, v, HouseUnitState'[g][v],
                                             HouseUnitDim'[g][v])
  <2> DEFINE sel == SelectedBy(a, g, HouseUnitSelected[g], X10protostate[g] = 1)
             proto == ProtoBy(a, g, X10protostate[g])
  <2>1. /\ HouseFollows(log, g, HouseUnitSelected[g], X10protostate[g])
        /\ \A v \in Units :
             UnitFollows(log, g, v, HouseUnitState[g][v], HouseUnitDim[g][v])
    BY DEF Follows
  <2>2. HouseUnitSelected[g] = SelectedAfter(log, g, Len(log))
    BY <2>1 DEF HouseFollows
  <2>3. HouseFollows(l, g, sel, proto)
    BY <1>1, <1>2, <2>1, HouseStep
  <2>4. sel = SelectedAfter(l, g, Len(l))
    BY <2>3 DEF HouseFollows
  <2>5. HouseFollows(log', g, SelectedBy(f, g, sel, proto = 1), ProtoBy(f, g, proto))
    BY <1>1, <1>2, <2>3, HouseStep
  <2>6. /\ HouseUnitSelected'[g] = SelectedBy(f, g, sel, proto = 1)
        /\ X10protostate'[g] = ProtoBy(f, g, proto)
        /\ sel = IF g = h THEN selected ELSE HouseUnitSelected[g]
    <3>1. CASE g = h
      BY <1>1, <1>3, <1>4, <3>1 DEF SelectedBy, ProtoBy
    <3>2. CASE g # h
      BY <1>1, <1>3, <1>4, <3>2 DEF SelectedBy, ProtoBy
    <3> QED
      BY <3>1, <3>2
  <2>7. ASSUME NEW v \in Units
        PROVE  UnitFollows(log', g, v, HouseUnitState'[g][v], HouseUnitDim'[g][v])
    <3>1. UnitFollows(l, g, v, StateBy(a, g, v, HouseUnitSelected[g], HouseUnitState[g][v]),
                      DimBy(a, g, v, HouseUnitSelected[g], HouseUnitDim[g][v]))
      BY <1>1, <1>2, <2>1, <2>2, UnitStep
    <3>2. UnitFollows(l, g, v, HouseUnitState[g][v], HouseUnitDim[g][v])
      BY <1>1, <3>1 DEF StateBy, DimBy, ActsOn
    <3>3. UnitFollows(log', g, v, StateBy(f, g, v, sel, HouseUnitState[g][v]),
                      DimBy(f, g, v, sel, HouseUnitDim[g][v]))
      BY <1>1, <1>2, <2>4, <3>2, UnitStep
    <3>4. ActsOn(f, g, v, sel) <=> g = h /\ v \in selected
      BY <1>1, <2>6 DEF ActsOn
    <3>5. /\ HouseUnitState'[g][v] = StateBy(f, g, v, sel, HouseUnitState[g][v])
          /\ HouseUnitDim'[g][v] = DimBy(f, g, v, sel, HouseUnitDim[g][v])
      <4> HIDE DEF sel, selected
      <4>1. CASE g = h /\ v \in selected
        BY <1>1, <1>3, <1>4, <3>4, <4>1 DEF StateBy, DimBy, StateOf, DimOf, On, Off
      <4>2. CASE ~(g = h /\ v \in selected)
        BY <1>3, <1>4, <3>4, <4>2 DEF StateBy, DimBy, StateOf, DimOf
      <4> QED
        BY <4>1, <4>2
    <3> QED
      BY <3>3, <3>5
  <2> QED
    BY <2>5, <2>6, <2>7
<1> QED
  BY <1>5 DEF Follows

\* Empty tables follow an empty log.
LEMMA FollowNothing ==
  ASSUME NEW h, NEW u
  PROVE  /\ HouseFollows(<<>>, h, {}, 0)
         /\ UnitFollows(<<>>, h, u, Unknown, 0)
<1>1. Positions(<<>>, h) = {}
  BY DEF Positions
<1>2. HouseFollows(<<>>, h, {}, 0)
  BY <1>1 DEF HouseFollows, SelectedAfter, Closed
<1>3. Settings(<<>>, h, u) = {}
  BY <1>1 DEF Settings
<1> QED
  BY <1>2, <1>3 DEF UnitFollows, StatusAfter, LevelAfter, HasLatest

LEMMA FollowsInit == Init => Follows
<1> SUFFICES ASSUME Init PROVE Follows
  OBVIOUS
<1>1. ASSUME NEW h \in Houses
      PROVE  /\ HouseFollows(log, h, HouseUnitSelected[h], X10protostate[h])
             /\ \A u \in Units :
                  UnitFollows(log, h, u, HouseUnitState[h][u], HouseUnitDim[h][u])
  BY FollowNothing DEF Init
<1> QED
  BY <1>1 DEF Follows

LEMMA FollowsStep == TypeOK /\ Follows /\ [Next]_vars => Follows'
<1> SUFFICES ASSUME TypeOK, Follows, [Next]_vars PROVE Follows'
  OBVIOUS
<1>1. ASSUME NEW h \in Houses, NEW u \in Units, PlHouseUnit(h, u) PROVE Follows'
  BY <1>1, AddressPerforms, FollowOne
<1>2. ASSUME UNCHANGED <<tables, log>> PROVE Follows'
  BY <1>2 DEF tables, Follows
<1>3. ASSUME NEW h \in Houses, NEW f \in Funcs, PlHouseFunc(h, f) PROVE Follows'
  <2>1. CASE f \in ActingFuncs
    BY <1>3, <2>1, HouseFuncPerforms, FollowOne
  <2>2. CASE f \notin ActingFuncs
    <3>1. UNCHANGED <<tables, log>>
      BY <1>3, <2>2 DEF PlHouseFunc, ActingFuncs
    <3> QED
      BY <1>2, <3>1
  <2> QED
    BY <2>1, <2>2
<1>4. ASSUME NEW h \in Houses, NEW u \in Units, NEW x \in Levels, PlExtended(h, u, x)
      PROVE  Follows'
  BY <1>4, FollowExtended
<1>5. ASSUME NEW h \in Houses, NEW u \in Units, NEW func \in {On, Off},
             RfHouseUnit(h, u, func)
      PROVE  Follows'
  BY <1>5, FollowRf
<1>6. CASE hua_sec_init
  <2>1. ASSUME NEW h \in Houses
        PROVE  /\ HouseFollows(log', h, HouseUnitSelected'[h], X10protostate'[h])
               /\ \A u \in Units : UnitFollows(log', h, u, HouseUnitState'[h][u],
                                               HouseUnitDim'[h][u])
    BY <1>6, FollowNothing DEF hua_sec_init
  <2> QED
    BY <2>1 DEF Follows
<1>7. CASE UNCHANGED vars
  BY <1>2, <1>7 DEF vars
<1> QED
  BY <1>1, <1>3, <1>4, <1>5, <1>6, <1>7 DEF Next

\* The table of the comment of hua_add (x10state.c): after any frames, each
\* unit has the state and the level of the last operation that acted on it,
\* and what is selected is what the addresses since the last function select.
THEOREM TablesFollow == Spec => []TablesFollowFrames
<1>1. Inv => TypeOK
  BY DEF Inv
<1>2. Follows => TablesFollowFrames
  BY DEF Follows, HouseFollows, UnitFollows, TablesFollowFrames
<1> QED
  BY <1>1, <1>2, FollowsInit, FollowsStep, InvariantHolds, PTL DEF Spec

-----------------------------------------------------------------------------
(***************************************************************************)
(* The gateway                                                             *)
(***************************************************************************)

Calls == [call : {"decode_plc"}, frame : PlFrames]
    \cup [call : {"decode_rf"}, frame : Cmds]
    \cup [call : {"write_pl"}, frame : PlFrames]
    \cup [call : {"write_rf"}, frame : RfCommands]
    \cup {WriteRaw}

PlOps == {AsOp(f) : f \in PlFrames}

CallsOK ==
  /\ todo \in Seq(Calls) /\ cbTodo \in Seq(Calls)
  /\ unread \in Seq(PlFrames)
  /\ unsent \in Seq(PlOps) /\ seen \in Seq(PlOps) /\ line \in Seq(PlOps)

-----------------------------------------------------------------------------

LEMMA FrameTypes ==
  ASSUME NEW h \in Houses, NEW u \in Units
  PROVE  /\ Addr(h, u) \in PlFrames /\ Dim(h) \in PlFrames
         /\ \A f \in Funcs : Func(h, f) \in PlFrames
         /\ \A x \in Levels : Ext(h, u, x) \in PlFrames
BY DEF PlFrames

LEMMA HouseFrameTypes ==
  ASSUME NEW h \in Houses
  PROVE  Dim(h) \in PlFrames /\ \A f \in Funcs : Func(h, f) \in PlFrames
BY DEF PlFrames

LEMMA FrameFields ==
  ASSUME NEW f \in PlFrames
  PROVE  /\ f.house \in Houses
         /\ f.kind \in {"addr", "func", "dim", "ext"}
         /\ f.kind = "addr" => f.unit \in Units
         /\ f.kind = "func" => f.arg \in Funcs
         /\ f.kind = "ext" => f.unit \in Units /\ f.arg \in Levels
<1>1. CASE \E h \in Houses, u \in Units : f = Addr(h, u)
  BY <1>1 DEF Addr, PlFrame
<1>2. CASE \E h \in Houses, x \in Funcs : f = Func(h, x)
  BY <1>2 DEF Func, PlFrame
<1>3. CASE \E h \in Houses : f = Dim(h)
  BY <1>3 DEF Dim, PlFrame
<1>4. CASE \E h \in Houses, u \in Units, x \in Levels : f = Ext(h, u, x)
  BY <1>4 DEF Ext, PlFrame
<1> QED
  BY <1>1, <1>2, <1>3, <1>4 DEF PlFrames

LEMMA CmdFields ==
  ASSUME NEW c \in Cmds
  PROVE  /\ c \in RfCommands
         /\ c.own \in BOOLEAN /\ c.kind \in {"on", "off", "dim", "other"}
         /\ c.house \in Houses /\ c.unit \in Units
BY RfAssumption DEF RfCommands

\* A frame that is sent gives two calls: it is decoded, then written.
LEMMA PlTxType ==
  ASSUME NEW f \in PlFrames
  PROVE  pl_tx(f) \in Seq(Calls)
<1>1. Decode_plc(f) \in Calls /\ WritePl(f) \in Calls
  BY DEF Decode_plc, WritePl, Calls
<1> QED
  BY <1>1 DEF pl_tx

LEMMA TwoFrames ==
  ASSUME NEW f \in PlFrames, NEW g \in PlFrames
  PROVE  pl_tx(f) \o pl_tx(g) \in Seq(Calls)
BY PlTxType, ConcatProperties

LEMMA RepeatersType ==
  ASSUME NEW c \in Cmds
  PROVE  repeatRF(c) \in Seq(Calls) /\ RfToPl(c) \in Seq(Calls)
<1>1. c \in RfCommands /\ c.house \in Houses /\ c.unit \in Units
      /\ c.kind \in {"on", "off", "dim", "other"}
  BY CmdFields
<1>2. [c EXCEPT !.own = TRUE] \in RfCommands
  BY <1>1 DEF RfCommands
<1>3. repeatRF(c) \in Seq(Calls)
  <2>1. WriteRf([c EXCEPT !.own = TRUE]) \in Calls
    BY <1>2 DEF WriteRf, Calls
  <2> QED
    BY <2>1 DEF repeatRF
<1>4. RfToPl(c) \in Seq(Calls)
  <2>1. /\ Addr(c.house, c.unit) \in PlFrames /\ Dim(c.house) \in PlFrames
        /\ Func(c.house, 2) \in PlFrames /\ Func(c.house, 3) \in PlFrames
    BY <1>1, FrameTypes, OnOffAssumption
  <2>2. /\ pl_tx(Addr(c.house, c.unit)) \o pl_tx(Func(c.house, 2)) \in Seq(Calls)
        /\ pl_tx(Addr(c.house, c.unit)) \o pl_tx(Func(c.house, 3)) \in Seq(Calls)
        /\ pl_tx(Dim(c.house)) \in Seq(Calls)
    BY <2>1, TwoFrames, PlTxType
  <2> QED
    BY <1>1, <2>2 DEF RfToPl
<1> QED
  BY <1>3, <1>4

-----------------------------------------------------------------------------
(***************************************************************************)
(* One call                                                                *)
(***************************************************************************)

TablesStep == Next \/ UNCHANGED vars
FilterStep == Filter!Next \/ UNCHANGED filterVars

LEMMA DecodePlc ==
  ASSUME NEW f \in PlFrames, NEW rest, cm15a_decode_plc(f, rest), CallsOK
  PROVE  TablesStep /\ FilterStep /\ seen' \in Seq(PlOps) /\ UNCHANGED lineVars
<1>1. FilterStep /\ UNCHANGED lineVars
  BY DEF cm15a_decode_plc, FilterStep
<1>2. seen' \in Seq(PlOps)
  <2>1. AsOp(f) \in PlOps /\ seen \in Seq(PlOps) /\ seen' = Append(seen, AsOp(f))
    BY DEF PlOps, CallsOK, cm15a_decode_plc
  <2> HIDE DEF PlOps
  <2> QED
    BY <2>1, AppendProperties
<1>3. TablesStep
  <2>1. CASE f.kind = "addr" /\ PlHouseUnit(f.house, f.unit)
    BY <2>1, FrameFields DEF TablesStep, Next
  <2>2. CASE f.kind = "func" /\ PlHouseFunc(f.house, f.arg)
    BY <2>2, FrameFields DEF TablesStep, Next
  <2>3. CASE f.kind = "dim" /\ UNCHANGED vars
    BY <2>3 DEF TablesStep
  <2>4. CASE f.kind = "ext" /\ PlExtended(f.house, f.unit, f.arg)
    BY <2>4, FrameFields DEF TablesStep, Next
  <2> QED
    BY <2>1, <2>2, <2>3, <2>4 DEF cm15a_decode_plc
<1> QED
  BY <1>1, <1>2, <1>3

LEMMA DecodeRf ==
  ASSUME NEW c \in Cmds, NEW rest \in Seq(Calls), NEW restNext,
         cm15a_decode_rf(c, rest, restNext)
  PROVE  TablesStep /\ FilterStep /\ restNext \in Seq(Calls)
<1>1. FilterStep
  BY DEF cm15a_decode_rf, FilterStep, Filter!Next
<1>2. CASE verdict'.dropped /\ restNext = rest /\ UNCHANGED <<vars, apart>>
  BY <1>1, <1>2 DEF TablesStep
<1>3. CASE /\ ~verdict'.dropped
           /\ restNext = repeatRF(c) \o RfToPl(c) \o rest
           /\ \/ c.kind = "on"  /\ RfHouseUnit(c.house, c.unit, On)
              \/ c.kind = "off" /\ RfHouseUnit(c.house, c.unit, Off)
              \/ c.kind \in {"dim", "other"} /\ UNCHANGED vars
  <2>1. restNext \in Seq(Calls)
    BY <1>3, RepeatersType, ConcatProperties
  <2>2. TablesStep
    BY <1>3, CmdFields DEF TablesStep, Next
  <2> QED
    BY <1>1, <2>1, <2>2
<1> QED
  BY <1>2, <1>3 DEF cm15a_decode_rf

LEMMA X10Write ==
  ASSUME NEW c \in Calls, c.call \in Writes, NEW gaveUp, x10_write(c, gaveUp), CallsOK
  PROVE  /\ TablesStep /\ FilterStep /\ unsent' \in Seq(PlOps)
         /\ UNCHANGED <<seen, unread, line>>
<1>1. TablesStep /\ FilterStep /\ UNCHANGED <<seen, unread, line>>
  BY DEF x10_write, TablesStep, FilterStep
<1>2. unsent \in Seq(PlOps)
  BY DEF CallsOK
<1>3. CASE c.call = "write_pl" /\ unsent' = Append(unsent, AsOp(c.frame))
  <2>1. c.frame \in PlFrames
    BY <1>3 DEF Calls, WriteRaw
  <2>2. AsOp(c.frame) \in PlOps
    BY <2>1 DEF PlOps
  <2> HIDE DEF PlOps
  <2> QED
    BY <1>1, <1>2, <1>3, <2>2, AppendProperties
<1>4. CASE unsent' = unsent
  BY <1>1, <1>2, <1>4
<1> QED
  BY <1>3, <1>4 DEF x10_write

LEMMA PerformStep ==
  ASSUME NEW calls \in Seq(Calls), NEW callsNext, NEW gaveUp,
         Perform(calls, callsNext, gaveUp), CallsOK
  PROVE  /\ TablesStep /\ FilterStep /\ callsNext \in Seq(Calls)
         /\ seen' \in Seq(PlOps) /\ unsent' \in Seq(PlOps) /\ UNCHANGED <<unread, line>>
<1> DEFINE c == Head(calls)
<1>1. c \in Calls /\ Tail(calls) \in Seq(Calls)
  BY HeadTailProperties DEF Perform
<1>0. seen \in Seq(PlOps) /\ unsent \in Seq(PlOps)
  BY DEF CallsOK
<1> HIDE DEF PlOps
<1>2. CASE c.call = "decode_plc" /\ cm15a_decode_plc(c.frame, Tail(calls)) /\ callsNext = Tail(calls)
  <2>1. c.frame \in PlFrames
    BY <1>1, <1>2 DEF Calls, WriteRaw
  <2> QED
    BY <1>0, <1>1, <1>2, <2>1, DecodePlc DEF lineVars
<1>3. CASE c.call = "decode_rf" /\ cm15a_decode_rf(c.frame, Tail(calls), callsNext)
  <2>1. c.frame \in Cmds
    BY <1>1, <1>3 DEF Calls, WriteRaw
  <2>2. UNCHANGED <<seen, lineVars>>
    BY <1>3 DEF cm15a_decode_rf
  <2> QED
    BY <1>0, <1>1, <1>3, <2>1, <2>2, DecodeRf DEF lineVars
<1>4. CASE c.call \in Writes /\ x10_write(c, gaveUp) /\ callsNext = Tail(calls)
  BY <1>0, <1>1, <1>4, X10Write
<1> QED
  BY <1>2, <1>3, <1>4 DEF Perform

-----------------------------------------------------------------------------
(***************************************************************************)
(* One step                                                                *)
(***************************************************************************)

\* PL asks for one frame or two.
LEMMA PlAsks ==
  ASSUME Pl
  PROVE  \/ \E f \in PlFrames : todo' = pl_tx(f)
         \/ \E a, f \in PlFrames : todo' = pl_tx(a) \o pl_tx(f)
BY FramesAssumption, Zenon DEF Pl

\* What a command of the main loop leaves to do.
LEMMA CommandTypes ==
  ASSUME CallsOK
  PROVE  /\ Pl => todo' \in Seq(Calls)
         /\ Rf => todo' \in Seq(Calls)
         /\ Pt => todo' \in Seq(Calls)
<1>1. ASSUME Pl PROVE todo' \in Seq(Calls)
  <2>1. \/ \E f \in PlFrames : todo' = pl_tx(f)
        \/ \E a, f \in PlFrames : todo' = pl_tx(a) \o pl_tx(f)
    BY <1>1, PlAsks
  <2> QED
    BY <2>1, PlTxType, TwoFrames
<1>2. ASSUME Rf PROVE todo' \in Seq(Calls)
  <2>1. PICK c \in Cmds : todo' = <<Decode_rf(c), WriteRf(c)>>
    BY <1>2 DEF Rf
  <2>2. Decode_rf(c) \in Calls /\ WriteRf(c) \in Calls
    BY CmdFields DEF Decode_rf, WriteRf, Calls
  <2> QED
    BY <2>1, <2>2
<1>3. ASSUME Pt PROVE todo' \in Seq(Calls)
  <2>1. WriteRaw \in Calls /\ todo' = <<WriteRaw>>
    BY <1>3 DEF Pt, Calls
  <2> QED
    BY <2>1
<1> QED
  BY <1>1, <1>2, <1>3

LEMMA PacketTypes ==
  ASSUME CallsOK
  PROVE  /\ PlPacket => cbTodo' \in Seq(Calls)
         /\ RfPacket => cbTodo' \in Seq(Calls)
<1>1. ASSUME PlPacket PROVE cbTodo' \in Seq(Calls)
  <2>1. cbTodo' = <<Decode_plc(Head(unread))>> /\ Head(unread) \in PlFrames
    BY <1>1, HeadTailProperties DEF PlPacket, CallsOK
  <2>2. Decode_plc(Head(unread)) \in Calls
    BY <2>1 DEF Decode_plc, Calls
  <2> QED
    BY <2>1, <2>2
<1>2. ASSUME RfPacket PROVE cbTodo' \in Seq(Calls)
  <2>1. PICK c \in Cmds : cbTodo' = <<Decode_rf(c)>>
    BY <1>2 DEF RfPacket
  <2>2. Decode_rf(c) \in Calls
    BY DEF Decode_rf, Calls
  <2> QED
    BY <2>1, <2>2
<1> QED
  BY <1>1, <1>2

\* What happens to the queue, to the line and to what is still to be read.
LEMMA LineTypes ==
  ASSUME CallsOK, Take \/ GiveUp \/ Hear \/ PlPacket
  PROVE  unread' \in Seq(PlFrames) /\ unsent' \in Seq(PlOps) /\ line' \in Seq(PlOps)
<1>1. unread \in Seq(PlFrames) /\ unsent \in Seq(PlOps) /\ line \in Seq(PlOps)
  BY DEF CallsOK
<1>2. \A f \in Heard : f \in PlFrames /\ AsOp(f) \in PlOps
  BY FramesAssumption DEF PlOps
<1> HIDE DEF PlOps
<1>3. CASE Take
  BY <1>1, <1>3, HeadTailProperties, AppendProperties DEF Take
<1>4. CASE GiveUp
  BY <1>1, <1>4, HeadTailProperties DEF GiveUp
<1>5. CASE Hear
  <2>1. PICK f \in Heard : line' = Append(line, AsOp(f)) /\ unread' = Append(unread, f)
    BY <1>5 DEF Hear
  <2> QED
    BY <1>1, <1>2, <1>5, <2>1, AppendProperties DEF Hear
<1>6. CASE PlPacket
  BY <1>1, <1>6, HeadTailProperties DEF PlPacket
<1> QED
  BY <1>3, <1>4, <1>5, <1>6

LEMMA GatewayStep ==
  ASSUME CallsOK, [GatewayNext]_gatewayVars
  PROVE  TablesStep /\ FilterStep /\ CallsOK'
<1>0. /\ todo \in Seq(Calls) /\ cbTodo \in Seq(Calls) /\ unread \in Seq(PlFrames)
      /\ unsent \in Seq(PlOps) /\ seen \in Seq(PlOps) /\ line \in Seq(PlOps)
  BY DEF CallsOK
<1> HIDE DEF PlOps
<1>1. CASE MainCall
  BY <1>0, <1>1, PerformStep DEF MainCall, CallsOK
<1>2. CASE CbCall
  BY <1>0, <1>2, PerformStep DEF CbCall, CallsOK
<1>3. CASE Pl \/ Rf \/ Pt
  <2>1. UNCHANGED <<vars, filterVars, cbTodo, seen, lineVars>>
    BY <1>3 DEF Pl, Rf, Pt, unprocessed
  <2>2. todo' \in Seq(Calls)
    BY <1>3, CommandTypes
  <2> QED
    BY <1>0, <2>1, <2>2 DEF TablesStep, FilterStep, lineVars, CallsOK
<1>4. CASE RfToPlCommand \/ RfToRfCommand
  <2>1. UNCHANGED <<vars, filterVars, todo, cbTodo, seen, lineVars>>
    BY <1>4 DEF RfToPlCommand, RfToRfCommand, unprocessed
  <2> QED
    BY <1>0, <2>1 DEF TablesStep, FilterStep, lineVars, CallsOK
<1>5. CASE St0
  BY <1>0, <1>5 DEF St0, TablesStep, FilterStep, Next, lineVars, CallsOK
<1>6. CASE Take \/ GiveUp \/ Hear \/ PlPacket
  <2>1. UNCHANGED <<vars, filterVars, todo, seen>>
    BY <1>6 DEF Take, GiveUp, Hear, PlPacket, unheard
  <2>2. cbTodo' \in Seq(Calls)
    BY <1>0, <1>6, PacketTypes DEF Take, GiveUp, Hear
  <2> QED
    BY <1>0, <1>6, <2>1, <2>2, LineTypes DEF TablesStep, FilterStep, CallsOK
<1>7. CASE RfPacket
  <2>1. UNCHANGED <<vars, filterVars, todo, seen, lineVars>>
    BY <1>7 DEF RfPacket, unheard
  <2> QED
    BY <1>0, <1>7, <2>1, PacketTypes DEF TablesStep, FilterStep, lineVars, CallsOK
<1>8. CASE Wait
  BY <1>0, <1>8 DEF Wait, TablesStep, FilterStep, Filter!Next, lineVars, CallsOK
<1>9. CASE UNCHANGED gatewayVars
  BY <1>0, <1>9 DEF gatewayVars, TablesStep, FilterStep, lineVars, CallsOK
<1> QED
  BY <1>1, <1>2, <1>3, <1>4, <1>5, <1>6, <1>7, <1>8, <1>9 DEF GatewayNext

-----------------------------------------------------------------------------
(***************************************************************************)
(* Theorems                                                                *)
(***************************************************************************)

LEMMA CallsAreTyped == GatewaySpec => []CallsOK
<1>1. GatewayInit => CallsOK
  BY DEF GatewayInit, CallsOK
<1>2. CallsOK /\ [GatewayNext]_gatewayVars => CallsOK'
  BY GatewayStep
<1> QED
  BY <1>1, <1>2, PTL DEF GatewaySpec

\* What X10State promises of the tables holds in the gateway.
LEMMA UsesTables == GatewaySpec => Spec
<1>1. GatewayInit => Init
  BY DEF GatewayInit
<1>2. CallsOK /\ [GatewayNext]_gatewayVars => [Next]_vars
  BY GatewayStep DEF TablesStep
<1> QED
  BY <1>1, <1>2, CallsAreTyped, PTL DEF GatewaySpec, Spec

\* They consult dup_filter (decode.c) only with RF commands, and nothing else
\* touches its table.
THEOREM UsesFilter == GatewaySpec => ImplementsFilter
<1>1. GatewayInit => Filter!Init
  BY DEF GatewayInit
<1>2. CallsOK /\ [GatewayNext]_gatewayVars => [Filter!Next]_(Filter!vars)
  BY GatewayStep DEF FilterStep, filterVars, Filter!vars
<1> QED
  BY <1>1, <1>2, CallsAreTyped, PTL DEF GatewaySpec, ImplementsFilter, Filter!Spec

\* In the daemon as a whole, getstatus and getstatus xdim (x10state.c) never
\* contradict each other, whatever the repeaters and nested packets do.
THEOREM GatewayStatus == GatewaySpec => []StateDimAgree
BY UsesTables, StatusAgreesWithLevel, PTL

\* And they hold what the operations make of them (the comment of hua_add).
THEOREM GatewayTables == GatewaySpec => []TablesFollowFrames
BY UsesTables, TablesFollow, PTL

-----------------------------------------------------------------------------
(***************************************************************************)
(* The filter in the gateway.  What DupFilterProofs proves of the filter   *)
(* holds of it here too: Filter, the instance that Gateway uses, and       *)
(* FilterFacts, the instance that comes with the proofs, are the same      *)
(* definition by definition.                                               *)
(***************************************************************************)

FilterFacts == INSTANCE DupFilterProofs

\* The two searches for a victim are one function.
LEMMA SameSearch == Filter!SearchTo = FilterFacts!SearchTo
BY DEF Filter!SearchTo, FilterFacts!SearchTo, Filter!Index, FilterFacts!Index, Filter!ToInt, FilterFacts!ToInt, Filter!BelowInt, FilterFacts!BelowInt

\* The operators on the table are the same.
LEMMA SameTable ==
  /\ Filter!Index = FilterFacts!Index
  /\ \A e : /\ Filter!Used(e) = FilterFacts!Used(e) /\ Filter!Expired(e) = FilterFacts!Expired(e)
  /\ \A i : Filter!SweptBefore(i) = FilterFacts!SweptBefore(i)
  /\ \A c : Filter!Holding(c) = FilterFacts!Holding(c)
<1>1. Filter!Index = FilterFacts!Index
  BY DEF Filter!Index, FilterFacts!Index
<1>2. \A e : Filter!Used(e) = FilterFacts!Used(e) /\ Filter!Expired(e) = FilterFacts!Expired(e)
  BY DEF Filter!Used, FilterFacts!Used, Filter!Expired, FilterFacts!Expired
<1>3. \A i : Filter!SweptBefore(i) = FilterFacts!SweptBefore(i)
  BY <1>1, <1>2 DEF Filter!SweptBefore, FilterFacts!SweptBefore
<1>4. \A c : Filter!Holding(c) = FilterFacts!Holding(c)
  BY <1>1 DEF Filter!Holding, FilterFacts!Holding
<1> QED
  BY <1>1, <1>2, <1>3, <1>4

\* A call of dup_filter is the same step, whether it drops, reuses or adds.
LEMMA SameStep ==
  ASSUME NEW c, Filter!dup_filter(c) PROVE FilterFacts!dup_filter(c)
<1>1. CASE Filter!Drop(c)
  BY <1>1, SameTable DEF Filter!dup_filter, FilterFacts!dup_filter, Filter!Drop, FilterFacts!Drop
<1>2. CASE Filter!Reuse(c)
  BY <1>2, SameTable DEF Filter!dup_filter, FilterFacts!dup_filter, Filter!Reuse, FilterFacts!Reuse,
       Filter!Passes, FilterFacts!Passes, Filter!Entry, FilterFacts!Entry
<1>3. CASE Filter!Add(c)
  <2> DEFINE swept  == FilterFacts!SweptBefore(DUP_MAX)
             unused == {i \in FilterFacts!Index : ~FilterFacts!Used(swept[i])}
             Chosen(S) == IF S = {} THEN FilterFacts!Victim
                          ELSE CHOOSE i \in S : \A j \in S : i <= j
             fswept  == Filter!SweptBefore(DUP_MAX)
             funused == {i \in Filter!Index : ~Filter!Used(fswept[i])}
             FChosen(S) == IF S = {} THEN Filter!Victim
                           ELSE CHOOSE i \in S : \A j \in S : i <= j
  <2>1. \A S : FChosen(S) = Chosen(S)
    <3>1. Filter!Victim = FilterFacts!Victim
      BY SameSearch DEF Filter!Victim, FilterFacts!Victim
    <3> QED BY <3>1
  <2>2. fswept = swept
    BY SameTable
  <2>3. funused = unused
    BY <2>2, SameTable
  <2>4. Filter!Entry(c) = FilterFacts!Entry(c)
    BY DEF Filter!Entry, FilterFacts!Entry
  <2>5. /\ Filter!Holding(c) = {}
        /\ dups' = [fswept EXCEPT ![FChosen(funused)] = Filter!Entry(c)]
        /\ Filter!Passes(c)
    BY <1>3 DEF Filter!Add
  <2>6. FChosen(funused) = Chosen(unused)
    <3> HIDE DEF funused, unused, FChosen, Chosen
    <3> QED BY <2>1, <2>3
  <2>7. dups' = [swept EXCEPT ![Chosen(unused)] = FilterFacts!Entry(c)]
    <3> HIDE DEF funused, unused, FChosen, Chosen, fswept, swept
    <3> QED BY <2>2, <2>4, <2>5, <2>6
  <2>8. FilterFacts!Holding(c) = {} /\ FilterFacts!Passes(c)
    BY <2>5, SameTable DEF Filter!Passes, FilterFacts!Passes
  <2>9. FilterFacts!Add(c)
    BY <2>7, <2>8 DEF FilterFacts!Add
  <2> QED
    BY <2>9, <1>3 DEF Filter!dup_filter, FilterFacts!dup_filter
<1> QED
  BY <1>1, <1>2, <1>3 DEF Filter!dup_filter

\* So are the steps of the whole filter.
LEMMA SameNext == [Filter!Next]_Filter!vars => [FilterFacts!Next]_FilterFacts!vars
BY SameStep DEF Filter!Next, FilterFacts!Next, Filter!Tick, FilterFacts!Tick, Filter!vars, FilterFacts!vars

\* They are one specification.
LEMMA SameFilter == GatewaySpec => FilterFacts!Spec
<1>1. Filter!Init => FilterFacts!Init
  BY DEF Filter!Init, FilterFacts!Init, Filter!Index, FilterFacts!Index, Filter!Never, FilterFacts!Never
<1> QED
  BY <1>1, SameNext, UsesFilter, PTL DEF ImplementsFilter, Filter!Spec, FilterFacts!Spec

\* In the daemon as a whole no RF command has two entries of the filter, whoever
\* calls it and in the middle of what (decode.c, dup_filter).
THEOREM GatewayFilterEntries == GatewaySpec => []Filter!OneEntryEach
<1>1. FilterFacts!Spec => []FilterFacts!OneEntryEach
  BY FilterFacts!NoSecondEntry, TableAssumption, CmdsAssumption, IntAssumption, ClockAssumption
<1>2. FilterFacts!OneEntryEach => Filter!OneEntryEach
  BY SameTable DEF FilterFacts!OneEntryEach, Filter!OneEntryEach
<1> QED
  BY <1>1, <1>2, SameFilter, PTL

\* A repeated or transmitted RF command is dropped, too, only as a copy of one
\* let through in the DUP_TIME milliseconds before (decode.c, dup_filter).
THEOREM GatewayFilterDrops == GatewaySpec => []Filter!DroppedOnlyAsCopy
<1>1. FilterFacts!Spec => []FilterFacts!DroppedOnlyAsCopy
  BY FilterFacts!DropsOnlyCopies, TableAssumption, CmdsAssumption, IntAssumption, ClockAssumption
<1>2. FilterFacts!DroppedOnlyAsCopy => Filter!DroppedOnlyAsCopy
  BY DEF FilterFacts!DroppedOnlyAsCopy, Filter!DroppedOnlyAsCopy, FilterFacts!Never, Filter!Never
<1> QED
  BY <1>1, <1>2, SameFilter, PTL

\* And what the repeaters transmit cannot make the filter forget a button within
\* its window but by filling its table (decode.c, dup_filter).
THEOREM GatewayFilterCopies == GatewaySpec => Filter!CopiesFiltered
<1>1. FilterFacts!Spec => FilterFacts!CopiesFiltered
  BY FilterFacts!FiltersCopies, TableAssumption, CmdsAssumption, IntAssumption, ClockAssumption
<1>2. \A c : FilterFacts!PassedAround(c) = Filter!PassedAround(c)
  BY DEF FilterFacts!PassedAround, Filter!PassedAround, FilterFacts!Never, Filter!Never
<1>3. \A S : FilterFacts!Cardinality(S) = Filter!Cardinality(S)
  BY DEF FilterFacts!Cardinality, Filter!Cardinality
<1>4. [\A c \in Cmds :
         lastPass'[c] # lastPass[c] /\ lastPass[c] # FilterFacts!Never
           => \/ now > lastPass[c] + DUP_TIME
              \/ FilterFacts!Cardinality(FilterFacts!PassedAround(c)) >= DUP_MAX]_(FilterFacts!vars)
      => [\A c \in Cmds :
            lastPass'[c] # lastPass[c] /\ lastPass[c] # Filter!Never
              => \/ now > lastPass[c] + DUP_TIME
                 \/ Filter!Cardinality(Filter!PassedAround(c)) >= DUP_MAX]_(Filter!vars)
  BY <1>2, <1>3 DEF FilterFacts!Never, Filter!Never, FilterFacts!vars, Filter!vars
<1> QED
  BY <1>1, <1>4, SameFilter, PTL DEF FilterFacts!CopiesFiltered, Filter!CopiesFiltered

-----------------------------------------------------------------------------
(***************************************************************************)
(* What the tables saw and what was on the line.  A frame to be sent is    *)
(* decoded in one call and written in the next; a packet that is decoded   *)
(* in the middle of a command never comes between those two calls, because *)
(* it comes after a write.  So the frames that the tables have seen and    *)
(* the line has not are those that wait to be sent, and one that is about  *)
(* to join them; those that were on the line and are not yet seen wait to  *)
(* be read, or are just being decoded.  As long as no frame is lost, and   *)
(* none is heard or decoded while there are frames of the other kind, only *)
(* one of the two sequences has frames in it.                              *)
(***************************************************************************)

\* The call after the decoding of a frame writes that frame.  The first call
\* may be a write whose decoding is done.
Paired(s) ==
  /\ \A i \in 1 .. Len(s) :
       s[i].call = "decode_plc" =>
         i + 1 \in 1 .. Len(s) /\ s[i + 1] = WritePl(s[i].frame)
  /\ \A i \in 2 .. Len(s) :
       s[i].call = "write_pl" => s[i - 1] = Decode_plc(s[i].frame)
Pending(s) == s # <<>> /\ Head(s).call = "write_pl"
Whole(s) == Paired(s) /\ ~Pending(s)

\* Frames as operations.
OpsOf(s) == [i \in 1 .. Len(s) |-> AsOp(s[i])]

\* A PL frame of another controller, which is on the line already.
HeardOne == Len(cbTodo) = 1 /\ Head(cbTodo).call = "decode_plc"

\* The calls that are made next.
Left == IF cbTodo = <<>> THEN todo ELSE cbTodo

\* The frame of the next call, if that is a write whose decoding is done.
Soon(s) == IF Pending(s) THEN <<AsOp(Head(s).frame)>> ELSE <<>>

\* The daemon's frames that the line has not had, and the frames of others that
\* the tables have not had.
Own     == unsent \o Soon(Left)
Unheard == (IF HeardOne THEN <<AsOp(Head(cbTodo).frame)>> ELSE <<>>) \o OpsOf(unread)

Shape ==
  /\ Paired(todo) /\ (HeardOne \/ Paired(cbTodo))
  /\ drain => todo # <<>>
  /\ drain \/ cbTodo # <<>> => ~Pending(todo)

Untroubled == apart \cap {"lost", "overtaken"} = {}

LineInv ==
  /\ Shape
  /\ Untroubled => /\ seen \o Unheard = line \o Own
                   /\ Own = <<>> \/ Unheard = <<>>

LEMMA NoCalls == Paired(<<>>) /\ ~Pending(<<>>)
BY DEF Paired, Pending

LEMMA PairedIsNotHeard ==
  ASSUME NEW s \in Seq(Calls), Paired(s)
  PROVE  ~(Len(s) = 1 /\ Head(s).call = "decode_plc")
<1> SUFFICES ASSUME Len(s) = 1, Head(s).call = "decode_plc" PROVE FALSE
  OBVIOUS
<1>1. 1 \in 1 .. Len(s) /\ Head(s) = s[1] /\ ~(1 + 1 \in 1 .. Len(s))
  OBVIOUS
<1> QED
  BY <1>1 DEF Paired

LEMMA PairedTail ==
  ASSUME NEW s \in Seq(Calls), s # <<>>, Paired(s)
  PROVE  /\ Paired(Tail(s))
         /\ Head(s).call = "decode_plc" =>
              Tail(s) # <<>> /\ Head(Tail(s)) = WritePl(Head(s).frame)
         /\ Head(s).call # "decode_plc" => ~Pending(Tail(s))
<1> DEFINE t == Tail(s)
<1>1. /\ Head(s) = s[1] /\ t \in Seq(Calls)
      /\ Len(s) \in Nat \ {0} /\ Len(t) = Len(s) - 1
      /\ \A i \in 1 .. Len(t) : t[i] = s[i + 1]
  OBVIOUS
<1>2. t # <<>> => Head(t) = t[1] /\ 1 \in 1 .. Len(t)
  BY <1>1
<1> HIDE DEF t
<1>3. ASSUME NEW i \in 1 .. Len(t), t[i].call = "decode_plc"
      PROVE  i + 1 \in 1 .. Len(t) /\ t[i + 1] = WritePl(t[i].frame)
  <2>1. i + 1 \in 1 .. Len(s) /\ t[i] = s[i + 1]
    BY <1>1
  <2>2. i + 1 + 1 \in 1 .. Len(s) /\ s[i + 1 + 1] = WritePl(s[i + 1].frame)
    BY <1>3, <2>1 DEF Paired
  <2>3. i + 1 \in 1 .. Len(t)
    BY <1>1, <2>2
  <2> QED
    BY <1>1, <2>1, <2>2, <2>3
<1>4. ASSUME NEW i \in 2 .. Len(t), t[i].call = "write_pl"
      PROVE  t[i - 1] = Decode_plc(t[i].frame)
  <2>1. i \in 1 .. Len(t) /\ i - 1 \in 1 .. Len(t) /\ i + 1 \in 2 .. Len(s)
    BY <1>1
  <2>2. t[i] = s[i + 1] /\ t[i - 1] = s[i + 1 - 1]
    BY <1>1, <2>1
  <2> QED
    BY <1>4, <2>1, <2>2 DEF Paired
<1>5. ASSUME Head(s).call = "decode_plc"
      PROVE  t # <<>> /\ Head(t) = WritePl(Head(s).frame)
  <2>1. 1 + 1 \in 1 .. Len(s) /\ s[1 + 1] = WritePl(s[1].frame)
    BY <1>1, <1>5 DEF Paired
  <2>2. Len(t) # 0
    BY <1>1, <2>1
  <2>3. t # <<>>
    BY <2>2
  <2> QED
    BY <1>1, <1>2, <2>1, <2>3
<1>6. ASSUME Pending(t) PROVE Head(s).call = "decode_plc"
  <2>1. 1 \in 1 .. Len(t) /\ t[1] = s[2] /\ s[2].call = "write_pl" /\ 2 \in 2 .. Len(s)
    BY <1>1, <1>2, <1>6 DEF Pending
  <2>2. s[2 - 1] = Decode_plc(s[2].frame)
    BY <2>1 DEF Paired
  <2> QED
    BY <1>1, <2>2 DEF Decode_plc
<1> QED
  BY <1>3, <1>4, <1>5, <1>6 DEF Paired, t

LEMMA WholeConcat ==
  ASSUME NEW s \in Seq(Calls), NEW t \in Seq(Calls), Whole(s), Whole(t)
  PROVE  Whole(s \o t)
<1> DEFINE r == s \o t
<1>1. /\ r \in Seq(Calls) /\ Len(r) = Len(s) + Len(t)
      /\ Len(s) \in Nat /\ Len(t) \in Nat
      /\ \A i \in 1 .. Len(s) : r[i] = s[i]
      /\ \A i \in 1 .. Len(t) : r[Len(s) + i] = t[i]
  BY ConcatProperties
<1>2. \A i \in 1 .. Len(r) : i \in 1 .. Len(s) \/ i - Len(s) \in 1 .. Len(t)
  BY <1>1
<1>3. /\ s # <<>> => Head(s) = s[1] /\ 1 \in 1 .. Len(s)
      /\ t # <<>> => Head(t) = t[1] /\ 1 \in 1 .. Len(t)
      /\ r # <<>> => Head(r) = r[1] /\ 1 \in 1 .. Len(r)
  BY <1>1
<1> HIDE DEF r
<1>4. ASSUME NEW i \in 1 .. Len(r), r[i].call = "decode_plc"
      PROVE  i + 1 \in 1 .. Len(r) /\ r[i + 1] = WritePl(r[i].frame)
  <2>1. CASE i \in 1 .. Len(s)
    <3>1. i + 1 \in 1 .. Len(s) /\ s[i + 1] = WritePl(s[i].frame)
      BY <1>1, <1>4, <2>1 DEF Whole, Paired
    <3> QED
      BY <1>1, <2>1, <3>1
  <2>2. CASE i - Len(s) \in 1 .. Len(t)
    <3> DEFINE j == i - Len(s)
    <3>1. j \in 1 .. Len(t) /\ r[i] = t[j]
      BY <1>1, <2>2
    <3>2. j + 1 \in 1 .. Len(t) /\ t[j + 1] = WritePl(t[j].frame)
      BY <1>4, <3>1 DEF Whole, Paired
    <3>3. i + 1 \in 1 .. Len(r) /\ r[i + 1] = t[j + 1]
      <4>1. r[Len(s) + (j + 1)] = t[j + 1] /\ Len(s) + (j + 1) = i + 1
        BY <1>1, <3>2
      <4> QED
        BY <1>1, <3>2, <4>1
    <3> QED
      BY <3>1, <3>2, <3>3
  <2> QED
    BY <1>2, <2>1, <2>2
<1>5. ASSUME NEW i \in 2 .. Len(r), r[i].call = "write_pl"
      PROVE  r[i - 1] = Decode_plc(r[i].frame)
  <2>1. CASE i \in 1 .. Len(s)
    <3>1. i \in 2 .. Len(s) /\ i - 1 \in 1 .. Len(s) /\ r[i] = s[i]
      BY <1>1, <2>1
    <3>2. s[i - 1] = Decode_plc(s[i].frame)
      BY <1>5, <3>1 DEF Whole, Paired
    <3> QED
      BY <1>1, <3>1, <3>2
  <2>2. CASE i - Len(s) \in 1 .. Len(t)
    <3> DEFINE j == i - Len(s)
    <3>1. j \in 1 .. Len(t) /\ r[i] = t[j]
      BY <1>1, <2>2
    <3>2. j # 1
      BY <1>3, <1>5, <3>1 DEF Whole, Pending
    <3>3. j \in 2 .. Len(t) /\ j - 1 \in 1 .. Len(t)
      <4>1. \A k \in 1 .. Len(t) : k # 1 => k \in 2 .. Len(t) /\ k - 1 \in 1 .. Len(t)
        BY <1>1
      <4> QED
        BY <3>1, <3>2, <4>1
    <3>4. t[j - 1] = Decode_plc(t[j].frame)
      BY <1>5, <3>1, <3>3 DEF Whole, Paired
    <3>5. r[i - 1] = t[j - 1]
      <4>1. r[Len(s) + (j - 1)] = t[j - 1] /\ Len(s) + (j - 1) = i - 1
        BY <1>1, <3>3
      <4> QED
        BY <4>1
    <3> QED
      BY <3>1, <3>4, <3>5
  <2> QED
    BY <1>1, <1>2, <2>1, <2>2
<1>6. ~Pending(r)
  <2>1. CASE s = <<>>
    <3>1. r = t
      BY <2>1 DEF r
    <3> QED
      BY <3>1 DEF Whole
  <2>2. CASE s # <<>>
    BY <1>1, <1>3, <2>2 DEF Whole, Pending
  <2> QED
    BY <2>1, <2>2
<1> QED
  BY <1>4, <1>5, <1>6 DEF Whole, Paired, r

LEMMA WholeTx ==
  ASSUME NEW f \in PlFrames
  PROVE  Whole(pl_tx(f))
<1> DEFINE s == pl_tx(f)
<1>1. /\ Len(s) = 2 /\ s[1] = Decode_plc(f) /\ s[2] = WritePl(f) /\ Head(s) = s[1]
      /\ s # <<>>
  BY DEF pl_tx
<1>2. /\ s[1].call = "decode_plc" /\ s[1].frame = f
      /\ s[2].call = "write_pl" /\ s[2].frame = f
  BY <1>1 DEF Decode_plc, WritePl
<1> HIDE DEF s
<1> QED
  BY <1>1, <1>2 DEF Whole, Paired, Pending, s

\* Calls that decode and write no PL frame.
LEMMA WholeOther ==
  ASSUME NEW s \in Seq(Calls),
         \A i \in 1 .. Len(s) : s[i].call \notin {"decode_plc", "write_pl"}
  PROVE  Whole(s)
<1>1. s # <<>> => Head(s) = s[1] /\ 1 \in 1 .. Len(s)
  OBVIOUS
<1>2. ~Pending(s)
  BY <1>1 DEF Pending
<1>3. \A i \in 2 .. Len(s) : i \in 1 .. Len(s)
  OBVIOUS
<1> QED
  BY <1>2, <1>3 DEF Whole, Paired

LEMMA WholeRepeaters ==
  ASSUME NEW c \in Cmds
  PROVE  Whole(repeatRF(c)) /\ Whole(RfToPl(c))
<1>1. /\ c.house \in Houses /\ c.unit \in Units
      /\ c.kind \in {"on", "off", "dim", "other"}
  BY CmdFields
<1>2. Whole(repeatRF(c))
  <2>1. repeatRF(c) \in Seq(Calls)
    BY RepeatersType
  <2>2. \A i \in 1 .. Len(repeatRF(c)) : repeatRF(c)[i].call = "write_rf"
    BY DEF repeatRF, WriteRf
  <2> QED
    BY <2>1, <2>2, WholeOther
<1>3. Whole(RfToPl(c))
  <2>1. /\ Addr(c.house, c.unit) \in PlFrames /\ Dim(c.house) \in PlFrames
        /\ Func(c.house, 2) \in PlFrames /\ Func(c.house, 3) \in PlFrames
    BY <1>1, FrameTypes, OnOffAssumption
  <2>2. /\ Whole(pl_tx(Addr(c.house, c.unit)) \o pl_tx(Func(c.house, 2)))
        /\ Whole(pl_tx(Addr(c.house, c.unit)) \o pl_tx(Func(c.house, 3)))
        /\ Whole(pl_tx(Dim(c.house)))
    BY <2>1, WholeConcat, WholeTx, PlTxType
  <2> QED
    BY <1>1, <2>2, NoCalls DEF RfToPl, Whole
<1> QED
  BY <1>2, <1>3

\* One call of a list that is paired.
LEMMA PairedCall ==
  ASSUME NEW calls \in Seq(Calls), NEW callsNext, NEW gaveUp,
         Perform(calls, callsNext, gaveUp), Paired(calls)
  PROVE  /\ Paired(callsNext)
         /\ Head(calls).call # "decode_plc" => ~Pending(callsNext)
         /\ Head(calls).call = "decode_plc" =>
              Tail(calls) # <<>> /\ Soon(callsNext) = <<AsOp(Head(calls).frame)>>
<1> DEFINE c == Head(calls)
           rest == Tail(calls)
<1>1. calls # <<>> /\ c \in Calls /\ rest \in Seq(Calls)
  BY HeadTailProperties DEF Perform
<1>2. /\ Paired(rest)
      /\ c.call = "decode_plc" => rest # <<>> /\ Head(rest) = WritePl(c.frame)
      /\ c.call # "decode_plc" => ~Pending(rest)
  BY <1>1, PairedTail
<1> HIDE DEF c, rest
<1>3. CASE c.call = "decode_plc" /\ callsNext = rest
  <2>1. Pending(rest) /\ Head(rest).frame = c.frame
    BY <1>2, <1>3 DEF Pending, WritePl
  <2> QED
    BY <1>2, <1>3, <2>1 DEF Soon, c, rest
<1>4. CASE c.call = "decode_rf" /\ cm15a_decode_rf(c.frame, rest, callsNext)
  <2>1. Whole(rest) /\ c.frame \in Cmds
    BY <1>1, <1>2, <1>4 DEF Whole, Calls, WriteRaw
  <2>2. Whole(callsNext)
    <3>1. CASE callsNext = rest
      BY <2>1, <3>1
    <3>2. CASE callsNext = repeatRF(c.frame) \o RfToPl(c.frame) \o rest
      <4>1. repeatRF(c.frame) \in Seq(Calls) /\ RfToPl(c.frame) \in Seq(Calls)
        BY <2>1, RepeatersType
      <4>2. Whole(repeatRF(c.frame)) /\ Whole(RfToPl(c.frame))
        BY <2>1, WholeRepeaters
      <4>3. Whole(repeatRF(c.frame) \o RfToPl(c.frame))
        BY <4>1, <4>2, WholeConcat
      <4>4. repeatRF(c.frame) \o RfToPl(c.frame) \in Seq(Calls)
        BY <4>1, ConcatProperties
      <4> QED
        BY <1>1, <2>1, <3>2, <4>3, <4>4, WholeConcat
    <3> QED
      BY <1>4, <3>1, <3>2 DEF cm15a_decode_rf
  <2> QED
    BY <1>4, <2>2 DEF Whole, c
<1>5. CASE c.call \in Writes /\ callsNext = rest
  BY <1>2, <1>5 DEF Writes, c
<1> QED
  BY <1>3, <1>4, <1>5 DEF Perform, c, rest

\* Sequences of operations, in the form the steps below need.
LEMMA OpChains ==
  \A s, t \in Seq(PlOps), e \in PlOps :
    /\ s \o <<>> = s /\ <<>> \o s = s /\ <<>> \in Seq(PlOps) /\ <<e>> \in Seq(PlOps)
    /\ Append(s, e) = s \o <<e>> /\ (s \o <<e>>) \o t = s \o (<<e>> \o t)
    /\ (s \o t) \o <<e>> = s \o (t \o <<e>>)
    /\ s \o t = <<>> => s = <<>> /\ t = <<>>
    /\ <<e>> \o s # <<>>
<1> HIDE DEF PlOps
<1> TAKE s, t \in Seq(PlOps), e \in PlOps
<1>1. <<e>> \in Seq(PlOps) /\ <<>> \in Seq(PlOps) /\ <<e>> # <<>>
  OBVIOUS
<1>2. s \o <<>> = s /\ <<>> \o s = s
  BY ConcatEmptySeq
<1>3. /\ (s \o <<e>>) \o t = s \o (<<e>> \o t)
      /\ (s \o t) \o <<e>> = s \o (t \o <<e>>)
  BY <1>1, ConcatAssociative
<1>4. s \o t = <<>> => s = <<>> /\ t = <<>>
  BY ConcatEqualIffEmpty
<1>5. <<e>> \o s # <<>>
  BY <1>1, ConcatEqualIffEmpty
<1>6. Append(s, e) = s \o <<e>>
  OBVIOUS
<1> QED
  BY <1>1, <1>2, <1>3, <1>4, <1>5, <1>6

LEMMA FirstAndRest ==
  ASSUME NEW S, NEW s \in Seq(S), s # <<>>
  PROVE  s = <<Head(s)>> \o Tail(s) /\ Head(s) \in S /\ Tail(s) \in Seq(S)
<1>1. Head(s) \in S /\ Tail(s) \in Seq(S)
  BY HeadTailProperties
<1> DEFINE t == <<Head(s)>> \o Tail(s)
<1>2. t \in Seq(S) /\ Len(t) = Len(s) /\ \A i \in 1 .. Len(s) : t[i] = s[i]
  BY <1>1
<1> HIDE DEF t
<1>3. t = s
  BY <1>2, SeqEqual
<1> QED
  BY <1>1, <1>3 DEF t

LEMMA OpsOfType ==
  ASSUME NEW s \in Seq(PlFrames)
  PROVE  /\ OpsOf(s) \in Seq(PlOps) /\ (s = <<>> => OpsOf(s) = <<>>)
         /\ \A f \in PlFrames : OpsOf(Append(s, f)) = OpsOf(s) \o <<AsOp(f)>>
         /\ s # <<>> => OpsOf(s) = <<AsOp(Head(s))>> \o OpsOf(Tail(s))
<1>0. \A f \in PlFrames : AsOp(f) \in PlOps
  BY DEF PlOps
<1> HIDE DEF PlOps
<1>1. ASSUME NEW t \in Seq(PlFrames)
      PROVE  OpsOf(t) \in Seq(PlOps) /\ Len(OpsOf(t)) = Len(t)
             /\ \A i \in 1 .. Len(t) : OpsOf(t)[i] = AsOp(t[i])
  BY <1>0 DEF OpsOf
<1>2. s = <<>> => OpsOf(s) = <<>>
  <2>1. Len(<<>>) = 0
    OBVIOUS
  <2>2. s = <<>> => Len(OpsOf(s)) = 0
    BY <1>1, <2>1
  <2> QED
    BY <1>1, <2>2, EmptySeq
<1>3. ASSUME NEW f \in PlFrames PROVE OpsOf(Append(s, f)) = OpsOf(s) \o <<AsOp(f)>>
  <2> DEFINE a == Append(s, f)
             b == OpsOf(s) \o <<AsOp(f)>>
  <2>1. /\ a \in Seq(PlFrames) /\ Len(a) = Len(s) + 1 /\ Len(s) \in Nat
        /\ \A i \in 1 .. Len(s) : a[i] = s[i]
        /\ a[Len(s) + 1] = f
    BY AppendProperties
  <2>2. /\ <<AsOp(f)>> \in Seq(PlOps) /\ Len(<<AsOp(f)>>) = 1 /\ <<AsOp(f)>>[1] = AsOp(f)
    BY <1>0
  <2>3. /\ b \in Seq(PlOps) /\ Len(b) = Len(s) + 1
        /\ \A i \in 1 .. Len(s) : b[i] = AsOp(s[i])
        /\ b[Len(s) + 1] = AsOp(f)
    BY <1>1, <2>1, <2>2, ConcatProperties
  <2> HIDE DEF a, b
  <2>4. \A i \in 1 .. Len(a) : OpsOf(a)[i] = b[i]
    <3>1. \A i \in 1 .. Len(a) : i \in 1 .. Len(s) \/ i = Len(s) + 1
      BY <2>1
    <3> QED
      BY <1>1, <2>1, <2>3, <3>1
  <2>5. OpsOf(a) \in Seq(PlOps) /\ Len(OpsOf(a)) = Len(b)
    BY <1>1, <2>1, <2>3
  <2>6. \A i \in 1 .. Len(OpsOf(a)) : OpsOf(a)[i] = b[i]
    BY <2>1, <2>3, <2>4, <2>5
  <2>7. OpsOf(a) = b
    BY <2>3, <2>5, <2>6, SeqEqual
  <2> QED
    BY <2>7 DEF a, b
<1>4. ASSUME s # <<>> PROVE OpsOf(s) = <<AsOp(Head(s))>> \o OpsOf(Tail(s))
  <2> DEFINE b == <<AsOp(Head(s))>> \o OpsOf(Tail(s))
  <2>1. /\ Head(s) \in PlFrames /\ Tail(s) \in Seq(PlFrames) /\ Len(Tail(s)) = Len(s) - 1
        /\ \A i \in 1 .. Len(Tail(s)) : Tail(s)[i] = s[i + 1]
        /\ Head(s) = s[1] /\ Len(s) \in Nat \ {0}
    BY <1>4, HeadTailProperties, EmptySeq
  <2>2. /\ <<AsOp(Head(s))>> \in Seq(PlOps) /\ Len(<<AsOp(Head(s))>>) = 1
        /\ <<AsOp(Head(s))>>[1] = AsOp(Head(s))
    BY <1>0, <2>1
  <2>3. /\ OpsOf(Tail(s)) \in Seq(PlOps) /\ Len(OpsOf(Tail(s))) = Len(s) - 1
        /\ \A i \in 1 .. Len(s) - 1 : OpsOf(Tail(s))[i] = AsOp(s[i + 1])
    BY <1>1, <2>1
  <2>4. /\ b \in Seq(PlOps) /\ Len(b) = Len(s)
        /\ \A i \in 1 .. Len(s) : b[i] = IF i <= 1 THEN AsOp(s[1]) ELSE OpsOf(Tail(s))[i - 1]
    <3>1. \A i \in 1 .. Len(s) : i <= 1 => i = 1
      OBVIOUS
    <3>2. /\ b \in Seq(PlOps) /\ Len(b) = 1 + (Len(s) - 1)
          /\ \A i \in 1 .. 1 + (Len(s) - 1) :
               b[i] = IF i <= 1 THEN <<AsOp(Head(s))>>[i] ELSE OpsOf(Tail(s))[i - 1]
      <4> HIDE DEF b
      <4>1. b = <<AsOp(Head(s))>> \o OpsOf(Tail(s))
        BY DEF b
      <4> QED
        BY <2>2, <2>3, <4>1, ConcatProperties
    <3> HIDE DEF b
    <3> QED
      BY <2>1, <2>2, <3>1, <3>2
  <2> HIDE DEF b
  <2>5. ASSUME NEW i \in 1 .. Len(s) PROVE OpsOf(s)[i] = b[i]
    <3>1. CASE i = 1
      BY <1>1, <2>4, <3>1
    <3>2. CASE i # 1
      <4>1. ~(i <= 1) /\ i - 1 \in 1 .. Len(s) - 1 /\ (i - 1) + 1 = i
        BY <2>1, <3>2
      <4> QED
        BY <1>1, <2>3, <2>4, <4>1
    <3> QED
      BY <3>1, <3>2
  <2>6. OpsOf(s) \in Seq(PlOps) /\ Len(OpsOf(s)) = Len(b) /\ Len(OpsOf(s)) = Len(s)
    BY <1>1, <2>4
  <2>7. OpsOf(s) = b
    BY <2>4, <2>5, <2>6, SeqEqual
  <2> QED
    BY <2>7 DEF b
<1> QED
  BY <1>1, <1>2, <1>3, <1>4

\* What a command of the main loop leaves to do is whole.
LEMMA CommandsWhole ==
  ASSUME CallsOK
  PROVE  /\ Pl => Whole(todo')
         /\ Rf => Whole(todo')
         /\ Pt => Whole(todo')
<1>1. ASSUME Pl PROVE Whole(todo')
  <2>1. \/ \E f \in PlFrames : todo' = pl_tx(f)
        \/ \E a, f \in PlFrames : todo' = pl_tx(a) \o pl_tx(f)
    BY <1>1, PlAsks
  <2> QED
    BY <2>1, WholeTx, WholeConcat, PlTxType
<1>2. ASSUME Rf PROVE Whole(todo')
  <2>1. PICK c \in Cmds : todo' = <<Decode_rf(c), WriteRf(c)>>
    BY <1>2 DEF Rf
  <2>2. todo' \in Seq(Calls)
    BY <1>2, CommandTypes
  <2>3. \A i \in 1 .. Len(todo') : todo'[i].call \in {"decode_rf", "write_rf"}
    BY <2>1 DEF Decode_rf, WriteRf
  <2> QED
    BY <2>2, <2>3, WholeOther
<1>3. ASSUME Pt PROVE Whole(todo')
  <2>1. todo' \in Seq(Calls) /\ todo' = <<WriteRaw>>
    BY <1>3, CommandTypes DEF Pt
  <2>2. \A i \in 1 .. Len(todo') : todo'[i].call = "write_raw"
    BY <2>1 DEF WriteRaw
  <2> QED
    BY <2>1, <2>2, WholeOther
<1> QED
  BY <1>1, <1>2, <1>3

LEMMA LineInit == GatewayInit => LineInv
<1> SUFFICES ASSUME GatewayInit PROVE LineInv
  OBVIOUS
<1>1. /\ todo = <<>> /\ cbTodo = <<>> /\ ~drain
      /\ unsent = <<>> /\ unread = <<>> /\ seen = <<>> /\ line = <<>>
  BY DEF GatewayInit
<1>2. ~HeardOne /\ Shape
  BY <1>1, NoCalls, EmptySeq DEF HeardOne, Shape
<1>3. OpsOf(unread) = <<>>
  BY <1>1, OpsOfType, EmptySeq
<1>4. Own = <<>> /\ Unheard = <<>>
  BY <1>1, <1>2, <1>3, NoCalls, ConcatEmptySeq, EmptySeq DEF Own, Unheard, Soon, Left
<1> QED
  BY <1>1, <1>2, <1>4 DEF LineInv

LEMMA ShapeStep ==
  ASSUME CallsOK, Shape, [GatewayNext]_gatewayVars
  PROVE  Shape'
<1>0. todo \in Seq(Calls) /\ cbTodo \in Seq(Calls) /\ Len(<<>>) # 1
  BY EmptySeq DEF CallsOK
<1>1. CASE MainCall
  <2>1. PICK gaveUp \in BOOLEAN :
          /\ Perform(todo, todo', gaveUp)
          /\ drain' = (gaveUp /\ todo' # <<>>)
    BY <1>1 DEF MainCall
  <2>2. cbTodo' = <<>> /\ Paired(todo')
    BY <1>0, <1>1, <2>1, PairedCall DEF MainCall, Shape
  <2>3. gaveUp => ~Pending(todo')
    <3>1. gaveUp => Head(todo).call # "decode_plc"
      BY <2>1 DEF Perform, Writes
    <3> QED
      BY <1>0, <2>1, <3>1, PairedCall DEF Shape
  <2> QED
    BY <2>1, <2>2, <2>3, NoCalls DEF Shape
<1>2. CASE CbCall
  <2>1. PICK gaveUp \in BOOLEAN : Perform(cbTodo, cbTodo', gaveUp)
    BY <1>2 DEF CbCall
  <2>2. todo' = todo /\ drain' = drain /\ cbTodo # <<>>
    BY <1>2 DEF CbCall, Perform
  <2>3. Paired(cbTodo')
    <3>1. CASE HeardOne
      <4>1. Tail(cbTodo) \in Seq(Calls) /\ Len(Tail(cbTodo)) = 0
        BY <1>0, <2>2, <3>1, HeadTailProperties DEF HeardOne
      <4>2. Tail(cbTodo) = <<>>
        BY <4>1, EmptySeq
      <4>3. cbTodo' = <<>>
        BY <2>1, <3>1, <4>2 DEF Perform, HeardOne
      <4> QED
        BY <4>3, NoCalls
    <3>2. CASE ~HeardOne
      BY <1>0, <2>1, <3>2, PairedCall DEF Shape
    <3> QED
      BY <3>1, <3>2
  <2> QED
    BY <2>2, <2>3 DEF Shape
<1>3. CASE Pl \/ Rf \/ Pt
  <2>1. Idle /\ UNCHANGED <<cbTodo, drain>>
    BY <1>3 DEF Pl, Rf, Pt, Command, unprocessed
  <2>2. Whole(todo') /\ ~drain
    BY <1>3, <2>1, CommandsWhole DEF Shape, Idle
  <2> QED
    BY <2>1, <2>2, NoCalls DEF Shape, Whole, Idle
<1>4. CASE UNCHANGED <<todo, cbTodo, drain>>
  BY <1>4 DEF Shape, HeardOne
<1>5. CASE PlPacket \/ RfPacket
  <2>1. AtRest /\ UNCHANGED <<todo, drain>>
    BY <1>5 DEF PlPacket, RfPacket, unheard
  <2>2. ~Pending(todo) /\ Paired(todo) /\ (drain => todo # <<>>)
    BY <2>1, NoCalls DEF Shape, AtRest
  <2>3. HeardOne' \/ Paired(cbTodo')
    <3>1. CASE PlPacket
      <4>1. PICK f : cbTodo' = <<Decode_plc(f)>>
        BY <3>1 DEF PlPacket
      <4>2. Len(cbTodo') = 1 /\ Head(cbTodo') = Decode_plc(f)
        BY <4>1
      <4> QED
        BY <4>2 DEF HeardOne, Decode_plc
    <3>2. CASE RfPacket
      <4>1. PICK c : cbTodo' = <<Decode_rf(c)>>
        BY <3>2 DEF RfPacket
      <4>2. /\ cbTodo' \in Seq(Calls)
            /\ \A i \in 1 .. Len(cbTodo') : cbTodo'[i].call = "decode_rf"
        BY <3>2, <4>1, PacketTypes DEF Decode_rf
      <4> QED
        BY <4>2, WholeOther DEF Whole
    <3> QED
      BY <1>5, <3>1, <3>2
  <2> QED
    BY <2>1, <2>2, <2>3 DEF Shape
<1>6. RfToPlCommand \/ RfToRfCommand \/ St0 \/ Wait \/ Take \/ GiveUp \/ Hear
        => UNCHANGED <<todo, cbTodo, drain>>
  BY DEF RfToPlCommand, RfToRfCommand, St0, Wait, Take, GiveUp, Hear, unprocessed, unheard
<1>7. UNCHANGED gatewayVars => UNCHANGED <<todo, cbTodo, drain>>
  BY DEF gatewayVars
<1> QED
  BY <1>1, <1>2, <1>3, <1>4, <1>5, <1>6, <1>7 DEF GatewayNext

\* No reason to disagree is ever taken back.
LEMMA ApartStays == [GatewayNext]_gatewayVars => apart \subseteq apart'
<1>1. \A calls, callsNext, gaveUp : Perform(calls, callsNext, gaveUp) => apart \subseteq apart'
  BY DEF Perform, cm15a_decode_plc, cm15a_decode_rf, x10_write
<1>2. MainCall \/ CbCall => apart \subseteq apart'
  BY <1>1 DEF MainCall, CbCall
<1>3. Pl \/ Rf \/ Pt \/ RfToPlCommand \/ RfToRfCommand \/ St0 \/ Wait => apart' = apart
  BY DEF Pl, Rf, Pt, RfToPlCommand, RfToRfCommand, St0, Wait
<1>4. Take \/ GiveUp \/ Hear \/ PlPacket \/ RfPacket => apart \subseteq apart'
  BY DEF Take, GiveUp, Hear, PlPacket, RfPacket
<1>5. UNCHANGED gatewayVars => apart' = apart
  BY DEF gatewayVars
<1> QED
  BY <1>2, <1>3, <1>4, <1>5 DEF GatewayNext

\* The balance of the frames, own the daemon's, others those that are not read.
Balance(saw, was, own, others) ==
  saw \o others = was \o own /\ (own = <<>> \/ others = <<>>)

\* A call of a paired list keeps the balance.
LEMMA LineCall ==
  ASSUME CallsOK, NEW calls \in Seq(Calls), NEW callsNext, NEW gaveUp,
         Perform(calls, callsNext, gaveUp), Paired(calls), Untroubled',
         Balance(seen, line, unsent \o Soon(calls), OpsOf(unread))
  PROVE  Balance(seen', line, unsent' \o Soon(callsNext), OpsOf(unread))
<1> DEFINE c == Head(calls)
           rest == Tail(calls)
           U == OpsOf(unread)
           op == AsOp(c.frame)
<1>0. seen \in Seq(PlOps) /\ line \in Seq(PlOps) /\ unsent \in Seq(PlOps)
      /\ U \in Seq(PlOps) /\ unread \in Seq(PlFrames) /\ (unread = <<>> => U = <<>>)
  BY OpsOfType DEF CallsOK
<1>1. calls # <<>> /\ c \in Calls
  BY HeadTailProperties DEF Perform
<1>2. \A s : ~Pending(s) => Soon(s) = <<>>
  BY DEF Soon
<1>3. /\ c.call # "decode_plc" => Soon(callsNext) = <<>>
      /\ c.call = "decode_plc" => rest # <<>> /\ Soon(callsNext) = <<op>>
  BY <1>2, PairedCall
<1>4. c.call # "write_pl" => Soon(calls) = <<>>
  BY <1>2 DEF Pending
<1>5. c.call = "write_pl" => Soon(calls) = <<op>>
  BY <1>1 DEF Soon, Pending
<1>7. c.call \in {"decode_plc", "write_pl"} => op \in PlOps
  <2>1. c.call \in {"decode_plc", "write_pl"} => c.frame \in PlFrames
    BY <1>1 DEF Calls, WriteRaw
  <2> QED
    BY <2>1 DEF PlOps
<1>8. Balance(seen, line, unsent \o Soon(calls), U)
  OBVIOUS
<1> SUFFICES Balance(seen', line, unsent' \o Soon(callsNext), U)
  OBVIOUS
<1>9. CASE c.call = "decode_plc" /\ cm15a_decode_plc(c.frame, rest)
  <2>1. unsent' = unsent /\ seen' = Append(seen, op)
    BY <1>9 DEF cm15a_decode_plc, lineVars
  <2>2. U = <<>>
    BY <1>0, <1>3, <1>9 DEF cm15a_decode_plc, Untroubled
  <2> HIDE DEF c, rest, U, op, PlOps
  <2>3. seen = line \o unsent
    <3>1. Soon(calls) = <<>> /\ seen \o <<>> = line \o (unsent \o <<>>)
      BY <1>4, <1>8, <1>9, <2>2 DEF Balance
    <3>2. seen \o <<>> = seen /\ unsent \o <<>> = unsent
      BY <1>0, ConcatEmptySeq
    <3> QED
      BY <3>1, <3>2
  <2>4. seen' = line \o (unsent \o <<op>>)
    <3>1. op \in PlOps
      BY <1>7, <1>9
    <3>2. Append(seen, op) = seen \o <<op>> /\ <<op>> \in Seq(PlOps)
      BY <1>0, <3>1
    <3>3. (line \o unsent) \o <<op>> = line \o (unsent \o <<op>>)
      BY <1>0, <3>2, ConcatAssociative
    <3> QED
      BY <2>1, <2>3, <3>2, <3>3, Zenon
  <2>5. seen' \o <<>> = seen'
    BY <1>0, OpChains, <1>7, <1>9, <2>1, AppendProperties
  <2> QED
    BY <1>3, <1>9, <2>1, <2>2, <2>4, <2>5 DEF Balance
<1>10. CASE c.call = "decode_rf" /\ cm15a_decode_rf(c.frame, rest, callsNext)
  <2>1. unsent' = unsent /\ seen' = seen
    BY <1>10 DEF cm15a_decode_rf, lineVars
  <2> HIDE DEF c, rest, U, op
  <2> QED
    BY <1>3, <1>4, <1>8, <1>10, <2>1
<1>11. CASE c.call \in Writes /\ x10_write(c, gaveUp)
  <2>1. seen' = seen /\ Soon(callsNext) = <<>>
    BY <1>3, <1>11 DEF x10_write, Writes
  <2>2. CASE c.call = "write_pl"
    <3>1. unsent' = Append(unsent, op)
      BY <1>11, <2>2 DEF x10_write, Untroubled
    <3> HIDE DEF c, rest, U, op, PlOps
    <3>2. unsent' = unsent \o <<op>> /\ unsent' \in Seq(PlOps)
      BY <1>0, OpChains, <1>7, <2>2, <3>1, AppendProperties
    <3>3. unsent' \o <<>> = unsent \o <<op>>
      BY <1>0, OpChains, <3>2
    <3> QED
      BY <1>5, <1>8, <2>1, <2>2, <3>3
  <2>3. CASE c.call # "write_pl"
    <3>1. unsent' = unsent
      BY <1>11, <2>3 DEF x10_write
    <3> HIDE DEF c, rest, U, op
    <3> QED
      BY <1>4, <1>8, <2>1, <2>3, <3>1
  <2> QED
    BY <2>2, <2>3
<1> QED
  BY <1>9, <1>10, <1>11 DEF Perform

\* The frames that wait, when the next call is not the write of a pending one.
LEMMA AtRestLine ==
  ASSUME CallsOK, Shape, cbTodo = <<>>, ~Pending(todo)
  PROVE  Own = unsent /\ Unheard = OpsOf(unread)
<1>1. ~HeardOne /\ Soon(Left) = <<>>
  BY EmptySeq DEF HeardOne, Soon, Left
<1>2. unsent \in Seq(PlOps) /\ OpsOf(unread) \in Seq(PlOps)
  BY OpsOfType DEF CallsOK
<1> QED
  BY <1>1, <1>2, ConcatEmptySeq DEF Own, Unheard

\* The calls keep the balance.
LEMMA LineOfCalls ==
  ASSUME CallsOK, CallsOK', Shape, Shape', MainCall \/ CbCall, Untroubled',
         Balance(seen, line, Own, Unheard)
  PROVE  Balance(seen', line', Own', Unheard')
<1> DEFINE U == OpsOf(unread)
<1>0. /\ todo \in Seq(Calls) /\ cbTodo \in Seq(Calls) /\ cbTodo' \in Seq(Calls)
      /\ seen \in Seq(PlOps) /\ line \in Seq(PlOps) /\ unsent \in Seq(PlOps)
      /\ unread \in Seq(PlFrames) /\ U \in Seq(PlOps) /\ Len(<<>>) # 1
  <2>1. Len(<<>>) # 1
    BY EmptySeq
  <2>2. unread \in Seq(PlFrames)
    BY DEF CallsOK
  <2>3. U \in Seq(PlOps)
    BY <2>2, OpsOfType
  <2> QED
    BY <2>1, <2>2, <2>3 DEF CallsOK
<1>2. UNCHANGED <<unread, line>>
  <2>1. \A calls, callsNext, gaveUp :
          Perform(calls, callsNext, gaveUp) => UNCHANGED <<unread, line>>
    BY DEF Perform, cm15a_decode_plc, cm15a_decode_rf, x10_write, lineVars
  <2> QED
    BY <2>1 DEF MainCall, CbCall
<1>3. CASE MainCall
  <2>1. PICK gaveUp \in BOOLEAN : Perform(todo, todo', gaveUp)
    BY <1>3 DEF MainCall
  <2>2. /\ cbTodo = <<>> /\ cbTodo' = <<>> /\ Paired(todo)
        /\ ~HeardOne /\ ~HeardOne' /\ Left = todo /\ Left' = todo'
    BY <1>0, <1>3 DEF MainCall, Shape, HeardOne, Left
  <2>3. Unheard = U /\ Unheard' = U
    BY <1>0, OpChains, <1>2, <2>2 DEF Unheard
  <2>4. Balance(seen, line, unsent \o Soon(todo), OpsOf(unread))
    BY <2>2, <2>3 DEF Own
  <2>5. Balance(seen', line, unsent' \o Soon(todo'), U)
    BY <1>0, <2>1, <2>2, <2>4, LineCall
  <2> QED
    BY <1>2, <2>2, <2>3, <2>5 DEF Own
<1>4. CASE CbCall /\ HeardOne
  <2> DEFINE f == Head(cbTodo).frame
             op == AsOp(f)
  <2>1. Head(cbTodo).call = "decode_plc" /\ Tail(cbTodo) = <<>> /\ cbTodo # <<>>
    <3>0. cbTodo # <<>> /\ Len(cbTodo) = 1
      BY <1>0, <1>4 DEF HeardOne
    <3>1. Tail(cbTodo) \in Seq(Calls) /\ Len(Tail(cbTodo)) = 0 /\ cbTodo # <<>>
      BY <1>0, <3>0, HeadTailProperties
    <3> QED
      BY <1>4, <3>1, EmptySeq DEF HeardOne
  <2>2. op \in PlOps
    <3>1. Head(cbTodo) \in Calls
      BY <1>0, <2>1, HeadTailProperties
    <3>2. f \in PlFrames
      BY <2>1, <3>1 DEF Calls, WriteRaw
    <3> QED
      BY <3>2 DEF PlOps
  <2>3. /\ cbTodo' = <<>> /\ todo' = todo /\ seen' = Append(seen, op) /\ unsent' = unsent
    BY <1>4, <2>1 DEF CbCall, Perform, cm15a_decode_plc, lineVars, Writes
  <2>4. ~Pending(todo) /\ ~Pending(cbTodo) /\ Left = cbTodo /\ Left' = todo
    BY <2>1, <2>3 DEF Shape, Pending, Left
  <2>5. Own = unsent /\ Own' = unsent
    BY <1>0, OpChains, <2>3, <2>4 DEF Own, Soon
  <2>6. Unheard = <<op>> \o U
    BY <1>4 DEF Unheard
  <2>7. Unheard' = U
    BY <1>0, OpChains, <1>2, <2>3 DEF Unheard, HeardOne
  <2> HIDE DEF U, op, f, PlOps
  <2>8. <<op>> \in Seq(PlOps) /\ <<op>> \o U \in Seq(PlOps)
    <3>1. <<op>> \in Seq(PlOps)
      BY <2>2
    <3> QED
      BY <1>0, <3>1, ConcatProperties
  <2>9. Own = <<>> /\ seen \o (<<op>> \o U) = line
    <3>1. Own = <<>>
      <4>1. <<op>> \o U # <<>>
        BY <1>0, OpChains, <2>2
      <4> QED
        BY <2>6, <4>1 DEF Balance
    <3>2. line \o <<>> = line
      BY <1>0, OpChains, <2>2
    <3> QED
      BY <2>6, <3>1, <3>2, Zenon DEF Balance
  <2>10. seen' \o U = line \o <<>>
    <3>1. Append(seen, op) = seen \o <<op>> /\ line \o <<>> = line
      BY <1>0, <2>2, ConcatEmptySeq
    <3>2. (seen \o <<op>>) \o U = seen \o (<<op>> \o U)
      BY <1>0, <2>8, ConcatAssociative
    <3> QED
      BY <2>3, <2>9, <3>1, <3>2, Zenon
  <2> QED
    BY <1>2, <2>5, <2>7, <2>9, <2>10 DEF Balance
<1>5. CASE CbCall /\ ~HeardOne
  <2>1. PICK gaveUp \in BOOLEAN : Perform(cbTodo, cbTodo', gaveUp)
    BY <1>5 DEF CbCall
  <2>2. /\ cbTodo # <<>> /\ todo' = todo /\ Paired(cbTodo) /\ Left = cbTodo
        /\ ~Pending(todo)
    BY <1>5, <2>1 DEF CbCall, Perform, Shape, Left
  <2>3. Paired(cbTodo') /\ ~HeardOne'
    BY <1>0, <2>1, <2>2, PairedCall, PairedIsNotHeard DEF HeardOne
  <2>4. Soon(Left') = Soon(cbTodo')
    BY <2>2, NoCalls DEF Left, Soon
  <2>5. Unheard = U /\ Unheard' = U
    BY <1>0, OpChains, <1>2, <1>5, <2>3 DEF Unheard
  <2>6. Balance(seen', line, unsent' \o Soon(cbTodo'), U)
    BY <1>0, <2>1, <2>2, <2>5, LineCall DEF Own
  <2>7. Own' = unsent' \o Soon(cbTodo')
    BY <2>4 DEF Own
  <2> QED
    BY <1>2, <2>5, <2>6, <2>7
<1> QED
  BY <1>3, <1>4, <1>5

\* So does what happens to the queue and on the line.
LEMMA LineOfFrames ==
  ASSUME CallsOK, Shape, Take \/ GiveUp \/ Hear \/ PlPacket \/ RfPacket, Untroubled',
         Balance(seen, line, Own, Unheard)
  PROVE  Balance(seen', line', Own', Unheard')
<1> DEFINE U == OpsOf(unread)
<1>0. /\ seen \in Seq(PlOps) /\ line \in Seq(PlOps) /\ unsent \in Seq(PlOps)
      /\ unread \in Seq(PlFrames) /\ U \in Seq(PlOps)
  BY OpsOfType DEF CallsOK
<1>1. cbTodo = <<>> /\ ~Pending(todo) /\ UNCHANGED <<todo, drain, seen>>
  BY NoCalls DEF Take, GiveUp, Hear, PlPacket, RfPacket, AtRest, Shape, unheard
<1>2. Own = unsent /\ Unheard = U
  BY <1>1, AtRestLine
<1>3. seen \o U = line \o unsent /\ (unsent = <<>> \/ U = <<>>)
  BY <1>2 DEF Balance
<1>5. ASSUME cbTodo' = <<>>
      PROVE  Own' = unsent' \o <<>> /\ Unheard' = <<>> \o OpsOf(unread')
  <2>1. Left' = todo /\ Soon(todo) = <<>> /\ ~HeardOne'
    BY <1>1, <1>5, EmptySeq DEF Left, Soon, HeardOne
  <2> QED
    BY <2>1 DEF Own, Unheard
<1>6. CASE Take
  <2> DEFINE o == Head(unsent)
  <2>1. /\ unsent # <<>> /\ unsent' = Tail(unsent) /\ line' = Append(line, o)
        /\ unread' = unread /\ cbTodo' = <<>>
    BY <1>1, <1>6 DEF Take
  <2>2. o \in PlOps /\ Tail(unsent) \in Seq(PlOps) /\ unsent = <<o>> \o Tail(unsent)
    BY <1>0, <2>1, FirstAndRest
  <2>3. Own' = Tail(unsent) /\ Unheard' = U
    <3>1. Own' = Tail(unsent) \o <<>> /\ Unheard' = <<>> \o U
      BY <1>5, <2>1
    <3> QED
      BY <1>0, OpChains, <2>2, <3>1
  <2> HIDE DEF U, o, PlOps
  <2>4. line' \o Tail(unsent) = line \o unsent
    <3>1. line' \o Tail(unsent) = line \o (<<o>> \o Tail(unsent))
      <4>1. Append(line, o) = line \o <<o>> /\ <<o>> \in Seq(PlOps)
        BY <1>0, <2>2
      <4>2. (line \o <<o>>) \o Tail(unsent) = line \o (<<o>> \o Tail(unsent))
        BY <1>0, <2>2, <4>1, ConcatAssociative
      <4> QED
        BY <2>1, <4>1, <4>2, Zenon
    <3> QED
      BY <2>2, <3>1, Zenon
  <2>5. U = <<>>
    BY <1>3, <2>1
  <2> QED
    BY <1>1, <1>3, <2>3, <2>4, <2>5 DEF Balance
<1>7. CASE GiveUp
  BY <1>7 DEF GiveUp, Untroubled
<1>8. CASE Hear
  <2>1. PICK f \in Heard : line' = Append(line, AsOp(f)) /\ unread' = Append(unread, f)
    BY <1>8 DEF Hear
  <2>2. f \in PlFrames /\ AsOp(f) \in PlOps
    BY FramesAssumption DEF PlOps
  <2>3. unsent = <<>> /\ unsent' = unsent /\ cbTodo' = <<>>
    BY <1>1, <1>8 DEF Hear, Untroubled
  <2>4. OpsOf(unread') = U \o <<AsOp(f)>> /\ OpsOf(unread') \in Seq(PlOps)
    <3>1. unread' \in Seq(PlFrames)
      BY <1>0, <2>1, <2>2, AppendProperties
    <3> QED
      BY <1>0, <2>1, <2>2, <3>1, OpsOfType
  <2>5. Own' = <<>> /\ Unheard' = U \o <<AsOp(f)>>
    <3>1. unsent \o <<>> = <<>>
      BY <2>3, EmptySeq, ConcatEmptySeq
    <3>2. <<>> \o OpsOf(unread') = OpsOf(unread')
      BY <2>4, ConcatEmptySeq
    <3> QED
      BY <1>5, <2>3, <2>4, <3>1, <3>2
  <2> HIDE DEF U, PlOps
  <2>6. seen \o (U \o <<AsOp(f)>>) = line \o <<AsOp(f)>>
    <3>1. seen \o U = line
      BY <1>0, <1>3, <2>3, ConcatEmptySeq
    <3>2. (seen \o U) \o <<AsOp(f)>> = seen \o (U \o <<AsOp(f)>>)
      <4>1. <<AsOp(f)>> \in Seq(PlOps)
        BY <2>2
      <4> QED
        BY <1>0, <4>1, ConcatAssociative
    <3> QED
      BY <3>1, <3>2
  <2>7. line' = line \o <<AsOp(f)>> /\ line' \o <<>> = line'
    <3>1. line' = line \o <<AsOp(f)>> /\ line' \in Seq(PlOps)
      BY <1>0, <2>1, <2>2, AppendProperties
    <3> QED
      BY <3>1, ConcatEmptySeq
  <2> QED
    BY <1>1, <2>5, <2>6, <2>7 DEF Balance
<1>9. CASE PlPacket
  <2> DEFINE f == Head(unread)
  <2>1. /\ unread # <<>> /\ unread' = Tail(unread) /\ cbTodo' = <<Decode_plc(f)>>
        /\ line' = line /\ unsent' = unsent
    BY <1>9 DEF PlPacket
  <2>2. cbTodo' # <<>> /\ Len(cbTodo') = 1 /\ Head(cbTodo') = Decode_plc(f)
    BY <2>1
  <2>3. HeardOne' /\ Head(cbTodo').frame = f /\ ~Pending(cbTodo')
    BY <2>2 DEF HeardOne, Decode_plc, Pending
  <2>4. Unheard' = U
    <3>1. Unheard' = <<AsOp(f)>> \o OpsOf(Tail(unread))
      BY <2>1, <2>3 DEF Unheard
    <3> QED
      BY <1>0, <2>1, <3>1, OpsOfType
  <2>5. Own' = unsent
    BY <1>0, OpChains, <2>1, <2>2, <2>3 DEF Own, Left, Soon
  <2> QED
    BY <1>1, <1>3, <2>1, <2>4, <2>5 DEF Balance
<1>10. CASE RfPacket
  <2>1. PICK c : cbTodo' = <<Decode_rf(c)>>
    BY <1>10 DEF RfPacket
  <2>2. cbTodo' # <<>> /\ Head(cbTodo') = Decode_rf(c)
    BY <2>1
  <2>3. ~HeardOne' /\ ~Pending(cbTodo') /\ UNCHANGED <<unsent, unread, line>>
    BY <1>10, <2>2 DEF HeardOne, Pending, Decode_rf, RfPacket, lineVars
  <2>4. Own' = unsent /\ Unheard' = U
    BY <1>0, OpChains, <2>2, <2>3 DEF Own, Unheard, Left, Soon
  <2> QED
    BY <1>1, <1>3, <2>3, <2>4 DEF Balance
<1> QED
  BY <1>6, <1>7, <1>8, <1>9, <1>10

LEMMA LineStep == CallsOK /\ LineInv /\ [GatewayNext]_gatewayVars => LineInv'
<1> SUFFICES ASSUME CallsOK, LineInv, [GatewayNext]_gatewayVars PROVE LineInv'
  OBVIOUS
<1>1. CallsOK' /\ Shape /\ Shape'
  BY GatewayStep, ShapeStep DEF LineInv
<1> SUFFICES ASSUME Untroubled' PROVE Balance(seen', line', Own', Unheard')
  BY <1>1 DEF LineInv, Balance
<1>2. Balance(seen, line, Own, Unheard)
  BY ApartStays DEF LineInv, Untroubled, Balance
<1>3. CASE MainCall \/ CbCall
  BY <1>1, <1>2, <1>3, LineOfCalls
<1>4. CASE Take \/ GiveUp \/ Hear \/ PlPacket \/ RfPacket
  BY <1>1, <1>2, <1>4, LineOfFrames
<1>5. CASE Pl \/ Rf \/ Pt
  <2>1. /\ todo = <<>> /\ cbTodo = <<>> /\ cbTodo' = <<>> /\ UNCHANGED <<seen, lineVars>>
    BY <1>5 DEF Pl, Rf, Pt, Command, unprocessed, Idle
  <2>2. ~Pending(todo) /\ ~Pending(todo')
    BY <1>1, <1>5, <2>1, NoCalls, CommandsWhole DEF Whole
  <2>3. Own' = Own /\ Unheard' = Unheard
    BY <2>1, <2>2 DEF Own, Unheard, HeardOne, Left, Soon, lineVars
  <2> QED
    BY <1>2, <2>1, <2>3 DEF lineVars
<1>6. CASE RfToPlCommand \/ RfToRfCommand \/ St0 \/ Wait \/ UNCHANGED gatewayVars
  <2>1. UNCHANGED <<todo, cbTodo, seen, lineVars>>
    BY <1>6 DEF RfToPlCommand, RfToRfCommand, St0, Wait, unprocessed, gatewayVars
  <2>2. Own' = Own /\ Unheard' = Unheard
    BY <2>1 DEF Own, Unheard, HeardOne, Left, Soon, lineVars
  <2> QED
    BY <1>2, <2>1, <2>2 DEF lineVars
<1> QED
  BY <1>3, <1>4, <1>5, <1>6 DEF GatewayNext

LEMMA LineInvHolds == GatewaySpec => [](CallsOK /\ LineInv)
<1>1. GatewayInit => LineInv
  BY LineInit
<1>2. CallsOK /\ LineInv /\ [GatewayNext]_gatewayVars => LineInv'
  BY LineStep
<1> QED
  BY <1>1, <1>2, CallsAreTyped, PTL DEF GatewaySpec

\* When nothing is left to do, to send and to read, the frames of the line have
\* been seen.
LEMMA SettledLine ==
  ASSUME CallsOK, LineInv, Settled, Untroubled
  PROVE  seen = line
<1>1. todo = <<>> /\ cbTodo = <<>> /\ unsent = <<>> /\ unread = <<>>
  BY DEF Settled, Idle
<1>2. Own = <<>> /\ Unheard = <<>>
  BY <1>1, AtRestLine, NoCalls, OpsOfType DEF LineInv, CallsOK
<1>3. seen \in Seq(PlOps) /\ line \in Seq(PlOps) /\ seen \o <<>> = line \o <<>>
  BY <1>2 DEF LineInv, CallsOK
<1> QED
  BY <1>3, ConcatEmptySeq

\* Through the queue (x10_write.c) and with packets decoded inside commands
\* (cm15a_decode): unless a frame was lost or frames crossed, the tables end up
\* with the frames of the power line in their order, the daemon's own
\* (pl_tx_houseunit, pl_tx_housefunc) and those of others.
THEOREM SawTheLine == GatewaySpec => []TablesSawTheLine
<1>1. CallsOK /\ LineInv => TablesSawTheLine
  BY SettledLine DEF TablesSawTheLine, Untroubled
<1> QED
  BY <1>1, LineInvHolds, PTL

-----------------------------------------------------------------------------
(***************************************************************************)
(* How much one command makes the daemon write.  Debt(s) is the number of  *)
(* writes the calls s can still lead to: one each, and for an RF command   *)
(* that is still to be decoded those of its repeaters.  No list of calls   *)
(* is longer than six.                                                     *)
(***************************************************************************)

Cost(c) == IF c.call = "decode_rf" THEN 3 ELSE IF c.call \in Writes THEN 1 ELSE 0
CostAt(s, i) == IF i <= Len(s) THEN Cost(s[i]) ELSE 0
Debt(s) == CostAt(s, 1) + CostAt(s, 2) + CostAt(s, 3) + CostAt(s, 4)
             + CostAt(s, 5) + CostAt(s, 6)

\* An RF command is decoded before anything else is left to do but to transmit it.
Short(s) ==
  /\ Len(s) <= 6
  /\ \A i \in 1 .. Len(s) : s[i].call = "decode_rf" => i = 1 /\ Len(s) <= 2

StormInv ==
  /\ commands \in Nat /\ packets \in Nat /\ written \in Nat
  /\ Short(todo) /\ Short(cbTodo)
  /\ written + Debt(todo) + Debt(cbTodo) <= 4 * commands + 3 * packets

LEMMA CostType ==
  ASSUME NEW s
  PROVE  (\A i : CostAt(s, i) \in 0 .. 3) /\ Debt(s) \in Nat
<1>1. \A c : Cost(c) \in 0 .. 3
  BY DEF Cost
<1>2. \A i : CostAt(s, i) \in 0 .. 3
  BY <1>1 DEF CostAt
<1>3. /\ CostAt(s, 1) \in 0 .. 3 /\ CostAt(s, 2) \in 0 .. 3 /\ CostAt(s, 3) \in 0 .. 3
      /\ CostAt(s, 4) \in 0 .. 3 /\ CostAt(s, 5) \in 0 .. 3 /\ CostAt(s, 6) \in 0 .. 3
  BY <1>2
<1> QED
  BY <1>2, <1>3 DEF Debt

LEMMA DebtEmpty == Debt(<<>>) = 0 /\ Short(<<>>)
<1>1. Len(<<>>) = 0
  OBVIOUS
<1> QED
  BY <1>1 DEF Debt, CostAt, Short

\* The first call pays its part.
LEMMA DebtTail ==
  ASSUME NEW s \in Seq(Calls), s # <<>>, Short(s)
  PROVE  /\ Debt(Tail(s)) = Debt(s) - Cost(Head(s)) /\ Short(Tail(s))
         /\ \A i \in 1 .. Len(Tail(s)) : Tail(s)[i].call # "decode_rf"
<1> DEFINE t == Tail(s)
<1>1. /\ Head(s) = s[1] /\ t \in Seq(Calls)
      /\ Len(s) \in Nat \ {0} /\ Len(t) = Len(s) - 1
      /\ \A i \in 1 .. Len(t) : t[i] = s[i + 1]
  OBVIOUS
<1> HIDE DEF t
<1>2. \A i \in 1 .. 6 : CostAt(t, i) = CostAt(s, i + 1)
  BY <1>1 DEF CostAt
<1>3. CostAt(s, 1) = Cost(Head(s)) /\ CostAt(s, 7) = 0
  BY <1>1 DEF CostAt, Short
<1>4. Debt(t) = Debt(s) - Cost(Head(s))
  <2>1. /\ CostAt(t, 1) = CostAt(s, 2) /\ CostAt(t, 2) = CostAt(s, 3)
        /\ CostAt(t, 3) = CostAt(s, 4) /\ CostAt(t, 4) = CostAt(s, 5)
        /\ CostAt(t, 5) = CostAt(s, 6) /\ CostAt(t, 6) = CostAt(s, 7)
    BY <1>2
  <2>2. \A i : CostAt(s, i) \in 0 .. 3
    BY CostType
  <2>3. /\ CostAt(s, 1) \in 0 .. 3 /\ CostAt(s, 2) \in 0 .. 3 /\ CostAt(s, 3) \in 0 .. 3
        /\ CostAt(s, 4) \in 0 .. 3 /\ CostAt(s, 5) \in 0 .. 3 /\ CostAt(s, 6) \in 0 .. 3
    BY <2>2
  <2>4. Debt(t) = CostAt(s, 2) + CostAt(s, 3) + CostAt(s, 4) + CostAt(s, 5) + CostAt(s, 6)
    BY <1>3, <2>1, <2>3 DEF Debt
  <2>5. CostAt(s, 1) + (CostAt(s, 2) + CostAt(s, 3) + CostAt(s, 4) + CostAt(s, 5)
          + CostAt(s, 6)) = Debt(s)
    BY <2>3, SMTT(30) DEF Debt
  <2> QED
    BY <1>3, <2>3, <2>4, <2>5
<1>5. ASSUME NEW i \in 1 .. Len(t), t[i].call = "decode_rf" PROVE FALSE
  <2>1. i + 1 \in 1 .. Len(s) /\ s[i + 1].call = "decode_rf" /\ i + 1 # 1
    BY <1>1, <1>5
  <2> QED
    BY <2>1 DEF Short
<1> QED
  BY <1>1, <1>4, <1>5 DEF Short, t

\* Calls in front of others: their debts add up.
LEMMA DebtConcat ==
  ASSUME NEW s \in Seq(Calls), NEW t \in Seq(Calls), Len(s) + Len(t) <= 6
  PROVE  Debt(s \o t) = Debt(s) + Debt(t)
<1> DEFINE r == s \o t
<1>1. /\ Len(r) = Len(s) + Len(t)
      /\ Len(s) \in Nat /\ Len(t) \in Nat
      /\ \A i \in 1 .. Len(s) : r[i] = s[i]
      /\ \A i \in 1 .. Len(t) : r[Len(s) + i] = t[i]
  BY ConcatProperties
<1>0. Len(s) \in Nat /\ Len(t) \in Nat /\ Len(s) + Len(t) <= 6
  OBVIOUS
<1> SUFFICES Debt(r) = Debt(s) + Debt(t)
  OBVIOUS
<1> HIDE DEF r
<1>2. \A i \in 1 .. 6 :
        CostAt(r, i) = IF i <= Len(s) THEN CostAt(s, i) ELSE CostAt(t, i - Len(s))
  <2>1. ASSUME NEW i \in 1 .. 6, i > Len(s), i <= Len(r) PROVE r[i] = t[i - Len(s)]
    <3>1. i - Len(s) \in 1 .. Len(t) /\ Len(s) + (i - Len(s)) = i
      BY <1>1, <2>1
    <3> QED
      BY <1>1, <3>1
  <2> QED
    BY <1>1, <2>1 DEF CostAt
<1>3. /\ \A i \in 1 .. 6 : i > Len(s) => CostAt(s, i) = 0
      /\ \A i \in 1 .. 6 : i > 6 - Len(s) => CostAt(t, i) = 0
  BY <1>0 DEF CostAt
<1>4. /\ CostAt(s, 1) \in 0 .. 3 /\ CostAt(s, 2) \in 0 .. 3 /\ CostAt(s, 3) \in 0 .. 3
      /\ CostAt(s, 4) \in 0 .. 3 /\ CostAt(s, 5) \in 0 .. 3 /\ CostAt(s, 6) \in 0 .. 3
  <2>1. \A i : CostAt(s, i) \in 0 .. 3
    BY CostType
  <2> QED
    BY <2>1
<1>5. /\ CostAt(t, 1) \in 0 .. 3 /\ CostAt(t, 2) \in 0 .. 3 /\ CostAt(t, 3) \in 0 .. 3
      /\ CostAt(t, 4) \in 0 .. 3 /\ CostAt(t, 5) \in 0 .. 3 /\ CostAt(t, 6) \in 0 .. 3
  <2>1. \A i : CostAt(t, i) \in 0 .. 3
    BY CostType
  <2> QED
    BY <2>1
<1>6. Len(s) \in 0 .. 6
  <2>1. \A m, n \in Nat : m + n <= 6 => m \in 0 .. 6
    OBVIOUS
  <2> QED
    BY <1>0, <2>1
<1>7. CASE Len(s) = 0
  <2>1. /\ CostAt(r, 1) = CostAt(t, 1) /\ CostAt(r, 2) = CostAt(t, 2) /\ CostAt(r, 3) = CostAt(t, 3)
        /\ CostAt(r, 4) = CostAt(t, 4) /\ CostAt(r, 5) = CostAt(t, 5) /\ CostAt(r, 6) = CostAt(t, 6)
        /\ CostAt(s, 1) = 0 /\ CostAt(s, 2) = 0 /\ CostAt(s, 3) = 0
        /\ CostAt(s, 4) = 0 /\ CostAt(s, 5) = 0 /\ CostAt(s, 6) = 0
    BY <1>2, <1>3, <1>7
  <2> QED
    BY <1>4, <1>5, <2>1 DEF Debt
<1>8. CASE Len(s) = 1
  <2>1. /\ CostAt(r, 1) = CostAt(s, 1) /\ CostAt(r, 2) = CostAt(t, 1) /\ CostAt(r, 3) = CostAt(t, 2)
        /\ CostAt(r, 4) = CostAt(t, 3) /\ CostAt(r, 5) = CostAt(t, 4) /\ CostAt(r, 6) = CostAt(t, 5)
        /\ CostAt(s, 2) = 0 /\ CostAt(s, 3) = 0 /\ CostAt(s, 4) = 0
        /\ CostAt(s, 5) = 0 /\ CostAt(s, 6) = 0 /\ CostAt(t, 6) = 0
    BY <1>2, <1>3, <1>8
  <2>2. Debt(s) = CostAt(s, 1)
    BY <1>4, <2>1 DEF Debt
  <2>3. Debt(t) = CostAt(t, 1) + CostAt(t, 2) + CostAt(t, 3) + CostAt(t, 4) + CostAt(t, 5)
    BY <1>5, <2>1 DEF Debt
  <2>4. Debt(r) = (CostAt(s, 1))
                    + (CostAt(t, 1) + CostAt(t, 2) + CostAt(t, 3) + CostAt(t, 4) + CostAt(t, 5))
    BY <1>4, <1>5, <2>1, SMTT(30) DEF Debt
  <2> QED
    BY <2>2, <2>3, <2>4
<1>9. CASE Len(s) = 2
  <2>1. /\ CostAt(r, 1) = CostAt(s, 1) /\ CostAt(r, 2) = CostAt(s, 2) /\ CostAt(r, 3) = CostAt(t, 1)
        /\ CostAt(r, 4) = CostAt(t, 2) /\ CostAt(r, 5) = CostAt(t, 3) /\ CostAt(r, 6) = CostAt(t, 4)
        /\ CostAt(s, 3) = 0 /\ CostAt(s, 4) = 0 /\ CostAt(s, 5) = 0
        /\ CostAt(s, 6) = 0 /\ CostAt(t, 5) = 0 /\ CostAt(t, 6) = 0
    BY <1>2, <1>3, <1>9
  <2>2. Debt(s) = CostAt(s, 1) + CostAt(s, 2)
    BY <1>4, <2>1 DEF Debt
  <2>3. Debt(t) = CostAt(t, 1) + CostAt(t, 2) + CostAt(t, 3) + CostAt(t, 4)
    BY <1>5, <2>1 DEF Debt
  <2>4. Debt(r) = (CostAt(s, 1) + CostAt(s, 2))
                    + (CostAt(t, 1) + CostAt(t, 2) + CostAt(t, 3) + CostAt(t, 4))
    BY <1>4, <1>5, <2>1, SMTT(30) DEF Debt
  <2> QED
    BY <2>2, <2>3, <2>4
<1>10. CASE Len(s) = 3
  <2>1. /\ CostAt(r, 1) = CostAt(s, 1) /\ CostAt(r, 2) = CostAt(s, 2) /\ CostAt(r, 3) = CostAt(s, 3)
        /\ CostAt(r, 4) = CostAt(t, 1) /\ CostAt(r, 5) = CostAt(t, 2) /\ CostAt(r, 6) = CostAt(t, 3)
        /\ CostAt(s, 4) = 0 /\ CostAt(s, 5) = 0 /\ CostAt(s, 6) = 0
        /\ CostAt(t, 4) = 0 /\ CostAt(t, 5) = 0 /\ CostAt(t, 6) = 0
    BY <1>2, <1>3, <1>10
  <2>2. Debt(s) = CostAt(s, 1) + CostAt(s, 2) + CostAt(s, 3)
    BY <1>4, <2>1 DEF Debt
  <2>3. Debt(t) = CostAt(t, 1) + CostAt(t, 2) + CostAt(t, 3)
    BY <1>5, <2>1 DEF Debt
  <2>4. Debt(r) = (CostAt(s, 1) + CostAt(s, 2) + CostAt(s, 3))
                    + (CostAt(t, 1) + CostAt(t, 2) + CostAt(t, 3))
    BY <1>4, <1>5, <2>1, SMTT(30) DEF Debt
  <2> QED
    BY <2>2, <2>3, <2>4
<1>11. CASE Len(s) = 4
  <2>1. /\ CostAt(r, 1) = CostAt(s, 1) /\ CostAt(r, 2) = CostAt(s, 2) /\ CostAt(r, 3) = CostAt(s, 3)
        /\ CostAt(r, 4) = CostAt(s, 4) /\ CostAt(r, 5) = CostAt(t, 1) /\ CostAt(r, 6) = CostAt(t, 2)
        /\ CostAt(s, 5) = 0 /\ CostAt(s, 6) = 0 /\ CostAt(t, 3) = 0
        /\ CostAt(t, 4) = 0 /\ CostAt(t, 5) = 0 /\ CostAt(t, 6) = 0
    BY <1>2, <1>3, <1>11
  <2>2. Debt(s) = CostAt(s, 1) + CostAt(s, 2) + CostAt(s, 3) + CostAt(s, 4)
    BY <1>4, <2>1 DEF Debt
  <2>3. Debt(t) = CostAt(t, 1) + CostAt(t, 2)
    BY <1>5, <2>1 DEF Debt
  <2>4. Debt(r) = (CostAt(s, 1) + CostAt(s, 2) + CostAt(s, 3) + CostAt(s, 4))
                    + (CostAt(t, 1) + CostAt(t, 2))
    BY <1>4, <1>5, <2>1, SMTT(30) DEF Debt
  <2> QED
    BY <2>2, <2>3, <2>4
<1>12. CASE Len(s) = 5
  <2>1. /\ CostAt(r, 1) = CostAt(s, 1) /\ CostAt(r, 2) = CostAt(s, 2) /\ CostAt(r, 3) = CostAt(s, 3)
        /\ CostAt(r, 4) = CostAt(s, 4) /\ CostAt(r, 5) = CostAt(s, 5) /\ CostAt(r, 6) = CostAt(t, 1)
        /\ CostAt(s, 6) = 0 /\ CostAt(t, 2) = 0 /\ CostAt(t, 3) = 0
        /\ CostAt(t, 4) = 0 /\ CostAt(t, 5) = 0 /\ CostAt(t, 6) = 0
    BY <1>2, <1>3, <1>12
  <2>2. Debt(s) = CostAt(s, 1) + CostAt(s, 2) + CostAt(s, 3) + CostAt(s, 4) + CostAt(s, 5)
    BY <1>4, <2>1 DEF Debt
  <2>3. Debt(t) = CostAt(t, 1)
    BY <1>5, <2>1 DEF Debt
  <2>4. Debt(r) = (CostAt(s, 1) + CostAt(s, 2) + CostAt(s, 3) + CostAt(s, 4) + CostAt(s, 5))
                    + (CostAt(t, 1))
    BY <1>4, <1>5, <2>1, SMTT(30) DEF Debt
  <2> QED
    BY <2>2, <2>3, <2>4
<1>13. CASE Len(s) = 6
  <2>1. /\ CostAt(r, 1) = CostAt(s, 1) /\ CostAt(r, 2) = CostAt(s, 2) /\ CostAt(r, 3) = CostAt(s, 3)
        /\ CostAt(r, 4) = CostAt(s, 4) /\ CostAt(r, 5) = CostAt(s, 5) /\ CostAt(r, 6) = CostAt(s, 6)
        /\ CostAt(t, 1) = 0 /\ CostAt(t, 2) = 0 /\ CostAt(t, 3) = 0
        /\ CostAt(t, 4) = 0 /\ CostAt(t, 5) = 0 /\ CostAt(t, 6) = 0
    BY <1>2, <1>3, <1>13
  <2> QED
    BY <1>4, <1>5, <2>1 DEF Debt
<1> QED
  BY <1>6, <1>7, <1>8, <1>9, <1>10, <1>11, <1>12, <1>13

\* One frame is one write.
LEMMA DebtTx ==
  ASSUME NEW f \in PlFrames
  PROVE  /\ pl_tx(f) \in Seq(Calls) /\ Len(pl_tx(f)) = 2 /\ Debt(pl_tx(f)) = 1
         /\ \A i \in 1 .. 2 : pl_tx(f)[i].call # "decode_rf"
<1> DEFINE s == pl_tx(f)
<1>1. s \in Seq(Calls) /\ Len(s) = 2 /\ s[1] = Decode_plc(f) /\ s[2] = WritePl(f)
  BY PlTxType DEF pl_tx
<1> HIDE DEF s
<1>2. s[1].call = "decode_plc" /\ s[2].call = "write_pl"
  BY <1>1 DEF Decode_plc, WritePl
<1>3. Cost(s[1]) = 0 /\ Cost(s[2]) = 1
  BY <1>2 DEF Cost, Writes
<1>4. /\ CostAt(s, 1) = 0 /\ CostAt(s, 2) = 1 /\ CostAt(s, 3) = 0
      /\ CostAt(s, 4) = 0 /\ CostAt(s, 5) = 0 /\ CostAt(s, 6) = 0
  BY <1>1, <1>3 DEF CostAt
<1>5. Debt(s) = 1
  BY <1>4 DEF Debt
<1> QED
  BY <1>1, <1>2, <1>5 DEF s

LEMMA DebtTwo ==
  ASSUME NEW f \in PlFrames, NEW g \in PlFrames
  PROVE  LET s == pl_tx(f) \o pl_tx(g)
         IN  /\ s \in Seq(Calls) /\ Len(s) = 4 /\ Debt(s) = 2
             /\ \A i \in 1 .. 4 : s[i].call # "decode_rf"
<1> DEFINE a == pl_tx(f)
           b == pl_tx(g)
           s == a \o b
<1>1. /\ a \in Seq(Calls) /\ Len(a) = 2 /\ Debt(a) = 1
      /\ b \in Seq(Calls) /\ Len(b) = 2 /\ Debt(b) = 1
      /\ \A i \in 1 .. 2 : a[i].call # "decode_rf" /\ b[i].call # "decode_rf"
  BY DebtTx
<1> HIDE DEF a, b, s
<1>2. /\ s \in Seq(Calls) /\ Len(s) = 4
      /\ \A i \in 1 .. 2 : s[i] = a[i] /\ s[2 + i] = b[i]
  <2>1. Len(a) + Len(b) = 4 /\ 1 .. Len(a) = 1 .. 2 /\ 1 .. Len(b) = 1 .. 2
    BY <1>1
  <2> QED
    BY <1>1, <2>1, ConcatProperties DEF s
<1>3. \A i \in 1 .. 4 : s[i].call # "decode_rf"
  <2>1. \A i \in 1 .. 4 : i \in 1 .. 2 \/ (i - 2 \in 1 .. 2 /\ 2 + (i - 2) = i)
    OBVIOUS
  <2> QED
    BY <1>1, <1>2, <2>1
<1>4. Debt(s) = 2
  <2>1. Len(a) + Len(b) <= 6
    BY <1>1
  <2>2. Debt(s) = Debt(a) + Debt(b)
    BY <1>1, <2>1, DebtConcat DEF s
  <2> QED
    BY <1>1, <2>2
<1> QED
  BY <1>2, <1>3, <1>4 DEF a, b, s

\* The repeaters of one RF command make three writes at most, and decode no RF.
LEMMA DebtRepeaters ==
  ASSUME NEW c \in Cmds
  PROVE  LET s == repeatRF(c) \o RfToPl(c)
         IN  /\ s \in Seq(Calls) /\ Len(s) <= 5 /\ Debt(s) <= 3
             /\ \A i \in 1 .. Len(s) : s[i].call # "decode_rf"
<1> DEFINE a == repeatRF(c)
           b == RfToPl(c)
           s == a \o b
<1>0. a \in Seq(Calls) /\ b \in Seq(Calls)
  BY RepeatersType
<1>1. /\ Len(a) <= 1 /\ Debt(a) <= 1
      /\ \A i \in 1 .. Len(a) : a[i].call # "decode_rf"
  <2>1. CASE RfToRf16
    <3>1. Len(a) = 1 /\ a[1] = WriteRf([c EXCEPT !.own = TRUE])
      BY <2>1 DEF repeatRF
    <3> HIDE DEF a
    <3>2. Cost(a[1]) = 1 /\ \A i \in 1 .. 1 : a[i].call # "decode_rf"
      BY <3>1 DEF Cost, Writes, WriteRf
    <3> QED
      BY <3>1, <3>2 DEF Debt, CostAt
  <2>2. CASE ~RfToRf16
    <3>1. a = <<>> /\ Len(<<>>) = 0
      BY <2>2 DEF repeatRF
    <3> HIDE DEF a
    <3> QED
      BY <3>1, DebtEmpty
  <2> QED
    BY <2>1, <2>2
<1>2. /\ Len(b) <= 4 /\ Debt(b) <= 2
      /\ \A i \in 1 .. Len(b) : b[i].call # "decode_rf"
  <2>1. /\ c.house \in Houses /\ c.unit \in Units
        /\ c.kind \in {"on", "off", "dim", "other"}
    BY CmdFields
  <2>2. /\ Addr(c.house, c.unit) \in PlFrames /\ Dim(c.house) \in PlFrames
        /\ Func(c.house, 2) \in PlFrames /\ Func(c.house, 3) \in PlFrames
    BY <2>1, FrameTypes, OnOffAssumption
  <2>3. CASE b = <<>>
    BY <2>3, DebtEmpty
  <2>4. CASE b = pl_tx(Dim(c.house))
    <3>1. /\ Len(b) = 2 /\ Debt(b) = 1
          /\ \A i \in 1 .. 2 : b[i].call # "decode_rf"
      BY <2>2, <2>4, DebtTx
    <3> HIDE DEF b
    <3> QED
      BY <3>1
  <2>5. CASE \E f \in {2, 3} : b = pl_tx(Addr(c.house, c.unit)) \o pl_tx(Func(c.house, f))
    <3>1. PICK f \in {2, 3} : b = pl_tx(Addr(c.house, c.unit)) \o pl_tx(Func(c.house, f))
      BY <2>5
    <3>2. Func(c.house, f) \in PlFrames
      BY <2>2
    <3>3. /\ Len(b) = 4 /\ Debt(b) = 2
          /\ \A i \in 1 .. 4 : b[i].call # "decode_rf"
      BY <2>2, <3>1, <3>2, DebtTwo
    <3> HIDE DEF b
    <3> QED
      BY <3>3
  <2> QED
    BY <2>1, <2>3, <2>4, <2>5 DEF RfToPl
<1> HIDE DEF a, b
<1>3. /\ s \in Seq(Calls) /\ Len(s) = Len(a) + Len(b)
      /\ Len(a) \in Nat /\ Len(b) \in Nat
      /\ \A i \in 1 .. Len(a) : s[i] = a[i]
      /\ \A i \in 1 .. Len(b) : s[Len(a) + i] = b[i]
  BY <1>0, ConcatProperties
<1>4. Debt(s) = Debt(a) + Debt(b)
  BY <1>0, <1>1, <1>2, <1>3, DebtConcat
<1> HIDE DEF s
<1>5. ASSUME NEW i \in 1 .. Len(s) PROVE s[i].call # "decode_rf"
  <2>1. i \in 1 .. Len(a) \/ (i - Len(a) \in 1 .. Len(b) /\ Len(a) + (i - Len(a)) = i)
    BY <1>3
  <2> QED
    BY <1>1, <1>2, <1>3, <2>1
<1>6. Debt(s) <= 3 /\ Len(s) <= 5
  <2>1. Debt(a) \in Nat /\ Debt(b) \in Nat
    BY CostType
  <2> QED
    BY <1>1, <1>2, <1>3, <1>4, <2>1
<1> QED
  BY <1>3, <1>5, <1>6 DEF s, a, b

LEMMA StormCall ==
  ASSUME NEW calls \in Seq(Calls), NEW callsNext, NEW gaveUp, Perform(calls, callsNext, gaveUp),
         Short(calls), written \in Nat
  PROVE  /\ Short(callsNext) /\ written' \in Nat
         /\ written' + Debt(callsNext) <= written + Debt(calls)
         /\ UNCHANGED <<commands, packets>>
<1> DEFINE c == Head(calls)
           rest == Tail(calls)
<1>1. /\ calls # <<>> /\ c \in Calls /\ rest \in Seq(Calls)
      /\ c = calls[1] /\ Len(calls) \in Nat \ {0} /\ Len(rest) = Len(calls) - 1
  BY HeadTailProperties DEF Perform
<1>2. /\ Debt(rest) = Debt(calls) - Cost(c) /\ Short(rest)
      /\ \A i \in 1 .. Len(rest) : rest[i].call # "decode_rf"
  BY <1>1, DebtTail
<1>3. Debt(rest) \in Nat /\ Debt(calls) \in Nat /\ Debt(callsNext) \in Nat
  BY CostType
<1>4. UNCHANGED <<commands, packets>>
  BY DEF Perform
<1> HIDE DEF c, rest
<1>5. CASE c.call = "decode_plc" /\ cm15a_decode_plc(c.frame, rest) /\ callsNext = rest
  <2>1. Cost(c) = 0
    BY <1>5 DEF Cost, Writes
  <2>2. written' = written
    BY <1>5 DEF cm15a_decode_plc
  <2> QED
    BY <1>2, <1>3, <1>4, <1>5, <2>1, <2>2
<1>6. CASE c.call = "decode_rf" /\ cm15a_decode_rf(c.frame, rest, callsNext)
  <2>1. Cost(c) = 3 /\ c.frame \in Cmds
    BY <1>1, <1>6 DEF Cost, Calls, WriteRaw
  <2>2. written' = written
    BY <1>6 DEF cm15a_decode_rf
  <2>3. Len(rest) <= 1
    BY <1>1, <1>6 DEF Short
  <2>4. CASE callsNext = rest
    BY <1>2, <1>3, <1>4, <2>1, <2>2, <2>4
  <2>5. CASE callsNext = repeatRF(c.frame) \o RfToPl(c.frame) \o rest
    <3> DEFINE s == repeatRF(c.frame) \o RfToPl(c.frame)
    <3>1. /\ s \in Seq(Calls) /\ Len(s) <= 5 /\ Debt(s) <= 3
          /\ \A i \in 1 .. Len(s) : s[i].call # "decode_rf"
      BY <2>1, DebtRepeaters
    <3> HIDE DEF s
    <3>2. callsNext = s \o rest
      BY <2>5 DEF s
    <3>3. Len(s) \in Nat /\ Len(rest) \in Nat /\ Len(s) + Len(rest) <= 6
      BY <1>1, <2>3, <3>1
    <3>4. Debt(callsNext) = Debt(s) + Debt(rest) /\ Debt(s) \in Nat
      BY <1>1, <3>1, <3>2, <3>3, DebtConcat, CostType
    <3>5. /\ Len(callsNext) = Len(s) + Len(rest)
          /\ \A i \in 1 .. Len(s) : callsNext[i] = s[i]
          /\ \A i \in 1 .. Len(rest) : callsNext[Len(s) + i] = rest[i]
      BY <1>1, <3>1, <3>2, ConcatProperties
    <3>6. ASSUME NEW i \in 1 .. Len(callsNext) PROVE callsNext[i].call # "decode_rf"
      <4>1. \/ i \in 1 .. Len(s)
            \/ i - Len(s) \in 1 .. Len(rest) /\ Len(s) + (i - Len(s)) = i
        BY <3>3, <3>5
      <4> QED
        BY <1>2, <3>1, <3>5, <4>1
    <3>7. Short(callsNext)
      BY <3>3, <3>5, <3>6 DEF Short
    <3> QED
      BY <1>2, <1>3, <1>4, <2>1, <2>2, <3>1, <3>4, <3>7
  <2> QED
    BY <1>6, <2>4, <2>5 DEF cm15a_decode_rf
<1>7. CASE c.call \in Writes /\ x10_write(c, gaveUp) /\ callsNext = rest
  <2>1. Cost(c) = 1
    BY <1>7 DEF Cost, Writes
  <2>2. written' = written + 1
    BY <1>7 DEF x10_write
  <2> QED
    BY <1>2, <1>3, <1>4, <1>7, <2>1, <2>2
<1> QED
  BY <1>5, <1>6, <1>7 DEF Perform, c, rest

\* The branches of processcommandline make four writes at most.
LEMMA CommandsShort ==
  ASSUME CallsOK, Pl \/ Rf \/ Pt
  PROVE  Short(todo') /\ Debt(todo') <= 4
<1>1. CASE Pl
  <2>1. \/ \E f \in PlFrames : todo' = pl_tx(f)
        \/ \E a, f \in PlFrames : todo' = pl_tx(a) \o pl_tx(f)
    BY <1>1, PlAsks
  <2>2. ASSUME NEW f \in PlFrames, todo' = pl_tx(f)
        PROVE  Short(todo') /\ Debt(todo') <= 4
    <3>1. /\ Len(todo') = 2 /\ Debt(todo') = 1
          /\ \A i \in 1 .. 2 : todo'[i].call # "decode_rf"
      BY <2>2, DebtTx
    <3> QED
      BY <3>1 DEF Short
  <2>3. ASSUME NEW f \in PlFrames, NEW g \in PlFrames, todo' = pl_tx(f) \o pl_tx(g)
        PROVE  Short(todo') /\ Debt(todo') <= 4
    <3>1. /\ Len(todo') = 4 /\ Debt(todo') = 2
          /\ \A i \in 1 .. 4 : todo'[i].call # "decode_rf"
      BY <2>3, DebtTwo
    <3> QED
      BY <3>1 DEF Short
  <2> QED
    BY <2>1, <2>2, <2>3
<1>2. CASE Rf
  <2>1. PICK c \in Cmds : todo' = <<Decode_rf(c), WriteRf(c)>>
    BY <1>2 DEF Rf
  <2>2. Len(todo') = 2 /\ todo'[1] = Decode_rf(c) /\ todo'[2] = WriteRf(c)
    BY <2>1
  <2>3. todo'[1].call = "decode_rf" /\ todo'[2].call = "write_rf"
    BY <2>2 DEF Decode_rf, WriteRf
  <2>4. Cost(todo'[1]) = 3 /\ Cost(todo'[2]) = 1
    BY <2>3 DEF Cost, Writes
  <2>5. /\ CostAt(todo', 1) = 3 /\ CostAt(todo', 2) = 1 /\ CostAt(todo', 3) = 0
        /\ CostAt(todo', 4) = 0 /\ CostAt(todo', 5) = 0 /\ CostAt(todo', 6) = 0
    BY <2>2, <2>4 DEF CostAt
  <2>6. Debt(todo') = 4
    BY <2>5 DEF Debt
  <2> QED
    BY <2>2, <2>3, <2>6 DEF Short
<1>3. CASE Pt
  <2>1. Len(todo') = 1 /\ todo'[1] = WriteRaw
    BY <1>3 DEF Pt
  <2>2. todo'[1].call = "write_raw"
    BY <2>1 DEF WriteRaw
  <2>3. Cost(todo'[1]) = 1
    BY <2>2 DEF Cost, Writes
  <2>4. /\ CostAt(todo', 1) = 1 /\ CostAt(todo', 2) = 0 /\ CostAt(todo', 3) = 0
        /\ CostAt(todo', 4) = 0 /\ CostAt(todo', 5) = 0 /\ CostAt(todo', 6) = 0
    BY <2>1, <2>3 DEF CostAt
  <2>5. Debt(todo') = 1
    BY <2>4 DEF Debt
  <2> QED
    BY <2>1, <2>2, <2>5 DEF Short
<1> QED
  BY <1>1, <1>2, <1>3

\* A PL packet makes the daemon write nothing, an RF packet three frames at most.
LEMMA PacketsShort ==
  ASSUME PlPacket \/ RfPacket
  PROVE  /\ Short(cbTodo')
         /\ PlPacket => Debt(cbTodo') = 0
         /\ RfPacket => Debt(cbTodo') <= 3
<1>1. ASSUME NEW c, cbTodo' = <<c>>, c.call \in {"decode_plc", "decode_rf"}
      PROVE  /\ Short(cbTodo')
             /\ Debt(cbTodo') = IF c.call = "decode_plc" THEN 0 ELSE 3
  <2>1. Len(cbTodo') = 1 /\ cbTodo'[1] = c
    BY <1>1
  <2>2. Cost(c) = IF c.call = "decode_plc" THEN 0 ELSE 3
    BY <1>1 DEF Cost, Writes
  <2>3. /\ CostAt(cbTodo', 1) = Cost(c) /\ CostAt(cbTodo', 2) = 0 /\ CostAt(cbTodo', 3) = 0
        /\ CostAt(cbTodo', 4) = 0 /\ CostAt(cbTodo', 5) = 0 /\ CostAt(cbTodo', 6) = 0
    BY <2>1 DEF CostAt
  <2> QED
    BY <2>1, <2>2, <2>3 DEF Debt, Short
<1>2. CASE PlPacket
  <2>1. PICK f : cbTodo' = <<Decode_plc(f)>> /\ Decode_plc(f).call = "decode_plc"
    BY <1>2 DEF PlPacket, Decode_plc
  <2>2. Debt(cbTodo') = 0 /\ Short(cbTodo')
    BY <1>1, <2>1
  <2> QED
    BY <2>2
<1>3. CASE RfPacket
  <2>1. PICK f : cbTodo' = <<Decode_rf(f)>> /\ Decode_rf(f).call = "decode_rf"
    BY <1>3 DEF RfPacket, Decode_rf
  <2>2. Debt(cbTodo') = 3 /\ Short(cbTodo')
    BY <1>1, <2>1
  <2>3. ~PlPacket
    <3>1. \A g : Decode_plc(g).call = "decode_plc"
      BY DEF Decode_plc
    <3>2. Head(cbTodo').call = "decode_rf"
      BY <2>1
    <3>3. PlPacket => Head(cbTodo').call = "decode_plc"
      BY <3>1 DEF PlPacket
    <3> QED
      BY <3>2, <3>3
  <2> QED
    BY <2>2, <2>3
<1> QED
  BY <1>2, <1>3

LEMMA StormStep == CallsOK /\ StormInv /\ [GatewayNext]_gatewayVars => StormInv'
<1> SUFFICES ASSUME CallsOK, StormInv, [GatewayNext]_gatewayVars PROVE StormInv'
  OBVIOUS
<1>0. /\ commands \in Nat /\ packets \in Nat /\ written \in Nat
      /\ Short(todo) /\ Short(cbTodo)
      /\ written + Debt(todo) + Debt(cbTodo) <= 4 * commands + 3 * packets
  BY DEF StormInv
<1>a. /\ Debt(todo) \in Nat /\ Debt(cbTodo) \in Nat
      /\ Debt(todo') \in Nat /\ Debt(cbTodo') \in Nat
  BY CostType
<1>1. CASE MainCall
  <2>1. UNCHANGED cbTodo /\ \E gaveUp : Perform(todo, todo', gaveUp)
    BY <1>1 DEF MainCall
  <2>2. /\ Short(todo') /\ written' \in Nat
        /\ written' + Debt(todo') <= written + Debt(todo)
        /\ UNCHANGED <<commands, packets>>
    BY <1>0, <2>1, StormCall DEF CallsOK
  <2> QED
    BY <1>0, <1>a, <2>1, <2>2 DEF StormInv
<1>2. CASE CbCall
  <2>1. UNCHANGED todo /\ \E gaveUp : Perform(cbTodo, cbTodo', gaveUp)
    BY <1>2 DEF CbCall
  <2>2. /\ Short(cbTodo') /\ written' \in Nat
        /\ written' + Debt(cbTodo') <= written + Debt(cbTodo)
        /\ UNCHANGED <<commands, packets>>
    BY <1>0, <2>1, StormCall DEF CallsOK
  <2> QED
    BY <1>0, <1>a, <2>1, <2>2 DEF StormInv
<1>3. CASE Pl \/ Rf \/ Pt
  <2>1. /\ todo = <<>> /\ UNCHANGED <<cbTodo, written, packets>>
        /\ commands' = commands + 1
    BY <1>3 DEF Pl, Rf, Pt, Command, unprocessed, Idle
  <2>2. Debt(todo) = 0 /\ Short(todo') /\ Debt(todo') <= 4
    BY <1>3, <2>1, CommandsShort, DebtEmpty
  <2> QED
    BY <1>0, <1>a, <2>1, <2>2 DEF StormInv
<1>4. CASE \/ RfToPlCommand \/ RfToRfCommand \/ St0 \/ Wait \/ Take \/ GiveUp
           \/ UNCHANGED gatewayVars
  <2>1. UNCHANGED <<todo, cbTodo, written, commands, packets>>
    BY <1>4 DEF RfToPlCommand, RfToRfCommand, St0, Order, Wait, Take, GiveUp, unheard,
                unprocessed, gatewayVars
  <2> QED
    BY <1>0, <2>1 DEF StormInv
<1>5. CASE PlPacket \/ RfPacket
  <2>1. /\ cbTodo = <<>> /\ UNCHANGED <<todo, written, commands>>
        /\ PlPacket => packets' = packets
        /\ RfPacket => packets' = packets + 1
    BY <1>5 DEF PlPacket, RfPacket, AtRest, unheard
  <2>2. /\ Debt(cbTodo) = 0 /\ Short(cbTodo')
        /\ PlPacket => Debt(cbTodo') = 0
        /\ RfPacket => Debt(cbTodo') <= 3
    BY <1>5, <2>1, PacketsShort, DebtEmpty
  <2> QED
    BY <1>0, <1>a, <1>5, <2>1, <2>2 DEF StormInv
<1>6. CASE Hear
  <2>1. UNCHANGED <<todo, cbTodo, written, commands>> /\ packets' = packets + 1
    BY <1>6 DEF Hear, unheard
  <2> QED
    BY <1>0, <1>a, <2>1 DEF StormInv
<1> QED
  BY <1>1, <1>2, <1>3, <1>4, <1>5, <1>6 DEF GatewayNext

\* Four frames a command, three a packet: repeatRF transmits without decoding,
\* and what the RF to PL repeater decodes is PL, which nothing repeats
\* (cm15a_decode_rf, processcommandline).
THEOREM StormBound == GatewaySpec => []NoStorm
<1>1. GatewayInit => StormInv
  BY DebtEmpty DEF GatewayInit, StormInv
<1>2. CallsOK /\ StormInv /\ [GatewayNext]_gatewayVars => StormInv'
  BY StormStep
<1>3. StormInv => NoStorm
  <2> SUFFICES ASSUME StormInv PROVE NoStorm
    OBVIOUS
  <2>1. Debt(todo) \in Nat /\ Debt(cbTodo) \in Nat
    BY CostType
  <2> QED
    BY <2>1 DEF StormInv, NoStorm
<1> QED
  BY <1>1, <1>2, <1>3, CallsAreTyped, PTL DEF GatewaySpec

\* The calls that may still be performed: those that are left, and for an RF
\* command that is still to be decoded the five its repeaters can ask for.
DecodesRf(s) == \E i \in 1 .. Len(s) : s[i].call = "decode_rf"
CallsLeft(s) == IF DecodesRf(s) THEN Len(s) + 5 ELSE Len(s)

LEMMA FewCallsLeft ==
  ASSUME NEW s \in Seq(Calls), Short(s)
  PROVE  CallsLeft(s) \in 0 .. 7
<1>1. Len(s) \in Nat /\ Len(s) <= 6
  BY DEF Short
<1>2. DecodesRf(s) => Len(s) <= 2
  BY DEF Short, DecodesRf
<1>3. CASE DecodesRf(s)
  BY <1>1, <1>2, <1>3 DEF CallsLeft
<1>4. CASE ~DecodesRf(s)
  <2>1. CallsLeft(s) = Len(s)
    BY <1>4, Zenon DEF CallsLeft
  <2>2. \A m \in Nat : m <= 6 => m \in 0 .. 7
    OBVIOUS
  <2> QED
    BY <1>1, <2>1, <2>2
<1> QED
  BY <1>3, <1>4

\* A call leaves less to be done, also when it asks for others.
LEMMA CallShrinks ==
  ASSUME NEW calls \in Seq(Calls), NEW callsNext, NEW gaveUp, Perform(calls, callsNext, gaveUp), Short(calls)
  PROVE  CallsLeft(callsNext) < CallsLeft(calls)
<1> DEFINE c == Head(calls)
           rest == Tail(calls)
<1>1. /\ calls # <<>> /\ c \in Calls /\ rest \in Seq(Calls)
      /\ c = calls[1] /\ Len(calls) \in Nat \ {0} /\ Len(rest) = Len(calls) - 1
  BY HeadTailProperties DEF Perform
<1>2. \A i \in 1 .. Len(rest) : rest[i].call # "decode_rf"
  BY <1>1, DebtTail
<1> HIDE DEF c, rest
<1>3. CallsLeft(rest) = Len(rest)
  BY <1>2 DEF CallsLeft, DecodesRf
<1>4. CASE callsNext = rest
  <2>1. CallsLeft(calls) \in {Len(calls), Len(calls) + 5}
    BY DEF CallsLeft
  <2> QED
    BY <1>1, <1>3, <1>4, <2>1
<1>5. CASE /\ c.call = "decode_rf"
           /\ callsNext = repeatRF(c.frame) \o RfToPl(c.frame) \o rest
  <2>1. CallsLeft(calls) = Len(calls) + 5
    <3>1. 1 \in 1 .. Len(calls) /\ calls[1].call = "decode_rf"
      BY <1>1, <1>5
    <3> QED
      BY <3>1 DEF CallsLeft, DecodesRf
  <2>2. c.frame \in Cmds
    BY <1>1, <1>5 DEF Calls, WriteRaw
  <2> DEFINE s == repeatRF(c.frame) \o RfToPl(c.frame)
  <2>3. /\ s \in Seq(Calls) /\ Len(s) <= 5
        /\ \A i \in 1 .. Len(s) : s[i].call # "decode_rf"
    BY <2>2, DebtRepeaters
  <2> HIDE DEF s
  <2>4. callsNext = s \o rest
    BY <1>5 DEF s
  <2>5. /\ Len(callsNext) = Len(s) + Len(rest)
        /\ \A i \in 1 .. Len(s) : callsNext[i] = s[i]
        /\ \A i \in 1 .. Len(rest) : callsNext[Len(s) + i] = rest[i]
    BY <1>1, <2>3, <2>4, ConcatProperties
  <2>6. Len(s) \in Nat /\ Len(rest) \in Nat
    BY <1>1, <2>3
  <2>7. ASSUME NEW i \in 1 .. Len(callsNext) PROVE callsNext[i].call # "decode_rf"
    <3>1. \/ i \in 1 .. Len(s)
          \/ i - Len(s) \in 1 .. Len(rest) /\ Len(s) + (i - Len(s)) = i
      BY <2>5, <2>6
    <3> QED
      BY <1>2, <2>3, <2>5, <3>1
  <2>8. CallsLeft(callsNext) = Len(s) + Len(rest)
    BY <2>5, <2>7 DEF CallsLeft, DecodesRf
  <2> QED
    BY <1>1, <2>1, <2>3, <2>6, <2>8
<1> QED
  BY <1>4, <1>5 DEF Perform, cm15a_decode_rf, c, rest

\* The routines that call each other come to an end: what a command or a packet
\* can still make them do is never more than seven calls, and each call that
\* is performed leaves less, whatever the repeaters are set to and the filter
\* lets through (cm15a_decode_rf, repeatRF, processcommandline).
THEOREM RecursionEnds ==
  GatewaySpec =>
    /\ [](CallsLeft(todo) <= 7 /\ CallsLeft(cbTodo) <= 7)
    /\ [][/\ MainCall => CallsLeft(todo') < CallsLeft(todo) /\ UNCHANGED cbTodo
          /\ CbCall => CallsLeft(cbTodo') < CallsLeft(cbTodo) /\ UNCHANGED todo
         ]_gatewayVars
<1>1. GatewaySpec => []StormInv
  <2>1. GatewayInit => StormInv
    BY DebtEmpty DEF GatewayInit, StormInv
  <2> QED
    BY <2>1, StormStep, CallsAreTyped, PTL DEF GatewaySpec
<1>2. CallsOK /\ StormInv => CallsLeft(todo) <= 7 /\ CallsLeft(cbTodo) <= 7
  <2> SUFFICES ASSUME CallsOK, StormInv
               PROVE  CallsLeft(todo) <= 7 /\ CallsLeft(cbTodo) <= 7
    OBVIOUS
  <2>1. CallsLeft(todo) \in 0 .. 7 /\ CallsLeft(cbTodo) \in 0 .. 7
    BY FewCallsLeft DEF CallsOK, StormInv
  <2> QED
    BY <2>1
<1>3. CallsOK /\ StormInv =>
        [/\ MainCall => CallsLeft(todo') < CallsLeft(todo) /\ UNCHANGED cbTodo
         /\ CbCall => CallsLeft(cbTodo') < CallsLeft(cbTodo) /\ UNCHANGED todo
        ]_gatewayVars
  BY CallShrinks DEF CallsOK, StormInv, MainCall, CbCall
<1> QED
  BY <1>1, <1>2, <1>3, CallsAreTyped, PTL DEF GatewaySpec

-----------------------------------------------------------------------------
(***************************************************************************)
(* The state of the modules.  An RF command is booked in the tables when   *)
(* it is decoded; its address and its function are frames of the line that *)
(* follow.  In between, the tables know every other unit, and the address  *)
(* and the function are the next frames they will see.                     *)
(*                                                                         *)
(* The tables may select fewer units than the line does, after ST 0, but   *)
(* never others, and X10protostate says that a selection is closed only if *)
(* the line has closed it.                                                 *)
(***************************************************************************)

OnLine(h) == SelectedAfter(seen, h, Len(seen))
Selects(h) ==
  /\ HouseUnitSelected[h] \subseteq OnLine(h)
  /\ X10protostate[h] = 1 => Closed(seen, h)
  /\ X10protostate[h] = 0 /\ Closed(seen, h) => HouseUnitSelected[h] = {}
Knows(h, u) == HouseUnitState[h][u] \in {Unknown, StatusAfter(seen, h, u)}

Clean == \A h \in Houses : Selects(h) /\ \A u \in Units : Knows(h, u)

\* Unit b of house h has been switched in the tables and not on the line.
Booked(h, b, f) ==
  /\ HouseUnitSelected[h] = {b}
  /\ HouseUnitState[h][b] = IF f = 2 THEN On ELSE Off
  /\ \A g \in Houses, u \in Units : <<g, u>> # <<h, b>> => Knows(g, u)
  /\ \A g \in Houses \ {h} : Selects(g)
Announced(h, b, f) == Booked(h, b, f) /\ X10protostate[h] = 1
Addressed(h, b, f) ==
  /\ Booked(h, b, f)
  /\ X10protostate[h] = 0 /\ ~Closed(seen, h) /\ b \in OnLine(h)

\* The next frame the calls s show to the tables, apart from one write.
First(s, fr) == s # <<>> /\ Head(s) = Decode_plc(fr)
FuncSoon(s, h, f) ==
  \/ First(s, Func(h, f))
  \/ s # <<>> /\ Head(s).call \in Writes /\ First(Tail(s), Func(h, f))
AddrFirst(s, h, b, f) == First(s, Addr(h, b)) /\ FuncSoon(Tail(s), h, f)
AddrSoon(s, h, b, f) ==
  \/ AddrFirst(s, h, b, f)
  \/ s # <<>> /\ Head(s).call \in Writes /\ AddrFirst(Tail(s), h, b, f)

Recorded == seen \in Seq(Ops) /\ \A h \in Houses, u \in Units : HasLatest(seen, h, u)

KnowInv ==
  apart = {} =>
    /\ Recorded /\ (todo = <<>> \/ cbTodo = <<>>)
    /\ \/ Clean
       \/ \E h \in Houses, b \in Units, f \in {2, 3} :
            \/ Announced(h, b, f) /\ AddrSoon(Left, h, b, f)
            \/ Addressed(h, b, f) /\ FuncSoon(Left, h, f)

\* A frame that leaves no reason to disagree performs an operation.
LEMMA FramePerforms ==
  ASSUME TypeOK, NEW fr \in PlFrames, NEW rest, cm15a_decode_plc(fr, rest), apart' = {}
  PROVE  LET o == AsOp(fr)
         IN  /\ o \in Ops /\ o.op # "ext" /\ o.house = fr.house
             /\ Performs(o)
             /\ seen' = Append(seen, o)
             /\ o.op \in {"on", "off"} =>
                  \A u \in OnLine(fr.house) \ HouseUnitSelected[fr.house] :
                    HouseUnitState[fr.house][u] = Unknown
<1> DEFINE o == AsOp(fr)
<1>1. /\ {o.op} \cap {"other", "ext"} = {} /\ Forgotten(fr) = {}
      /\ seen' = Append(seen, o)
  BY DEF cm15a_decode_plc
<1>2. o.op # "other" /\ o.op # "ext"
  BY <1>1
<1>3. o.op \in {"on", "off"} =>
        \A u \in OnLine(fr.house) \ HouseUnitSelected[fr.house] :
          HouseUnitState[fr.house][u] = Unknown
  <2>1. "forgotten" \notin Forgotten(fr)
    BY <1>1
  <2> QED
    BY <2>1 DEF Forgotten, OnLine
<1>4. \A n, h, u, x : Op(n, h, u, x).op = n /\ Op(n, h, u, x).house = h
  BY DEF Op
<1>5. CASE fr.kind = "addr"
  <2>1. o = Op("addr", fr.house, fr.unit, 0) /\ PlHouseUnit(fr.house, fr.unit)
    BY <1>5 DEF AsOp, cm15a_decode_plc
  <2>2. o \in Ops /\ Performs(o)
    BY <1>5, <2>1, FrameFields, AddressPerforms
  <2> QED
    BY <1>1, <1>2, <1>3, <1>4, <2>1, <2>2
<1>6. CASE fr.kind = "func"
  <2>1. PlHouseFunc(fr.house, fr.arg)
    BY <1>6 DEF cm15a_decode_plc
  <2>2. fr.arg \in ActingFuncs
    BY <1>2, <1>4, <1>6 DEF AsOp, ActingFuncs
  <2>3. o = FuncOp(fr.house, fr.arg)
    BY <1>6, <2>2 DEF AsOp, FuncOp, ActingFuncs, AllOffFuncs, AllOnFuncs, OnFuncs,
                      OffFuncs
  <2>4. o \in Ops /\ Performs(o)
    <3>1. fr.house \in Houses
      BY FrameFields
    <3>2. FuncOp(fr.house, fr.arg) \in Ops /\ Performs(FuncOp(fr.house, fr.arg))
      BY <2>1, <2>2, <3>1, HouseFuncPerforms
    <3> HIDE DEF o
    <3> QED
      BY <2>3, <3>2 DEF Performs
  <2>5. o.house = fr.house
    BY <1>4, <2>3 DEF FuncOp
  <2> QED
    BY <1>1, <1>2, <1>3, <2>4, <2>5
<1>7. CASE fr.kind \in {"dim", "ext"}
  BY <1>2, <1>4, <1>7 DEF AsOp
<1> QED
  BY <1>5, <1>6, <1>7, FrameFields

\* The selection of a house stays the line's.
LEMMA SelectsStep ==
  ASSUME TypeOK, seen \in Seq(Ops), NEW o \in Ops, o.op # "ext",
         seen' = Append(seen, o), Performs(o),
         NEW g \in Houses
  PROVE  /\ OnLine(g)' = SelectedBy(o, g, OnLine(g), Closed(seen, g))
         /\ Closed(seen, g)' <=> IF o.house = g THEN o.op # "addr" ELSE Closed(seen, g)
         /\ Selects(g) => Selects(g)'
         /\ o.house = g /\ o.op # "addr" /\ HouseUnitSelected[g] \subseteq OnLine(g)
              => Selects(g)'
<1>1. OnLine(g)' = SelectedBy(o, g, OnLine(g), Closed(seen, g))
  BY AppendSelected DEF OnLine
<1>2. Closed(seen, g)' <=> IF o.house = g THEN o.op # "addr" ELSE Closed(seen, g)
  BY AppendRestartsLast
<1>3. /\ HouseUnitSelected'[g]
           = SelectedBy(o, g, HouseUnitSelected[g], X10protostate[g] = 1)
      /\ X10protostate'[g] = ProtoBy(o, g, X10protostate[g])
  BY DEF Performs
<1>4. X10protostate[g] \in {0, 1}
  BY DEF TypeOK
<1>5. ASSUME o.house = g, o.op # "addr", HouseUnitSelected[g] \subseteq OnLine(g)
      PROVE  Selects(g)'
  BY <1>1, <1>2, <1>3, <1>5 DEF Selects, SelectedBy, ProtoBy
<1>6. ASSUME Selects(g) PROVE Selects(g)'
  <2>1. CASE o.house # g
    BY <1>1, <1>2, <1>3, <1>6, <2>1 DEF Selects, SelectedBy, ProtoBy
  <2>2. CASE o.house = g /\ o.op # "addr"
    BY <1>5, <1>6, <2>2 DEF Selects
  <2>3. CASE o.house = g /\ o.op = "addr"
    <3>1. X10protostate'[g] = 0 /\ ~Closed(seen, g)'
      BY <1>2, <1>3, <2>3 DEF ProtoBy
    <3>2. HouseUnitSelected'[g] \subseteq OnLine(g)'
      BY <1>1, <1>3, <1>4, <1>6, <2>3 DEF Selects, SelectedBy
    <3> QED
      BY <3>1, <3>2 DEF Selects
  <2> QED
    BY <2>1, <2>2, <2>3
<1> QED
  BY <1>1, <1>2, <1>5, <1>6

\* What the tables know of a unit stays right if they select no unit the line
\* does not select, and none is forgotten.
LEMMA KnowsStep ==
  ASSUME TypeOK, Recorded, NEW o \in Ops, o.op # "ext",
         seen' = Append(seen, o), Performs(o),
         NEW g \in Houses, NEW u \in Units,
         \/ o.house # g \/ o.op = "addr"
         \/ /\ HouseUnitSelected[g] \subseteq OnLine(g)
            /\ o.op \in {"on", "off"} =>
                 \A v \in OnLine(g) \ HouseUnitSelected[g] :
                   HouseUnitState[g][v] = Unknown
  PROVE  /\ HasLatest(seen, g, u)'
         /\ Knows(g, u) => Knows(g, u)'
         /\ ActsOn(o, g, u, HouseUnitSelected[g]) => Knows(g, u)'
<1>1. seen \in Seq(Ops) /\ HasLatest(seen, g, u)
  BY DEF Recorded
<1>2. /\ HasLatest(seen, g, u)'
      /\ StatusAfter(seen, g, u)' =
           IF ~ActsOn(o, g, u, OnLine(g)) THEN StatusAfter(seen, g, u)
           ELSE IF o.level > 0 THEN On ELSE Off
  BY <1>1, AppendUnit DEF OnLine
<1>3. HouseUnitState'[g][u] =
        IF ~ActsOn(o, g, u, HouseUnitSelected[g]) THEN HouseUnitState[g][u]
        ELSE IF o.level > 0 THEN On ELSE Off
  BY DEF Performs, StateBy
<1>4. ASSUME ActsOn(o, g, u, HouseUnitSelected[g]) PROVE Knows(g, u)'
  <2>1. ActsOn(o, g, u, OnLine(g))
    BY <1>4 DEF ActsOn
  <2> QED
    BY <1>2, <1>3, <1>4, <2>1 DEF Knows
<1>5. ASSUME Knows(g, u), ~ActsOn(o, g, u, HouseUnitSelected[g]) PROVE Knows(g, u)'
  <2>1. CASE ActsOn(o, g, u, OnLine(g))
    <3>1. HouseUnitState[g][u] = Unknown
      BY <1>5, <2>1 DEF ActsOn
    <3> QED
      BY <1>3, <1>5, <3>1 DEF Knows
  <2>2. CASE ~ActsOn(o, g, u, OnLine(g))
    BY <1>2, <1>3, <1>5, <2>2 DEF Knows
  <2> QED
    BY <2>1, <2>2
<1> QED
  BY <1>2, <1>4, <1>5

\* A frame while the tables know the modules.
LEMMA FrameWhenClean ==
  ASSUME TypeOK, Recorded, NEW fr \in PlFrames, NEW rest, cm15a_decode_plc(fr, rest), apart' = {},
         Clean
  PROVE  Recorded' /\ Clean'
<1> DEFINE o == AsOp(fr)
<1>1. /\ o \in Ops /\ o.op # "ext" /\ o.house = fr.house
      /\ Performs(o)
      /\ seen' = Append(seen, o)
      /\ o.op \in {"on", "off"} =>
           \A u \in OnLine(fr.house) \ HouseUnitSelected[fr.house] :
             HouseUnitState[fr.house][u] = Unknown
  BY FramePerforms
<1>2. seen \in Seq(Ops)
  BY DEF Recorded
<1> HIDE DEF o
<1>3. ASSUME NEW g \in Houses PROVE Selects(g)'
  BY <1>1, <1>2, <1>3, SelectsStep DEF Clean
<1>4. ASSUME NEW g \in Houses, NEW u \in Units
      PROVE  HasLatest(seen, g, u)' /\ Knows(g, u)'
  <2>1. HouseUnitSelected[g] \subseteq OnLine(g) /\ Knows(g, u)
    BY DEF Clean, Selects
  <2> QED
    BY <1>1, <2>1, KnowsStep
<1>5. seen' \in Seq(Ops)
  BY <1>1, <1>2
<1> QED
  BY <1>3, <1>4, <1>5 DEF Recorded, Clean

\* The address of the RF command that is booked.
LEMMA AddressWhenAnnounced ==
  ASSUME TypeOK, Recorded, NEW h \in Houses, NEW b \in Units, NEW f \in {2, 3},
         NEW rest, cm15a_decode_plc(Addr(h, b), rest), apart' = {}, Announced(h, b, f)
  PROVE  Recorded' /\ Addressed(h, b, f)'
<1> DEFINE o == AsOp(Addr(h, b))
<1>1. /\ Addr(h, b) \in PlFrames /\ Addr(h, b).house = h
      /\ o = Op("addr", h, b, 0)
  BY FrameTypes DEF Addr, PlFrame, AsOp
<1>2. /\ o \in Ops /\ o.op # "ext"
      /\ Performs(o)
      /\ seen' = Append(seen, o)
  BY <1>1, FramePerforms
<1>3. o.op = "addr" /\ o.house = h /\ o.unit = b
  BY <1>1 DEF Op
<1>4. seen \in Seq(Ops)
  BY DEF Recorded
<1> HIDE DEF o
<1>5. ASSUME NEW g \in Houses, NEW u \in Units
      PROVE  HasLatest(seen, g, u)' /\ (Knows(g, u) => Knows(g, u)')
  BY <1>2, <1>3, KnowsStep
<1>6. \A g \in Houses \ {h} : Selects(g)'
  BY <1>2, <1>4, SelectsStep DEF Announced, Booked
<1>7. b \in OnLine(h)' /\ ~Closed(seen, h)'
  <2>1. /\ OnLine(h)' = SelectedBy(o, h, OnLine(h), Closed(seen, h))
        /\ Closed(seen, h)' <=> IF o.house = h THEN o.op # "addr" ELSE Closed(seen, h)
    BY <1>2, <1>4, SelectsStep
  <2> QED
    BY <1>3, <2>1 DEF SelectedBy
<1>8. /\ HouseUnitSelected'[h] = {b} /\ X10protostate'[h] = 0
      /\ HouseUnitState'[h][b] = IF f = 2 THEN On ELSE Off
  <2>1. /\ HouseUnitSelected'[h]
             = SelectedBy(o, h, HouseUnitSelected[h], X10protostate[h] = 1)
        /\ X10protostate'[h] = ProtoBy(o, h, X10protostate[h])
        /\ HouseUnitState'[h][b]
             = StateBy(o, h, b, HouseUnitSelected[h], HouseUnitState[h][b])
    BY <1>2 DEF Performs
  <2>2. /\ X10protostate[h] = 1
        /\ HouseUnitState[h][b] = IF f = 2 THEN On ELSE Off
    BY DEF Announced, Booked
  <2> QED
    BY <1>3, <2>1, <2>2 DEF SelectedBy, ProtoBy, StateBy, ActsOn
<1>9. seen' \in Seq(Ops)
  BY <1>2, <1>4
<1> QED
  BY <1>5, <1>6, <1>7, <1>8, <1>9 DEF Recorded, Addressed, Announced, Booked

\* Its function: the line catches up.
LEMMA FunctionWhenAddressed ==
  ASSUME TypeOK, Recorded, NEW h \in Houses, NEW b \in Units, NEW f \in {2, 3},
         NEW rest, cm15a_decode_plc(Func(h, f), rest), apart' = {}, Addressed(h, b, f)
  PROVE  Recorded' /\ Clean'
<1> DEFINE o == AsOp(Func(h, f))
<1>1. /\ Func(h, f) \in PlFrames /\ Func(h, f).house = h
      /\ Func(h, f).kind = "func" /\ Func(h, f).arg = f
  BY OnOffAssumption, HouseFrameTypes DEF Func, PlFrame
<1>2. /\ o \in Ops /\ o.op # "ext" /\ o.house = h
      /\ Performs(o)
      /\ seen' = Append(seen, o)
      /\ o.op \in {"on", "off"} =>
           \A u \in OnLine(h) \ HouseUnitSelected[h] : HouseUnitState[h][u] = Unknown
  BY <1>1, FramePerforms
<1>3. o.op \in {"on", "off"}
  <2>1. o = Op("on", h, AnyUnit, FullDim) \/ o = Op("off", h, AnyUnit, 0)
    BY <1>1 DEF AsOp, AllOffFuncs, AllOnFuncs, OnFuncs, OffFuncs
  <2> QED
    BY <2>1 DEF Op
<1>4. seen \in Seq(Ops)
  BY DEF Recorded
<1> HIDE DEF o
<1>5. HouseUnitSelected[h] = {b} /\ HouseUnitSelected[h] \subseteq OnLine(h)
  BY DEF Addressed, Booked
<1>6. ASSUME NEW g \in Houses PROVE Selects(g)'
  <2>1. g # h => Selects(g)
    BY DEF Addressed, Booked
  <2> QED
    BY <1>2, <1>3, <1>4, <1>5, <2>1, SelectsStep
<1>7. ASSUME NEW g \in Houses, NEW u \in Units
      PROVE  HasLatest(seen, g, u)' /\ Knows(g, u)'
  <2>1. <<g, u>> # <<h, b>> => Knows(g, u)
    BY DEF Addressed, Booked
  <2>2. g = h /\ u = b => ActsOn(o, g, u, HouseUnitSelected[g])
    BY <1>2, <1>3, <1>5 DEF ActsOn
  <2>3. /\ HasLatest(seen, g, u)'
        /\ Knows(g, u) => Knows(g, u)'
        /\ ActsOn(o, g, u, HouseUnitSelected[g]) => Knows(g, u)'
    BY <1>2, <1>5, KnowsStep
  <2> QED
    BY <2>1, <2>2, <2>3
<1>8. seen' \in Seq(Ops)
  BY <1>2, <1>4
<1> QED
  BY <1>6, <1>7, <1>8 DEF Recorded, Clean

LEMMA TwoPairs ==
  ASSUME NEW w \in Calls, NEW x \in Calls, NEW y \in Calls, NEW z \in Calls
  PROVE  <<w, x>> \o <<y, z>> = <<w, x, y, z>>
<1> DEFINE s == <<w, x>> \o <<y, z>>
           t == <<w, x, y, z>>
<1>1. <<w, x>> \in Seq(Calls) /\ <<y, z>> \in Seq(Calls) /\ t \in Seq(Calls)
  OBVIOUS
<1>2. s \in Seq(Calls)
  BY <1>1, ConcatProperties
<1>3. Len(s) = 4 /\ Len(t) = 4
  BY <1>1
<1>4. s[1] = t[1] /\ s[2] = t[2] /\ s[3] = t[3] /\ s[4] = t[4]
  BY <1>1
<1>5. \A i \in 1 .. 4 : i \in {1, 2, 3, 4}
  OBVIOUS
<1>6. \A i \in 1 .. Len(s) : s[i] = t[i]
  BY <1>3, <1>4, <1>5
<1> HIDE DEF s, t
<1>7. s = t
  BY <1>1, <1>2, <1>3, <1>6, SeqEqual
<1> QED
  BY <1>7 DEF s, t

\* An RF ON or OFF is booked, and its repetition follows.
LEMMA RfWhenClean ==
  ASSUME TypeOK, NEW c \in Cmds, NEW rest \in Seq(Calls), NEW restNext,
         cm15a_decode_rf(c, rest, restNext), apart' = {}, Clean
  PROVE  \/ Clean'
         \/ \E h \in Houses, b \in Units, f \in {2, 3} :
              Announced(h, b, f)' /\ AddrSoon(restNext, h, b, f)
<1>1. c.house \in Houses /\ c.unit \in Units /\ c.kind \in {"on", "off", "dim", "other"}
  BY CmdFields
<1>2. seen' = seen
  BY DEF cm15a_decode_rf
<1>3. CASE UNCHANGED vars
  BY <1>2, <1>3 DEF vars, tables, Clean, Selects, Knows, OnLine
<1>4. CASE /\ restNext = repeatRF(c) \o RfToPl(c) \o rest
           /\ c.kind \in {"on", "off"}
           /\ RfHouseUnit(c.house, c.unit, IF c.kind = "on" THEN On ELSE Off)
           /\ apart' = apart \cup WhyApart(c)
  <2> DEFINE h == c.house
             b == c.unit
             f == IF c.kind = "on" THEN 2 ELSE 3
             func == IF c.kind = "on" THEN On ELSE Off
             t == <<Decode_plc(Addr(h, b)), WritePl(Addr(h, b)),
                    Decode_plc(Func(h, f)), WritePl(Func(h, f))>>
  <2>1. /\ RfToPl(c) # <<>>
        /\ X10protostate[h] = 0 => HouseUnitSelected[h] \subseteq {b}
    <3>1. "unrepeated" \notin WhyApart(c) /\ "joined" \notin WhyApart(c)
      BY <1>4
    <3> QED
      BY <1>4, <3>1 DEF WhyApart
  <2>2. RfToPl(c) = t
    <3>1. RfToPl(c) = pl_tx(Addr(h, b)) \o pl_tx(Func(h, f))
      BY <1>4, <2>1 DEF RfToPl
    <3>2. /\ Decode_plc(Addr(h, b)) \in Calls /\ WritePl(Addr(h, b)) \in Calls
          /\ Decode_plc(Func(h, f)) \in Calls /\ WritePl(Func(h, f)) \in Calls
      <4>1. Addr(h, b) \in PlFrames /\ Func(h, f) \in PlFrames
        BY <1>1, FrameTypes, OnOffAssumption
      <4> QED
        BY <4>1 DEF Decode_plc, WritePl, Calls
    <3>3. pl_tx(Addr(h, b)) \o pl_tx(Func(h, f)) = t
      BY <3>2, TwoPairs DEF pl_tx
    <3> QED
      BY <3>1, <3>3
  <2>3. AddrSoon(restNext, h, b, f)
    <3> DEFINE d1 == Decode_plc(Addr(h, b))
               w1 == WritePl(Addr(h, b))
               d2 == Decode_plc(Func(h, f))
               w2 == WritePl(Func(h, f))
               w == WriteRf([c EXCEPT !.own = TRUE])
    <3>1. w1.call \in Writes /\ w.call \in Writes
      BY DEF WritePl, WriteRf, Writes
    <3>2. d1 \in Calls /\ w1 \in Calls /\ d2 \in Calls /\ w2 \in Calls /\ w \in Calls
      <4>1. Addr(h, b) \in PlFrames /\ Func(h, f) \in PlFrames
        BY <1>1, FrameTypes, OnOffAssumption
      <4>2. [c EXCEPT !.own = TRUE] \in RfCommands
        BY RfAssumption DEF RfCommands
      <4> QED
        BY <4>1, <4>2 DEF Decode_plc, WritePl, WriteRf, Calls
    <3>3. restNext = IF RfToRf16 THEN <<w>> \o <<d1, w1, d2, w2>> \o rest
                     ELSE <<d1, w1, d2, w2>> \o rest
      <4>1. t \in Seq(Calls) /\ <<>> \o t = t
        BY <3>2
      <4> QED
        BY <1>4, <2>2, <4>1 DEF repeatRF
    <3> HIDE DEF d1, w1, d2, w2, w
    <3> DEFINE s == <<d1, w1, d2, w2>> \o rest
    <3>4. /\ s # <<>> /\ Head(s) = d1
          /\ Tail(s) # <<>> /\ Head(Tail(s)) = w1
          /\ Tail(Tail(s)) # <<>> /\ Head(Tail(Tail(s))) = d2
      BY <3>2
    <3>5. AddrFirst(s, h, b, f)
      BY <3>1, <3>4 DEF AddrFirst, First, FuncSoon, d1, d2
    <3>6. CASE ~RfToRf16
      BY <3>3, <3>5, <3>6 DEF AddrSoon
    <3>7. CASE RfToRf16
      <4>1. /\ restNext # <<>> /\ Head(restNext) = w /\ Tail(restNext) = s
        BY <3>2, <3>3, <3>7
      <4> QED
        BY <3>1, <3>5, <4>1 DEF AddrSoon
    <3> QED
      BY <3>6, <3>7
  <2>4. /\ HouseUnitSelected \in [Houses -> SUBSET Units]
        /\ X10protostate \in [Houses -> {0, 1}]
        /\ HouseUnitState \in [Houses -> [Units -> Status]]
    BY DEF TypeOK
  <2>5. /\ HouseUnitSelected' = [HouseUnitSelected EXCEPT ![h] = {b}]
        /\ X10protostate' = [X10protostate EXCEPT ![h] = 1]
        /\ HouseUnitState' = StateOf(h, {b}, func)
    <3>1. (IF X10protostate[h] = 0 THEN HouseUnitSelected[h] \cup {b} ELSE {b}) = {b}
      BY <2>1
    <3> QED
      BY <1>4, <3>1 DEF RfHouseUnit
  <2>6. /\ HouseUnitSelected'[h] = {b} /\ X10protostate'[h] = 1
        /\ HouseUnitState'[h][b] = IF f = 2 THEN On ELSE Off
    BY <1>1, <2>4, <2>5 DEF StateOf
  <2>7. ASSUME NEW g \in Houses, NEW u \in Units, <<g, u>> # <<h, b>>
        PROVE  Knows(g, u)'
    <3>1. HouseUnitState'[g][u] = HouseUnitState[g][u]
      BY <1>1, <2>4, <2>5, <2>7 DEF StateOf
    <3> QED
      BY <1>2, <3>1 DEF Clean, Knows
  <2>8. ASSUME NEW g \in Houses \ {h} PROVE Selects(g)'
    <3>1. /\ HouseUnitSelected'[g] = HouseUnitSelected[g]
          /\ X10protostate'[g] = X10protostate[g]
      BY <2>4, <2>5
    <3> QED
      BY <1>2, <3>1 DEF Clean, Selects, OnLine
  <2>9. Announced(h, b, f)'
    BY <2>6, <2>7, <2>8 DEF Announced, Booked
  <2>10. f \in {2, 3}
    OBVIOUS
  <2> HIDE DEF f
  <2> QED
    BY <1>1, <2>3, <2>9, <2>10
<1> QED
  BY <1>1, <1>3, <1>4 DEF cm15a_decode_rf, On, Off

\* One call, of the command or of the packet.
LEMMA KnowCall ==
  ASSUME TypeOK, NEW calls \in Seq(Calls), NEW callsNext, NEW gaveUp, Perform(calls, callsNext, gaveUp),
         Recorded, apart' = {},
         \/ Clean
         \/ \E h \in Houses, b \in Units, f \in {2, 3} :
              \/ Announced(h, b, f) /\ AddrSoon(calls, h, b, f)
              \/ Addressed(h, b, f) /\ FuncSoon(calls, h, f)
  PROVE  /\ Recorded'
         /\ \/ Clean'
            \/ \E h \in Houses, b \in Units, f \in {2, 3} :
                 \/ Announced(h, b, f)' /\ AddrSoon(callsNext, h, b, f)
                 \/ Addressed(h, b, f)' /\ FuncSoon(callsNext, h, f)
<1> DEFINE c == Head(calls)
           rest == Tail(calls)
<1>1. calls # <<>> /\ c \in Calls /\ rest \in Seq(Calls)
  BY HeadTailProperties DEF Perform
<1>2. CASE c.call = "decode_plc" /\ cm15a_decode_plc(c.frame, rest) /\ callsNext = rest
  <2>1. c.frame \in PlFrames
    BY <1>1, <1>2 DEF Calls, WriteRaw
  <2>2. CASE Clean
    BY <1>2, <2>1, <2>2, FrameWhenClean
  <2>3. ASSUME NEW h \in Houses, NEW b \in Units, NEW f \in {2, 3},
               Announced(h, b, f), AddrSoon(calls, h, b, f)
        PROVE  Recorded' /\ Addressed(h, b, f)' /\ FuncSoon(callsNext, h, f)
    <3>1. c = Decode_plc(Addr(h, b)) /\ FuncSoon(rest, h, f)
      BY <1>2, <2>3 DEF AddrSoon, AddrFirst, First, Writes
    <3>2. c.frame = Addr(h, b)
      BY <3>1 DEF Decode_plc
    <3>3. cm15a_decode_plc(Addr(h, b), rest)
      BY <1>2, <3>2
    <3> QED
      BY <1>2, <2>3, <3>1, <3>3, AddressWhenAnnounced
  <2>4. ASSUME NEW h \in Houses, NEW b \in Units, NEW f \in {2, 3},
               Addressed(h, b, f), FuncSoon(calls, h, f)
        PROVE  Recorded' /\ Clean'
    <3>1. c = Decode_plc(Func(h, f))
      BY <1>2, <2>4 DEF FuncSoon, First, Writes
    <3>2. c.frame = Func(h, f)
      BY <3>1 DEF Decode_plc
    <3>3. cm15a_decode_plc(Func(h, f), rest)
      BY <1>2, <3>2
    <3> QED
      BY <2>4, <3>3, FunctionWhenAddressed
  <2> QED
    BY <2>2, <2>3, <2>4
<1>3. CASE c.call = "decode_rf" /\ cm15a_decode_rf(c.frame, rest, callsNext)
  <2>1. c.frame \in Cmds
    BY <1>1, <1>3 DEF Calls, WriteRaw
  <2>2. seen' = seen
    BY <1>3 DEF cm15a_decode_rf
  <2>3. Recorded'
    BY <2>2 DEF Recorded
  <2>4. Clean
    BY <1>3 DEF AddrSoon, AddrFirst, FuncSoon, First, Writes, Decode_plc
  <2> QED
    BY <1>1, <1>3, <2>1, <2>3, <2>4, RfWhenClean
<1>4. CASE c.call \in Writes /\ x10_write(c, gaveUp) /\ callsNext = rest
  <2>1. UNCHANGED <<HouseUnitState, HouseUnitSelected, X10protostate, seen>>
    BY <1>4 DEF x10_write, vars, tables
  <2>2. Recorded' /\ (Clean => Clean')
    BY <2>1 DEF Recorded, Clean, Selects, Knows, OnLine
  <2>3. ASSUME NEW h \in Houses, NEW b \in Units, NEW f \in {2, 3}
        PROVE  /\ Announced(h, b, f) => Announced(h, b, f)'
               /\ Addressed(h, b, f) => Addressed(h, b, f)'
    BY <2>1 DEF Announced, Addressed, Booked, Selects, Knows, OnLine
  <2>4. ASSUME NEW h \in Houses, NEW b \in Units, NEW f \in {2, 3}
        PROVE  /\ AddrSoon(calls, h, b, f) => AddrSoon(callsNext, h, b, f)
               /\ FuncSoon(calls, h, f) => FuncSoon(callsNext, h, f)
    <3>1. \A fr : ~First(calls, fr)
      BY <1>4 DEF First, Writes, Decode_plc
    <3>2. callsNext = Tail(calls)
      BY <1>4
    <3>3. AddrSoon(calls, h, b, f) => AddrFirst(callsNext, h, b, f)
      BY <3>1, <3>2 DEF AddrSoon, AddrFirst
    <3>4. FuncSoon(calls, h, f) => First(callsNext, Func(h, f))
      BY <3>1, <3>2 DEF FuncSoon
    <3> QED
      BY <3>3, <3>4 DEF AddrSoon, FuncSoon
  <2>5. CASE Clean
    BY <2>2, <2>5
  <2>6. ASSUME NEW h \in Houses, NEW b \in Units, NEW f \in {2, 3},
               \/ Announced(h, b, f) /\ AddrSoon(calls, h, b, f)
               \/ Addressed(h, b, f) /\ FuncSoon(calls, h, f)
        PROVE  \/ Announced(h, b, f)' /\ AddrSoon(callsNext, h, b, f)
               \/ Addressed(h, b, f)' /\ FuncSoon(callsNext, h, f)
    BY <2>3, <2>4, <2>6
  <2> QED
    BY <2>2, <2>5, <2>6
<1> QED
  BY <1>2, <1>3, <1>4 DEF Perform

LEMMA NothingLeft ==
  ASSUME KnowInv, apart = {}, Left = <<>>
  PROVE  Recorded /\ Clean
BY DEF KnowInv, AddrSoon, AddrFirst, FuncSoon, First

LEMMA KnowStep ==
  TypeOK /\ CallsOK /\ KnowInv /\ [GatewayNext]_gatewayVars => KnowInv'
<1> SUFFICES ASSUME TypeOK, CallsOK, KnowInv, [GatewayNext]_gatewayVars, apart' = {}
             PROVE  KnowInv'
  BY DEF KnowInv
<1>1. /\ apart = {} /\ Recorded /\ (todo = <<>> \/ cbTodo = <<>>)
      /\ \/ Clean
         \/ \E h \in Houses, b \in Units, f \in {2, 3} :
              \/ Announced(h, b, f) /\ AddrSoon(Left, h, b, f)
              \/ Addressed(h, b, f) /\ FuncSoon(Left, h, f)
  BY ApartStays DEF KnowInv
<1>2. todo \in Seq(Calls) /\ cbTodo \in Seq(Calls)
  BY DEF CallsOK
<1>3. CASE MainCall
  <2>1. /\ cbTodo = <<>> /\ cbTodo' = <<>> /\ Left = todo
        /\ \E gaveUp : Perform(todo, todo', gaveUp)
    BY <1>3 DEF MainCall, Left
  <2>2. /\ Recorded'
        /\ \/ Clean'
           \/ \E h \in Houses, b \in Units, f \in {2, 3} :
                \/ Announced(h, b, f)' /\ AddrSoon(todo', h, b, f)
                \/ Addressed(h, b, f)' /\ FuncSoon(todo', h, f)
    BY <1>1, <1>2, <2>1, KnowCall
  <2>3. Left' = todo'
    BY <2>1 DEF Left
  <2> QED
    BY <2>1, <2>2, <2>3 DEF KnowInv
<1>4. CASE CbCall
  <2>1. /\ \E gaveUp : Perform(cbTodo, cbTodo', gaveUp)
        /\ cbTodo # <<>> /\ Left = cbTodo
        /\ todo = <<>> /\ todo' = <<>>
    BY <1>1, <1>4 DEF CbCall, Perform, Left
  <2>2. /\ Recorded'
        /\ \/ Clean'
           \/ \E h \in Houses, b \in Units, f \in {2, 3} :
                \/ Announced(h, b, f)' /\ AddrSoon(cbTodo', h, b, f)
                \/ Addressed(h, b, f)' /\ FuncSoon(cbTodo', h, f)
    BY <1>1, <1>2, <2>1, KnowCall
  <2>3. Left' = cbTodo'
    BY <2>1 DEF Left
  <2> QED
    BY <2>1, <2>2, <2>3 DEF KnowInv
<1>5. CASE Pl \/ Rf \/ Pt \/ RfToPlCommand \/ RfToRfCommand
  <2>1. /\ Idle /\ cbTodo' = <<>>
        /\ UNCHANGED <<HouseUnitState, HouseUnitSelected, X10protostate, seen>>
    BY <1>5 DEF Pl, Rf, Pt, RfToPlCommand, RfToRfCommand, Command, Order, Idle,
                unprocessed, vars, tables
  <2>2. Recorded /\ Clean
    BY <1>1, <2>1, NothingLeft DEF Idle, Left
  <2>3. Recorded' /\ Clean'
    BY <2>1, <2>2 DEF Recorded, Clean, Selects, Knows, OnLine
  <2> QED
    BY <2>1, <2>3 DEF KnowInv
<1>6. CASE St0
  <2>1. /\ Idle /\ hua_sec_init /\ UNCHANGED <<todo, cbTodo, seen>>
    BY <1>6 DEF St0, Order
  <2>2. Recorded'
    BY <1>1, <2>1 DEF Recorded
  <2>3. \A h \in Houses : Selects(h)' /\ \A u \in Units : Knows(h, u)'
    BY <2>1 DEF hua_sec_init, Selects, Knows, OnLine
  <2> QED
    BY <2>1, <2>2, <2>3 DEF KnowInv, Clean, Idle
<1>7. CASE PlPacket \/ RfPacket
  <2>1. /\ cbTodo = <<>> /\ todo = <<>> /\ todo' = <<>>
        /\ UNCHANGED <<HouseUnitState, HouseUnitSelected, X10protostate, seen>>
    BY <1>7 DEF PlPacket, RfPacket, AtRest, unheard, vars, tables
  <2>2. Recorded /\ Clean
    BY <1>1, <2>1, NothingLeft DEF Left
  <2>3. Recorded' /\ Clean'
    BY <2>1, <2>2 DEF Recorded, Clean, Selects, Knows, OnLine
  <2> QED
    BY <2>1, <2>3 DEF KnowInv
<1>8. CASE Take \/ GiveUp \/ Hear \/ Wait \/ UNCHANGED gatewayVars
  <2>1. UNCHANGED <<HouseUnitState, HouseUnitSelected, X10protostate, seen, todo,
                    cbTodo>>
    BY <1>8 DEF Take, GiveUp, Hear, unheard, Wait, gatewayVars, vars, tables
  <2>2. Recorded' /\ (Clean => Clean') /\ Left' = Left
    BY <1>1, <2>1 DEF Recorded, Clean, Selects, Knows, OnLine, Left
  <2>3. ASSUME NEW h \in Houses, NEW b \in Units, NEW f \in {2, 3}
        PROVE  /\ Announced(h, b, f) => Announced(h, b, f)'
               /\ Addressed(h, b, f) => Addressed(h, b, f)'
    BY <2>1 DEF Announced, Addressed, Booked, Selects, Knows, OnLine
  <2> QED
    BY <1>1, <2>1, <2>2, <2>3 DEF KnowInv
<1> QED
  BY <1>3, <1>4, <1>5, <1>6, <1>7, <1>8 DEF GatewayNext

LEMMA KnowInit == GatewayInit => KnowInv
<1> SUFFICES ASSUME GatewayInit PROVE KnowInv
  OBVIOUS
<1>1. seen = <<>> /\ <<>> \in Seq(Ops) /\ todo = <<>> /\ Init
  BY DEF GatewayInit
<1>2. ASSUME NEW h \in Houses
      PROVE  /\ Selects(h)
             /\ \A u \in Units : HasLatest(seen, h, u) /\ Knows(h, u)
  <2>1. ~Closed(seen, h)
    BY <1>1, FollowNothing DEF HouseFollows
  <2>2. \A u \in Units : HasLatest(seen, h, u)
    BY <1>1, FollowNothing DEF UnitFollows
  <2> QED
    BY <1>1, <2>1, <2>2 DEF Init, Selects, Knows
<1> QED
  BY <1>1, <1>2 DEF KnowInv, Recorded, Clean

\* What the tables hold as the state of a unit (getstatus) is what a module
\* that listens to the line has, RF commands that are repeated included, as
\* long as none of the reasons of cm15a_decode_rf, cm15a_decode_plc, x10_write
\* and IntrIn_cb to disagree has occurred.
THEOREM KnowTheModules == GatewaySpec => []TablesKnowTheModules
<1>1. GatewaySpec => []TypeOK
  BY UsesTables, TypeCorrect, PTL
<1>2. CallsOK /\ KnowInv /\ LineInv => TablesKnowTheModules
  <2> SUFFICES ASSUME CallsOK, KnowInv, LineInv, Settled, apart = {},
                      NEW h \in Houses, NEW u \in Units
               PROVE  HouseUnitState[h][u] \in {Unknown, StatusAfter(line, h, u)}
    BY DEF TablesKnowTheModules
  <2>1. Clean
    BY NothingLeft DEF Settled, Idle, Left
  <2>2. seen = line
    BY SettledLine DEF Untroubled
  <2> QED
    BY <2>1, <2>2 DEF Clean, Knows
<1> QED
  BY <1>1, <1>2, KnowInit, KnowStep, CallsAreTyped, LineInvHolds, PTL DEF GatewaySpec

=============================================================================
