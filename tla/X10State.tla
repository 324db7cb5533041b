------------------------------ MODULE X10State ------------------------------
(***************************************************************************)
(* The device tables of x10state.c for lamps and appliances, and the       *)
(* frames that change them: cm15a_decode_plc, which also sees every PL     *)
(* frame the daemon sends, and the ON/OFF part of cm15a_decode_rf.         *)
(*                                                                         *)
(* An X10 command takes two frames: addresses select units of a house, a   *)
(* function then acts on the units selected.  X10protostate remembers per  *)
(* house whether the next address starts a new selection.                  *)
(*                                                                         *)
(* The 16 x 16 byte tables are functions of house and unit; a row of       *)
(* HouseUnitSelected is the set of its units that are marked.              *)
(***************************************************************************)
EXTENDS Integers, Sequences

CONSTANTS
  Houses, Units,  \* house codes and unit codes, 16 of each in the code
  Funcs,          \* PL function codes
  Levels,         \* data bytes of extended frames
  MAXLOG          \* bound on the recorded operations

ASSUME UnitsAssumption == Units # {}
ASSUME FuncsAssumption == Funcs \subseteq 0 .. 15
ASSUME LevelsAssumption == Levels \subseteq 0 .. 255
ASSUME MaxLogAssumption == MAXLOG \in Nat

VARIABLES
  HouseUnitState, HouseUnitSelected, HouseUnitDim, X10protostate,
  (* history *)
  log    \* the operations on the tables, oldest first

tables == <<HouseUnitState, HouseUnitSelected, HouseUnitDim, X10protostate>>
vars == <<tables, log>>

Unknown == "unknown"
On  == "1"
Off == "0"
Status == {Unknown, On, Off}
FullDim == 63      \* the level an ON stands for

-----------------------------------------------------------------------------
(***************************************************************************)
(* x10state.c                                                              *)
(***************************************************************************)

hua_add_keeps_old(h, u) ==
  /\ HouseUnitSelected' = [HouseUnitSelected EXCEPT ![h] = @ \cup {u}]
  /\ X10protostate' = [X10protostate EXCEPT ![h] = 0]
  /\ UNCHANGED <<HouseUnitState, HouseUnitDim>>

\* An address after a function first clears the selection (hua_init).
hua_add(h, u) ==
  /\ HouseUnitSelected' =
       [HouseUnitSelected EXCEPT ![h] =
          IF X10protostate[h] = 0 THEN @ \cup {u} ELSE {u}]
  /\ X10protostate' = [X10protostate EXCEPT ![h] = 0]
  /\ UNCHANGED <<HouseUnitState, HouseUnitDim>>

\* The tables after function func has acted on units us of house h.
StateOf(h, us, func) ==
  [HouseUnitState EXCEPT ![h] = [u \in Units |-> IF u \in us THEN func ELSE @[u]]]
DimOf(h, us, func) ==
  [HouseUnitDim EXCEPT ![h] =
     [u \in Units |-> IF u \notin us THEN @[u]
                      ELSE IF func = On THEN FullDim ELSE 0]]

hua_func_all(h, func) ==
  /\ X10protostate' = [X10protostate EXCEPT ![h] = 1]
  /\ HouseUnitState' = StateOf(h, Units, func)
  /\ HouseUnitDim' = DimOf(h, Units, func)
  /\ UNCHANGED HouseUnitSelected

hua_func_no_dim(h, func) ==
  /\ X10protostate' = [X10protostate EXCEPT ![h] = 1]
  /\ HouseUnitState' = StateOf(h, HouseUnitSelected[h], func)
  /\ UNCHANGED <<HouseUnitDim, HouseUnitSelected>>

hua_func(h, func) ==
  /\ X10protostate' = [X10protostate EXCEPT ![h] = 1]
  /\ HouseUnitState' = StateOf(h, HouseUnitSelected[h], func)
  /\ HouseUnitDim' = DimOf(h, HouseUnitSelected[h], func)
  /\ UNCHANGED HouseUnitSelected

hua_setstatus_xdim(h, u, xdim) ==
  /\ HouseUnitSelected' = [HouseUnitSelected EXCEPT ![h] = {u}]
  /\ X10protostate' = [X10protostate EXCEPT ![h] = 1]
  /\ HouseUnitDim' = [HouseUnitDim EXCEPT ![h][u] = xdim]
  /\ HouseUnitState' =
       [HouseUnitState EXCEPT ![h][u] = IF xdim > 0 THEN On ELSE Off]

hua_getstatus(h, u) == HouseUnitState[h][u]
hua_getstatus_xdim(h, u) == HouseUnitDim[h][u]

-----------------------------------------------------------------------------
(***************************************************************************)
(* cm15a_decode_plc and cm15a_decode_rf                                    *)
(***************************************************************************)

OpNames == {"addr", "on", "off", "allon", "alloff", "ext"}
Ops == [op : OpNames, house : Houses, unit : Units, level : 0 .. 255]
Op(name, h, u, x) == [op |-> name, house |-> h, unit |-> u, level |-> x]
AnyUnit == CHOOSE u \in Units : TRUE

Record(ops) ==
  /\ Len(log) + Len(ops) <= MAXLOG
  /\ log' = log \o ops

\* case 0x00: a house/unit code.
PlHouseUnit(h, u) ==
  /\ Record(<<Op("addr", h, u, 0)>>)
  /\ hua_add(h, u)

AllOffFuncs == {0, 6}
AllOnFuncs  == {1}
OnFuncs     == {2, 13}
OffFuncs    == {3, 14}

\* case 0x01: a house/function code.  Dim, Bright, Hail, Status request and
\* the extended codes leave the tables alone, and so does case 0x02, a Dim or
\* Bright with an amount.
PlHouseFunc(h, f) ==
  \/ /\ f \in AllOffFuncs
     /\ Record(<<Op("alloff", h, AnyUnit, 0)>>)
     /\ hua_func_all(h, Off)
  \/ /\ f \in AllOnFuncs
     /\ Record(<<Op("allon", h, AnyUnit, FullDim)>>)
     /\ hua_func_all(h, On)
  \/ /\ f \in OnFuncs
     /\ Record(<<Op("on", h, AnyUnit, FullDim)>>)
     /\ hua_func(h, On)
  \/ /\ f \in OffFuncs
     /\ Record(<<Op("off", h, AnyUnit, 0)>>)
     /\ hua_func(h, Off)
  \/ /\ f \notin AllOffFuncs \cup AllOnFuncs \cup OnFuncs \cup OffFuncs
     /\ UNCHANGED <<tables, log>>

\* cases 0x07 and 0x08: an extended code.  The command byte is printed, not
\* looked at: what is no xdim sets the level as well.
PlExtended(h, u, x) ==
  /\ Record(<<Op("ext", h, u, x)>>)
  /\ hua_setstatus_xdim(h, u, x)

\* A standard RF code: address and function in one, applied one after the
\* other (hua_add, then hua_func_on or hua_func_off).
RfHouseUnit(h, u, func) ==
  /\ Record(<<Op("addr", h, u, 0),
              IF func = On THEN Op("on", h, AnyUnit, FullDim)
                           ELSE Op("off", h, AnyUnit, 0)>>)
  /\ LET selected == IF X10protostate[h] = 0
                     THEN HouseUnitSelected[h] \cup {u} ELSE {u}
     IN  /\ HouseUnitSelected' = [HouseUnitSelected EXCEPT ![h] = selected]
         /\ X10protostate' = [X10protostate EXCEPT ![h] = 1]
         /\ HouseUnitState' = StateOf(h, selected, func)
         /\ HouseUnitDim' = DimOf(h, selected, func)

\* ST 0, and the start of mydaemon.
hua_sec_init ==
  /\ HouseUnitState' = [h \in Houses |-> [u \in Units |-> Unknown]]
  /\ HouseUnitSelected' = [h \in Houses |-> {}]
  /\ HouseUnitDim' = [h \in Houses |-> [u \in Units |-> 0]]
  /\ X10protostate' = [h \in Houses |-> 0]
  /\ log' = <<>>

Init ==
  /\ HouseUnitState = [h \in Houses |-> [u \in Units |-> Unknown]]
  /\ HouseUnitSelected = [h \in Houses |-> {}]
  /\ HouseUnitDim = [h \in Houses |-> [u \in Units |-> 0]]
  /\ X10protostate = [h \in Houses |-> 0]
  /\ log = <<>>

Next ==
  \/ \E h \in Houses, u \in Units : PlHouseUnit(h, u)
  \/ \E h \in Houses, f \in Funcs : PlHouseFunc(h, f)
  \/ \E h \in Houses, u \in Units, x \in Levels : PlExtended(h, u, x)
  \/ \E h \in Houses, u \in Units, func \in {On, Off} : RfHouseUnit(h, u, func)
  \/ hua_sec_init

Spec == Init /\ [][Next]_vars

-----------------------------------------------------------------------------
(***************************************************************************)
(* What the tables should hold, as a function of the operations alone.     *)
(***************************************************************************)

Positions(l, h) == {k \in 1 .. Len(l) : l[k].house = h}

\* At position k a new selection of house h starts: an extended code selects its unit
\* alone, and so does the first address after anything else.
Restarts(l, h, k) ==
  /\ l[k].house = h
  /\ \/ l[k].op = "ext"
     \/ /\ l[k].op = "addr"
        /\ \E j \in 1 .. k - 1 :
             /\ l[j].house = h /\ l[j].op # "addr"
             /\ \A i \in j + 1 .. k - 1 : l[i].house # h

\* The units of house h that are selected after the first n operations.
SelectedAfter(l, h, n) ==
  {u \in Units :
     \E k \in Positions(l, h) :
       /\ k <= n /\ l[k].op \in {"addr", "ext"} /\ l[k].unit = u
       /\ \A m \in k + 1 .. n : ~Restarts(l, h, m)}

\* The operations that set unit u of house h.
Settings(l, h, u) ==
  {k \in Positions(l, h) :
     \/ l[k].op \in {"allon", "alloff"}
     \/ l[k].op = "ext" /\ l[k].unit = u
     \/ l[k].op \in {"on", "off"} /\ u \in SelectedAfter(l, h, k - 1)}

Latest(S) == CHOOSE k \in S : \A j \in S : j <= k

LevelAfter(l, h, u) ==
  LET S == Settings(l, h, u) IN IF S = {} THEN 0 ELSE l[Latest(S)].level
StatusAfter(l, h, u) ==
  LET S == Settings(l, h, u)
  IN IF S = {} THEN Unknown ELSE IF l[Latest(S)].level > 0 THEN On ELSE Off

-----------------------------------------------------------------------------
(***************************************************************************)
(* Properties                                                              *)
(***************************************************************************)

\* Every table has its type; a level fits an unsigned char.
TypeOK ==
  /\ HouseUnitState \in [Houses -> [Units -> Status]]
  /\ HouseUnitSelected \in [Houses -> SUBSET Units]
  /\ HouseUnitDim \in [Houses -> [Units -> 0 .. 255]]
  /\ X10protostate \in [Houses -> {0, 1}]
  /\ log \in Seq(Ops) /\ Len(log) <= MAXLOG

\* getstatus and getstatus xdim never contradict each other: a unit is on
\* exactly when its level is not zero, whichever of hua_func, hua_func_all
\* and hua_setstatus_xdim was the last to touch either table.
StateDimAgree ==
  \A h \in Houses, u \in Units :
    hua_getstatus(h, u) = On <=> hua_getstatus_xdim(h, u) > 0

\* "pl b3 / pl b4 / pl b on: Turn on b3 and b4" (x10state.c): each unit has the
\* state the last function that acted on it gave it, a function acts on all
\* the units addressed since the last function before them, and other houses'
\* frames in between make no difference.
TablesFollowFrames ==
  \A h \in Houses :
    /\ HouseUnitSelected[h] = SelectedAfter(log, h, Len(log))
    /\ \A u \in Units : /\ HouseUnitState[h][u] = StatusAfter(log, h, u)
                        /\ HouseUnitDim[h][u] = LevelAfter(log, h, u)

=============================================================================
