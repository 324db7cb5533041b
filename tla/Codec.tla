-------------------------------- MODULE Codec --------------------------------
(***************************************************************************)
(* The frames of encode.c and decode.c, as pure operators: what a command  *)
(* puts on the air or the power line, what the daemon that sends it prints *)
(* (it decodes its own frames), and what another mochad makes of it.       *)
(*                                                                         *)
(* Houses 'A'..'P' and units 1..16 are 0..15, as in the code.  A frame is  *)
(* a sequence of bytes.  Names of security events are in capitals, as      *)
(* encode.c spells them, and without the device, which decode.c adds.      *)
(***************************************************************************)
EXTENDS Integers, Sequences, FiniteSets

CONSTANTS
  Houses, Units,    \* those tried, subsets of 0 .. 15
  Params,           \* amounts tried for dims and extended dims, some too large
  Addrs8, Addrs17   \* security addresses tried: 8 bits, and 24 bits

ASSUME HousesAssumption == Houses \subseteq 0 .. 15 /\ Units \subseteq 0 .. 15
ASSUME ParamsAssumption == Params \subseteq Nat
ASSUME AddrsAssumption == Addrs8 \subseteq 0 .. 255 /\ Addrs17 \subseteq 0 .. 2^24 - 1

VARIABLES
  cmd,    \* the command of a client
  frame,  \* the frame the daemon decodes and sends
  own,    \* what it decodes it to, for its clients and its tables
  peer    \* what another mochad decodes from it

vars == <<cmd, frame, own, peer>>

-----------------------------------------------------------------------------
(***************************************************************************)
(* Bytes                                                                   *)
(***************************************************************************)

High(b) == b \div 16
Low(b) == b % 16
Bit(b, k) == (b \div 2^k) % 2
Byte(n) == n % 256
Inv8(b) == 255 - b                      \* b ^ 0xff, and ~b
Inv4(b) == 16 * High(b) + (15 - Low(b)) \* b ^ 0x0f
InvFb(b) == IF Bit(b, 2) = 1 THEN Inv8(b) + 4 ELSE Inv8(b) - 4  \* b ^ 0xfb
OddParity(a, b) == Cardinality({k \in 0 .. 7 : Bit(a, k) # Bit(b, k)}) % 2 = 1

(***************************************************************************)
(* Tables, from index 0.  Those of encode.c give the code of a house or    *)
(* unit, those of decode.c the house or unit of a code.                    *)
(***************************************************************************)

From0(s) == [i \in 0 .. Len(s) - 1 |-> s[i + 1]]

x10housecode == From0(<<6, 14, 2, 10, 1, 9, 5, 13, 7, 15, 3, 11, 0, 8, 4, 12>>)
HouseUnitTable_unsorted ==
  From0(<<12, 4, 2, 10, 14, 6, 0, 8, 13, 5, 3, 11, 7, 15, 1, 9>>)
HouseUnitTable == From0(<<12, 4, 2, 10, 14, 6, 0, 8, 13, 5, 3, 11, 15, 7, 1, 9>>)
x10housecoderf == From0(<<6, 7, 4, 5, 8, 9, 10, 11, 14, 15, 12, 13, 0, 1, 2, 3>>)
HouseUnitTableRF == From0(<<12, 13, 14, 15, 2, 3, 0, 1, 4, 5, 6, 7, 10, 11, 8, 9>>)

\* Function codes.
ON == 2
OFF == 3
DIM == 4
BRIGHT == 5
Dims == {DIM, BRIGHT}
HouseFuncs == 0 .. 15

\* What encode.c takes for a long address, and for one of 8 bits.
SecEventNameslongaddr ==
  {<<12, "MOTION_ALERT">>, <<140, "MOTION_NORMAL">>,
   <<13, "MOTION_ALERT_LOW">>, <<141, "MOTION_NORMAL_LOW">>,
   <<4, "CONTACT_ALERT_MIN">>, <<132, "CONTACT_NORMAL_MIN">>,
   <<0, "CONTACT_ALERT_MAX">>, <<128, "CONTACT_NORMAL_MAX">>,
   <<1, "CONTACT_ALERT_MIN_LOW">>, <<129, "CONTACT_NORMAL_MIN_LOW">>,
   <<5, "CONTACT_ALERT_MAX_LOW">>, <<133, "CONTACT_NORMAL_MAX_LOW">>,
   <<6, "ARM">>, <<134, "DISARM">>, <<70, "LIGHTS_ON">>, <<198, "LIGHTS_OFF">>,
   <<38, "PANIC">>}

SecRemoteKeyNames8bitaddr ==
  {<<6, "ARM">>, <<14, "ARM_HOME_MIN">>, <<6, "ARM_AWAY_MIN">>,
   <<10, "ARM_HOME_MAX">>, <<2, "ARM_AWAY_MAX">>, <<130, "DISARM">>,
   <<34, "PANIC">>, <<66, "LIGHTS_ON">>, <<194, "LIGHTS_OFF">>}

\* What decode.c prints for them.
SecEventNames ==
  {<<12, "MOTION_ALERT">>, <<140, "MOTION_NORMAL">>,
   <<13, "MOTION_ALERT_LOW">>, <<141, "MOTION_NORMAL_LOW">>,
   <<4, "CONTACT_ALERT_MIN">>, <<132, "CONTACT_NORMAL_MIN">>,
   <<68, "CONTACT_ALERT_MIN_TAMPER">>, <<196, "CONTACT_NORMAL_MIN_TAMPER">>,
   <<0, "CONTACT_ALERT_MAX">>, <<128, "CONTACT_NORMAL_MAX">>,
   <<64, "CONTACT_ALERT_MAX_TAMPER">>, <<192, "CONTACT_NORMAL_MAX_TAMPER">>,
   <<1, "CONTACT_ALERT_MIN_LOW">>, <<129, "CONTACT_NORMAL_MIN_LOW">>,
   <<5, "CONTACT_ALERT_MAX_LOW">>, <<133, "CONTACT_NORMAL_MAX_LOW">>,
   <<6, "ARM">>, <<134, "DISARM">>, <<70, "LIGHTS_ON">>, <<198, "LIGHTS_OFF">>,
   <<38, "PANIC">>, <<3, "PANIC">>}

SecRemoteKeyNames ==
  {<<14, "ARM_HOME_MIN">>, <<6, "ARM_AWAY_MIN">>,
   <<10, "ARM_HOME_MAX">>, <<2, "ARM_AWAY_MAX">>, <<130, "DISARM">>,
   <<34, "PANIC">>, <<66, "LIGHTS_ON">>, <<194, "LIGHTS_OFF">>,
   <<4, "MOTION_ALERT">>, <<132, "MOTION_NORMAL">>,
   <<12, "MOTION_ALERT_HOME_AWAY">>, <<140, "MOTION_NORMAL_HOME_AWAY">>}

\* The codes RFCAMKeyCodes has a name for.
CamKeys == (84 .. 93) \cup (96 .. 108) \cup {110}

NameIn(table, code) == (CHOOSE e \in table : e[1] = code)[2]

-----------------------------------------------------------------------------
(***************************************************************************)
(* encode.c.  Each operator returns the buffer that is given to the        *)
(* decoder; its first bytes make it look received.                         *)
(***************************************************************************)

pl_tx_houseunit(h, u) == <<0, 2, 0, 16 * x10housecode[h] + x10housecode[u]>>

pl_tx_extended_code_1(h, u, param) ==
  <<0, 5, 7, 16 * x10housecode[h] + 7, x10housecode[u], Byte(param), 49>>

pl_tx_housefunc(h, func, param) ==
  IF func \in Dims
  THEN <<0, 3, 2, 8 * (param % 32) + 1, 16 * x10housecode[h] + func>>
  ELSE <<0, 2, 1, 16 * x10housecode[h] + func>>

rf_tx_houseunitfunc(h, u, func) ==
  LET b2 == 16 * x10housecoderf[h] + 4 * Bit(u, 3)
      b4 == CASE func \in {ON, OFF} ->
                   (IF func = OFF THEN 32 ELSE 0)
                   + 64 * Bit(u, 2) + 8 * Bit(u, 1) + 16 * Bit(u, 0)
              [] func = DIM -> 152
              [] func = BRIGHT -> 136
  IN  <<235, 32, b2, Inv8(b2), b4, Inv8(b4)>>

rfsec_tx_8(addr, func) == <<235, 32, addr, Inv4(addr), func, Inv8(func)>>

rfsec_tx_17(addr, func) ==
  LET addr1 == Byte(addr \div 2^16)
  IN  <<235, 41, addr1, Inv4(addr1), func, Inv8(func),
        Byte(addr \div 256), Byte(addr)>>

rfcam_tx(h, key) ==
  LET house == 16 * x10housecoderf[h]
  IN  <<235, 20, Byte(house + (key - 43)), key, house>>

-----------------------------------------------------------------------------
(***************************************************************************)
(* decode.c.  Nothing stands for a frame that is refused.                  *)
(***************************************************************************)

Nothing == [what |-> "nothing"]

huc_decode(b) == <<HouseUnitTable[High(b)], HouseUnitTable[Low(b)]>>
hfc_decode(b) == <<HouseUnitTable[High(b)], Low(b)>>
uc_decode(b) == HouseUnitTable[Low(b)]

\* 0 for ON, 1 for OFF; units are printed from 1, and 0 stands for none.
hufc_decode(b2, b4) ==
  CASE b4 = 136 -> [house |-> HouseUnitTableRF[High(b2)], unit |-> 0, funcint |-> 3]
    [] b4 = 152 -> [house |-> HouseUnitTableRF[High(b2)], unit |-> 0, funcint |-> 2]
    [] OTHER    -> [house |-> HouseUnitTableRF[High(b2)],
                    unit |-> 8 * Bit(b2, 2) + 4 * Bit(b4, 6)
                             + 2 * Bit(b4, 3) + Bit(b4, 4) + 1,
                    funcint |-> Bit(b4, 5)]

\* b[i] of the code is At(b, i).
At(b, i) == b[i + 1]

cm15a_decode_plc(b) ==
  CASE At(b, 2) = 0 /\ At(b, 1) = 2 ->
         LET d == huc_decode(At(b, 3))
         IN  [what |-> "addr", house |-> d[1], unit |-> d[2]]
    [] At(b, 2) = 1 /\ At(b, 1) = 2 ->
         LET d == hfc_decode(At(b, 3))
         IN  [what |-> "func", house |-> d[1], func |-> d[2]]
    [] At(b, 2) = 2 /\ At(b, 1) = 3 ->
         LET d == hfc_decode(At(b, 4))
         IN  [what |-> "dim", house |-> d[1], func |-> d[2],
              dims |-> At(b, 3) \div 8]
    [] At(b, 2) = 7 /\ Len(b) = 7 ->
         [what |-> "ext", house |-> hfc_decode(At(b, 3))[1],
          unit |-> uc_decode(At(b, 4)), data |-> At(b, 5), command |-> At(b, 6)]
    [] At(b, 2) = 8 /\ Len(b) = 7 ->
         [what |-> "ext", house |-> hfc_decode(At(b, 6))[1],
          unit |-> uc_decode(At(b, 5)), data |-> At(b, 4), command |-> At(b, 3)]
    [] OTHER -> Nothing

CheckOk_strict(x, y) == y = Inv8(x)

\* A CM15A changes a bit of the check byte of some frames.
CheckOk(x, y) == y \in {Inv8(x), InvFb(x)}

cm15a_decode_rf(b) ==
  CASE At(b, 1) = 20 ->
         LET key == At(b, 3)
             house == High(At(b, 4))
         IN  IF At(b, 2) = Byte(16 * house + (key - 43)) /\ key \in CamKeys
             THEN [what |-> "cam", house |-> HouseUnitTableRF[house], key |-> key]
             ELSE Nothing
    [] At(b, 1) = 32 /\ At(b, 3) = Inv4(At(b, 2)) ->
         IF At(b, 5) = Inv8(At(b, 4))
         THEN [what |-> "sec8", addr |-> At(b, 2), func |-> At(b, 4),
               name |-> NameIn(SecRemoteKeyNames, At(b, 4))]
         ELSE Nothing
    [] At(b, 1) = 32 /\ At(b, 3) = Inv8(At(b, 2)) ->
         LET d == hufc_decode(At(b, 2), At(b, 4))
         IN  IF CheckOk(At(b, 4), At(b, 5))
             THEN [what |-> "rf", house |-> d.house, unit |-> d.unit - 1,
                   func |-> d.funcint + 2]
             ELSE Nothing
    [] At(b, 1) = 41 ->
         IF /\ At(b, 3) = Inv4(At(b, 2)) /\ At(b, 5) = Inv8(At(b, 4))
            /\ ~OddParity(At(b, 6), At(b, 7))
         THEN [what |-> "sec17", addr |-> <<At(b, 2), At(b, 6), At(b, 7)>>,
               func |-> At(b, 4), name |-> NameIn(SecEventNames, At(b, 4))]
         ELSE Nothing
    [] OTHER -> Nothing

IsRf(b) == At(b, 0) = 235
Decode(b) == IF IsRf(b) THEN cm15a_decode_rf(b) ELSE cm15a_decode_plc(b)

(***************************************************************************)
(* What a controller hands to another mochad when frame b was sent.  RF:   *)
(* 0x5D instead of 0xEB, and perhaps the altered check byte.  PL: 0x5A;    *)
(* the three low bits of a dim are those of the sent form; an extended     *)
(* code comes with its last four bytes reversed (comments of               *)
(* cm15a_decode_plc and cm15a_decode_rf).                                  *)
(***************************************************************************)
Received(b) ==
  IF IsRf(b)
  THEN {[b EXCEPT ![1] = 93]} \cup
       (IF Len(b) = 6 /\ At(b, 3) = Inv8(At(b, 2))
        THEN {[b EXCEPT ![1] = 93, ![6] = InvFb(At(b, 4))]} ELSE {})
  ELSE {CASE At(b, 2) = 2 -> [b EXCEPT ![1] = 90, ![4] = 8 * (@ \div 8) + 6]
          [] At(b, 2) = 7 -> <<90, 5, 8, At(b, 6), At(b, 5), At(b, 4), At(b, 3)>>
          [] OTHER -> [b EXCEPT ![1] = 90]}

IsRfIn(b) == At(b, 0) = 93
cm15a_decode(b) == IF IsRfIn(b) THEN cm15a_decode_rf(b) ELSE cm15a_decode_plc(b)

-----------------------------------------------------------------------------
(***************************************************************************)
(* getdeviceaddr.  A parameter is its characters: a letter 0 .. 16 (16 is  *)
(* no house), then up to two digits (10 is no digit).  A unit of -1 means  *)
(* the whole house, a house of -1 that the command is refused.             *)
(***************************************************************************)

getdeviceaddr(p) ==
  IF p[1] = 16 THEN <<-1, -1>>
  ELSE IF Len(p) = 1 \/ p[2] = 10 THEN <<p[1], -1>>
  ELSE IF Len(p) = 2 \/ p[3] = 10 THEN <<p[1], p[2] - 1>>
  ELSE IF 10 * p[2] + p[3] > 16 THEN <<p[1], -1>>
  ELSE <<p[1], 10 * p[2] + p[3] - 1>>

Letters == Houses \cup {16}
Parms == UNION {{<<h>> : h \in Letters}, Letters \X (0 .. 10), Letters \X (0 .. 10) \X (0 .. 10)}

-----------------------------------------------------------------------------
(***************************************************************************)
(* A trial: a client gives a command, the daemon encodes it and decodes    *)
(* the frame itself, then another mochad receives it.                      *)
(***************************************************************************)

Unset == [what |-> "unset"]

Commands ==
  [op : {"text"}, parm : Parms]
  \cup [op : {"houseunit"}, house : Houses, unit : Units]
  \cup [op : {"func"}, house : Houses, func : HouseFuncs \ Dims]
  \cup [op : {"dim"}, house : Houses, func : Dims, param : Params]
  \cup [op : {"xdim"}, house : Houses, unit : Units, param : Params]
  \cup [op : {"rf"}, house : Houses, unit : Units, func : {ON, OFF} \cup Dims]
  \cup [op : {"rf"}, house : Houses, unit : {-1}, func : Dims]
  \cup [op : {"rfsec8"}, addr : Addrs8, key : SecRemoteKeyNames8bitaddr]
  \cup [op : {"rfsec17"}, addr : Addrs17, key : SecEventNameslongaddr]
  \cup [op : {"rfcam"}, house : Houses, key : CamKeys]

Encode(c) ==
  CASE c.op = "houseunit" -> pl_tx_houseunit(c.house, c.unit)
    [] c.op = "func" -> pl_tx_housefunc(c.house, c.func, 0)
    [] c.op = "dim"  -> pl_tx_housefunc(c.house, c.func, c.param)
    [] c.op = "xdim" -> pl_tx_extended_code_1(c.house, c.unit, c.param)
    [] c.op = "rf"   -> rf_tx_houseunitfunc(c.house, c.unit, c.func)
    [] c.op = "rfsec8"  -> rfsec_tx_8(c.addr, c.key[1])
    [] c.op = "rfsec17" -> rfsec_tx_17(c.addr, c.key[1])
    [] c.op = "rfcam"   -> rfcam_tx(c.house, c.key)

Parse ==
  /\ own = Unset /\ cmd.op = "text"
  /\ own' = [what |-> "text", addr |-> getdeviceaddr(cmd.parm)]
  /\ UNCHANGED <<cmd, frame, peer>>

Transmit ==
  /\ own = Unset /\ cmd.op # "text"
  /\ frame' = Encode(cmd)
  /\ own' = Decode(frame')
  /\ UNCHANGED <<cmd, peer>>

Receive ==
  /\ frame # <<>> /\ peer = Unset
  /\ \E b \in Received(frame) : peer' = cm15a_decode(b)
  /\ UNCHANGED <<cmd, frame, own>>

Init == cmd \in Commands /\ frame = <<>> /\ own = Unset /\ peer = Unset

Next == Parse \/ Transmit \/ Receive

Spec == Init /\ [][Next]_vars

-----------------------------------------------------------------------------
(***************************************************************************)
(* Properties                                                              *)
(***************************************************************************)

Documented(c) == (c.op = "dim" => c.param <= 31) /\ (c.op = "xdim" => c.param <= 255)

\* What the command says, in the terms of decode.c.
Meaning(c) ==
  CASE c.op = "houseunit" -> [what |-> "addr", house |-> c.house, unit |-> c.unit]
    [] c.op = "func" -> [what |-> "func", house |-> c.house, func |-> c.func]
    [] c.op = "dim"  -> [what |-> "dim", house |-> c.house, func |-> c.func,
                         dims |-> c.param]
    [] c.op = "xdim" -> [what |-> "ext", house |-> c.house, unit |-> c.unit,
                         data |-> c.param, command |-> 49]
    [] c.op = "rf" -> [what |-> "rf", house |-> c.house, func |-> c.func,
                       unit |-> IF c.func \in Dims THEN -1 ELSE c.unit]
    [] c.op = "rfsec8" -> [what |-> "sec8", addr |-> c.addr, func |-> c.key[1],
                           name |-> IF c.key[2] = "ARM" THEN "ARM_AWAY_MIN"
                                    ELSE c.key[2]]
    [] c.op = "rfsec17" ->
         IF OddParity(Byte(c.addr \div 256), Byte(c.addr)) THEN Nothing
         ELSE [what |-> "sec17", func |-> c.key[1], name |-> c.key[2],
               addr |-> <<c.addr \div 2^16, Byte(c.addr \div 256), Byte(c.addr)>>]
    [] c.op = "rfcam" -> [what |-> "cam", house |-> c.house, key |-> c.key]

\* "Valid strings: A, A1, P15" (getdeviceaddr): a letter is a house, a letter
\* and a number from 1 to 16 a unit of it.
AddressMeans(p, addr) ==
  \A h \in Houses :
    /\ p = <<h>> => addr = <<h, -1>>
    /\ \A n \in 1 .. 16 :
         p \in {<<h, n \div 10, n % 10>>} \cup {q \in {<<h, n>>} : n < 10}
           => addr = <<h, n - 1>>

\* An address means the unit the client wrote.  The daemon echoes, and enters
\* in its tables, the house, unit, function and amount the client asked for:
\* the tables of encode.c and decode.c are inverse to each other and no two
\* commands share a frame.
EchoMeansCommand ==
  /\ frame # <<>> /\ Documented(cmd) => own = Meaning(cmd)
  /\ own.what = "text" => AddressMeans(cmd.parm, own.addr)

\* Another mochad makes of the frame what the sender made of it, whatever the
\* amount: both lists of device states agree.
PeerAgrees == peer # Unset => peer = own

=============================================================================
