------------------------------ MODULE Gateway ------------------------------
(***************************************************************************)
(* What mochad does with one command of a client and with one packet of    *)
(* the controller: processcommandline of encode.c and cm15a_decode of      *)
(* decode.c, which call each other.                                        *)
(*                                                                         *)
(* Every frame the daemon writes is first decoded as if it had been        *)
(* received, so that the device tables (X10State) and the duplicate filter *)
(* (DupFilter) see it.  An RF command that passes the filter is repeated   *)
(* as RF (repeatRF) and as a PL command of its own (RfToPl16), also when   *)
(* it came from a client.                                                  *)
(*                                                                         *)
(* One thread runs everything, but a command can be interrupted: when      *)
(* write_usb gives a frame up it handles USB events inside x10_write, and  *)
(* a packet that has come in is then decoded, with all the frames that     *)
(* makes the daemon write, before the command goes on.  todo is what is    *)
(* left to do of the main loop's command, cbTodo of the packet in          *)
(* IntrIn_cb.                                                              *)
(*                                                                         *)
(* The output queue is X10Write.  Here it is what FrameFifo promises, as   *)
(* far as the PL frames go: they reach the power line one by one in the    *)
(* order they were written, unless they are refused or given up.  What     *)
(* other controllers send is on the line at once and decoded later.        *)
(***************************************************************************)
EXTENDS X10State

CONSTANTS
  Cm19a,      \* TRUE: the controller does RF only
  Cmds,       \* the RF commands in use, see RfCommands
  Asked,      \* the PL frames clients ask for, see PlFrames
  Heard,      \* the PL frames other controllers send
  None, DUP_MAX, DUP_TIME, INTSPAN, Start, Steps, MAXTIME,  \* see DupFilter
  MAXIN       \* bound on the commands and packets

\* An RF command: transmitted by the daemon (first byte 0xEB) or received
\* (0x5D), which makes it another command for the filter.  "other" stands for
\* RFSEC and RFCAM.
RfCommands == [own : BOOLEAN, kind : {"on", "off", "dim", "other"},
               house : Houses, unit : Units]

\* A frame on the power line.
PlFrame(k, h, u, x) == [kind |-> k, house |-> h, unit |-> u, arg |-> x]
Addr(h, u)   == PlFrame("addr", h, u, 0)
Func(h, f)   == PlFrame("func", h, AnyUnit, f)
Dim(h)       == PlFrame("dim", h, AnyUnit, 0)
Ext(h, u, x) == PlFrame("ext", h, u, x)

PlFrames == {Addr(h, u) : h \in Houses, u \in Units}
       \cup {Func(h, f) : h \in Houses, f \in Funcs}
       \cup {Dim(h) : h \in Houses}
       \cup {Ext(h, u, x) : h \in Houses, u \in Units, x \in Levels}

ASSUME Cm19aAssumption == Cm19a \in BOOLEAN
ASSUME RfAssumption == Cmds \subseteq RfCommands
ASSUME OnOffAssumption == {2, 3} \subseteq Funcs
ASSUME FramesAssumption == Asked \subseteq PlFrames /\ Heard \subseteq PlFrames
ASSUME InAssumption == MAXIN \in Nat
ASSUME TableAssumption == DUP_MAX \in Nat \ {0} /\ DUP_TIME \in Nat  \* see DupFilter
ASSUME CmdsAssumption == None \notin Cmds
ASSUME IntAssumption == INTSPAN \in Nat \ {0} /\ INTSPAN % 2 = 0
ASSUME ClockAssumption == Start \in Nat /\ Steps \subseteq Nat /\ MAXTIME \in Nat

VARIABLES
  dups, now, verdict, lastPass,   \* see DupFilter
  RfToPl16,       \* the houses whose RF commands are repeated as PL
  RfToRf16,       \* whether RF commands are repeated as RF
  todo, cbTodo,   \* calls left of the command, and of the packet
  drain,          \* the last call was an x10_write that handles USB events
  unsent,         \* PL frames written and not yet on the line, oldest first
  unread,         \* PL frames of others that were on the line, not yet decoded
  (* history *)
  commands, orders, packets,  \* so far: commands that transmit, others, packets
  written,            \* x10_write calls so far
  seen,               \* PL frames in the order the tables saw them
  line,               \* PL frames in the order they were on the line
  apart               \* why the line and the tables may disagree

filterVars == <<dups, now, verdict, lastPass>>
settings == <<RfToPl16, RfToRf16>>
lineVars == <<unsent, unread, line>>
gatewayVars == <<vars, filterVars, settings, todo, cbTodo, drain, lineVars,
                 commands, orders, packets, written, seen, apart>>

Filter == INSTANCE DupFilter

-----------------------------------------------------------------------------
(***************************************************************************)
(* Calls                                                                   *)
(***************************************************************************)

Decode_plc(f) == [call |-> "decode_plc", frame |-> f]
Decode_rf(c)  == [call |-> "decode_rf", frame |-> c]
WritePl(f)    == [call |-> "write_pl", frame |-> f]
WriteRf(c)    == [call |-> "write_rf", frame |-> c]

WriteRaw      == [call |-> "write_raw"]     \* the bytes of a PT command

Writes == {"write_pl", "write_rf", "write_raw"}

\* pl_tx_houseunit, pl_tx_housefunc, pl_tx_extended_code_1.
pl_tx(f) == <<Decode_plc(f), WritePl(f)>>

\* A frame as an operation of X10State.  A function the tables leave alone is
\* "other".
AsOp(f) ==
  CASE f.kind = "addr" -> Op("addr", f.house, f.unit, 0)
    [] f.kind = "ext"  -> Op("ext", f.house, f.unit, f.arg)
    [] f.kind = "func" /\ f.arg \in AllOffFuncs -> Op("alloff", f.house, AnyUnit, 0)
    [] f.kind = "func" /\ f.arg \in AllOnFuncs  -> Op("allon", f.house, AnyUnit, FullDim)
    [] f.kind = "func" /\ f.arg \in OnFuncs     -> Op("on", f.house, AnyUnit, FullDim)
    [] f.kind = "func" /\ f.arg \in OffFuncs    -> Op("off", f.house, AnyUnit, 0)
    [] OTHER -> Op("other", f.house, AnyUnit, 0)

-----------------------------------------------------------------------------
(***************************************************************************)
(* The calls                                                               *)
(***************************************************************************)

\* ST 0 makes the tables forget what is selected, and not the modules: a later
\* function reaches modules that are not selected in the tables, which matters
\* if a function for the whole house has given them a state in between.
Forgotten(f) ==
  {r \in {"forgotten"} :
     /\ AsOp(f).op \in {"on", "off"}
     /\ \E u \in SelectedAfter(seen, f.house, Len(seen)) \ HouseUnitSelected[f.house] :
          HouseUnitState[f.house][u] # Unknown}

\* cm15a_decode_plc.  A function the tables leave alone still ends the
\* addressing for the modules that listen to the line.  A frame of the daemon
\* itself, which is about to be written, overtakes those that were on the line
\* and are still to be read.
cm15a_decode_plc(f, rest) ==
  /\ seen' = Append(seen, AsOp(f))
  /\ \/ f.kind = "addr" /\ PlHouseUnit(f.house, f.unit)
     \/ f.kind = "func" /\ PlHouseFunc(f.house, f.arg)
     \/ f.kind = "dim"  /\ UNCHANGED vars
     \/ f.kind = "ext"  /\ PlExtended(f.house, f.unit, f.arg)
  /\ apart' = apart \cup ({AsOp(f).op} \cap {"other", "ext"}) \cup Forgotten(f)
                    \cup {r \in {"overtaken"} : rest # <<>> /\ unread # <<>>}
  /\ UNCHANGED <<filterVars, written, lineVars>>

\* repeatRF: the same command with the first byte of a transmission.
repeatRF_decoded(c) ==
  IF RfToRf16 THEN <<Decode_rf([c EXCEPT !.own = TRUE]), WriteRf(c)>> ELSE <<>>
repeatRF(c) == IF RfToRf16 THEN <<WriteRf([c EXCEPT !.own = TRUE])>> ELSE <<>>

RfToPl_function_first(c) ==
  IF Cm19a \/ c.kind = "other" \/ c.house \notin RfToPl16 THEN <<>>
  ELSE IF c.kind = "dim" THEN pl_tx(Dim(c.house))
  ELSE pl_tx(Func(c.house, IF c.kind = "on" THEN 2 ELSE 3))
         \o pl_tx(Addr(c.house, c.unit))

\* processcommandline, called by cm15a_decode_rf with a PL command.
RfToPl(c) ==
  IF Cm19a \/ c.kind = "other" \/ c.house \notin RfToPl16 THEN <<>>
  ELSE CASE c.kind = "on"  -> pl_tx(Addr(c.house, c.unit)) \o pl_tx(Func(c.house, 2))
         [] c.kind = "off" -> pl_tx(Addr(c.house, c.unit)) \o pl_tx(Func(c.house, 3))
         [] c.kind = "dim" -> pl_tx(Dim(c.house))

\* An RF ON or OFF changes the tables, but not the modules on the line, if it is
\* not repeated; and what it selects is not what the line selects if the
\* addresses of another command were still waiting for their function.
WhyApart(c) ==
  {r \in {"unrepeated", "joined"} :
     /\ c.kind \in {"on", "off"}
     /\ r = "unrepeated" => RfToPl(c) = <<>>
     /\ r = "joined" => /\ X10protostate[c.house] = 0
                        /\ HouseUnitSelected[c.house] \ {c.unit} # {}}

\* cm15a_decode_rf of a valid command.  rest is what was left to do, restNext
\* what is left after the decision: the repeaters come first.
cm15a_decode_rf(c, rest, restNext) ==
  /\ Filter!dup_filter(c)
  /\ \/ /\ verdict'.dropped
        /\ restNext = rest
        /\ UNCHANGED <<vars, apart>>
     \/ /\ ~verdict'.dropped
        /\ restNext = repeatRF(c) \o RfToPl(c) \o rest
        /\ \/ c.kind = "on"  /\ RfHouseUnit(c.house, c.unit, On)
           \/ c.kind = "off" /\ RfHouseUnit(c.house, c.unit, Off)
           \/ c.kind \in {"dim", "other"} /\ UNCHANGED vars
        /\ apart' = apart \cup WhyApart(c)
  /\ UNCHANGED <<written, seen, lineVars>>

\* The frame waits for its turn, or it is lost: refused by the full ring, or
\* given up by write_usb, which then handles USB events.  RF and raw frames
\* take slots of the ring and turns as well, but leave no trace here; so how
\* full the ring is cannot be told, and it may always be full.
x10_write_bypass(c, gaveUp) ==
  /\ written' = written + 1
  /\ \/ /\ ~gaveUp
        /\ unsent' = IF c.call = "write_pl" THEN <<AsOp(c.frame)>> \o unsent ELSE unsent
        /\ apart' = IF c = WriteRaw THEN apart \cup {"raw"} ELSE apart
     \/ /\ apart' = IF c.call = "write_pl" THEN apart \cup {"lost"} ELSE apart
        /\ UNCHANGED unsent
  /\ UNCHANGED <<vars, filterVars, seen, unread, line>>

x10_write(c, gaveUp) ==
  /\ written' = written + 1
  /\ \/ /\ ~gaveUp
        /\ unsent' = IF c.call = "write_pl" THEN Append(unsent, AsOp(c.frame)) ELSE unsent
        /\ apart' = IF c = WriteRaw THEN apart \cup {"raw"} ELSE apart
     \/ /\ apart' = IF c.call = "write_pl" THEN apart \cup {"lost"} ELSE apart
        /\ UNCHANGED unsent
  /\ UNCHANGED <<vars, filterVars, seen, unread, line>>

\* The first of the calls that are left.
Perform(calls, callsNext, gaveUp) ==
  LET c == Head(calls)
  IN  /\ calls # <<>>
      /\ \/ /\ c.call = "decode_plc" /\ ~gaveUp
            /\ cm15a_decode_plc(c.frame, Tail(calls))
            /\ callsNext = Tail(calls)
         \/ /\ c.call = "decode_rf" /\ ~gaveUp
            /\ cm15a_decode_rf(c.frame, Tail(calls), callsNext)
         \/ /\ c.call \in Writes
            /\ x10_write(c, gaveUp)
            /\ callsNext = Tail(calls)
      /\ UNCHANGED <<settings, commands, orders, packets>>

\* The packet in IntrIn_cb goes first; the command waits inside x10_write.  What
\* is given up in the callback handles no packet: IN is not submitted.
CbCall ==
  /\ \E gaveUp \in BOOLEAN : Perform(cbTodo, cbTodo', gaveUp)
  /\ UNCHANGED <<todo, drain>>

MainCall ==
  /\ cbTodo = <<>>
  /\ \E gaveUp \in BOOLEAN :
       /\ Perform(todo, todo', gaveUp)
       /\ drain' = (gaveUp /\ todo' # <<>>)
  /\ UNCHANGED cbTodo

-----------------------------------------------------------------------------
(***************************************************************************)
(* processcommandline: what a client may ask for.  Commands that only read *)
(* (ST, GETSTATUS, GETSTATUSSEC) change nothing here, and neither does a   *)
(* line that is not a command.                                             *)
(***************************************************************************)

Idle == todo = <<>> /\ cbTodo = <<>>
unprocessed == <<vars, filterVars, cbTodo, drain, packets, written, seen, lineVars>>

MayStart == commands + orders + packets < MAXIN

Command ==
  /\ Idle /\ MayStart
  /\ commands' = commands + 1
  /\ UNCHANGED orders

Order ==
  /\ Idle /\ MayStart
  /\ orders' = orders + 1
  /\ UNCHANGED commands

\* PL with a house only, or a unit without a function, or XDIM and
\* EXTENDED_CODE_1: one frame.  PL with a unit and a function: the address,
\* then the function; Dim and Bright have a frame of their own.
Pl ==
  /\ Command
  /\ \E f \in Asked :
       \/ todo' = pl_tx(f)
       \/ /\ f.kind \in {"func", "dim"}
          /\ \E a \in Asked : /\ a.kind = "addr" /\ a.house = f.house
                             /\ todo' = pl_tx(a) \o pl_tx(f)
  /\ UNCHANGED <<unprocessed, settings, apart>>

\* RF, RFSEC and RFCAM: decoded first, then transmitted.
Rf ==
  /\ Command
  /\ \E c \in Cmds : c.own /\ todo' = <<Decode_rf(c), WriteRf(c)>>
  /\ UNCHANGED <<unprocessed, settings, apart>>

\* PT transmits bytes as they are and shows them to no one.
Pt ==
  /\ Command
  /\ todo' = <<WriteRaw>>
  /\ UNCHANGED <<unprocessed, settings, apart>>

RfToPlCommand ==
  /\ Order
  /\ RfToPl16' \in SUBSET Houses
  /\ UNCHANGED <<unprocessed, RfToRf16, todo, apart>>

RfToRfCommand ==
  /\ Order
  /\ RfToRf16' \in BOOLEAN
  /\ UNCHANGED <<unprocessed, RfToPl16, todo, apart>>

\* ST 0 forgets the devices and the sensors, not the copies of the filter.
St0_resets_filter ==
  /\ Order
  /\ hua_sec_init
  /\ dups' = [i \in 0 .. DUP_MAX - 1 |-> [timems |-> 0, cmd |-> None]]
  /\ UNCHANGED <<now, verdict, lastPass, settings, todo, cbTodo, drain, packets,
                 written, seen, lineVars, apart>>

St0 ==
  /\ Order
  /\ hua_sec_init
  /\ UNCHANGED <<filterVars, settings, todo, cbTodo, drain, packets, written,
                 seen, lineVars, apart>>

-----------------------------------------------------------------------------
(***************************************************************************)
(* The controller and the power line (external), and IntrIn_cb: a packet   *)
(* is decoded while the main loop waits or inside an x10_write that gave   *)
(* up.  What happens outside between two other calls may as well happen    *)
(* before or after the command.                                            *)
(***************************************************************************)

AtRest == cbTodo = <<>> /\ (todo = <<>> \/ drain)
unheard == <<vars, filterVars, settings, todo, drain, commands, orders, written, seen>>

Take ==
  /\ AtRest /\ unsent # <<>>
  /\ line' = Append(line, Head(unsent))
  /\ unsent' = Tail(unsent)
  /\ UNCHANGED <<unheard, cbTodo, packets, unread, apart>>

\* The transfer with the oldest frame is cancelled, or send_next_x10out takes it
\* from the ring and write_usb fails.
GiveUp ==
  /\ AtRest /\ unsent # <<>>
  /\ unsent' = Tail(unsent)
  /\ apart' = apart \cup {"lost"}
  /\ UNCHANGED <<unheard, cbTodo, packets, unread, line>>

\* Another controller sends a frame, before those that wait here.
Hear ==
  /\ ~Cm19a
  /\ AtRest /\ MayStart
  /\ packets' = packets + 1
  /\ \E f \in Heard : /\ line' = Append(line, AsOp(f))
                      /\ unread' = Append(unread, f)
  /\ apart' = IF unsent = <<>> THEN apart ELSE apart \cup {"overtaken"}
  /\ UNCHANGED <<unheard, cbTodo, unsent>>

PlPacket ==
  /\ AtRest /\ unread # <<>>
  /\ cbTodo' = <<Decode_plc(Head(unread))>>
  /\ unread' = Tail(unread)
  /\ apart' = IF todo = <<>> THEN apart ELSE apart \cup {"nested"}
  /\ UNCHANGED <<unheard, packets, unsent, line>>

RfPacket ==
  /\ AtRest /\ MayStart
  /\ packets' = packets + 1
  /\ \E c \in Cmds : ~c.own /\ cbTodo' = <<Decode_rf(c)>>
  /\ apart' = IF todo = <<>> THEN apart ELSE apart \cup {"nested"}
  /\ UNCHANGED <<unheard, lineVars>>

\* Time passes while nothing is being done.  It does not matter, and the model's
\* clock stands, while the filter would drop nothing.
Wait ==
  /\ Idle
  /\ \E i \in Filter!Index : Filter!Used(dups[i]) /\ ~Filter!Expired(dups[i])
  /\ Filter!Tick
  /\ UNCHANGED <<vars, settings, todo, cbTodo, drain, commands, orders, packets,
                 written, seen, lineVars, apart>>

-----------------------------------------------------------------------------

GatewayInit ==
  /\ Init /\ Filter!Init
  /\ RfToPl16 = Houses /\ RfToRf16 = FALSE
  /\ todo = <<>> /\ cbTodo = <<>> /\ drain = FALSE
  /\ commands = 0 /\ orders = 0 /\ packets = 0 /\ written = 0
  /\ unsent = <<>> /\ unread = <<>> /\ seen = <<>> /\ line = <<>> /\ apart = {}

GatewayNext ==
  \/ MainCall \/ CbCall
  \/ Pl \/ Rf \/ Pt \/ RfToPlCommand \/ RfToRfCommand \/ St0
  \/ Take \/ GiveUp \/ Hear \/ PlPacket \/ RfPacket \/ Wait

GatewaySpec == GatewayInit /\ [][GatewayNext]_gatewayVars

-----------------------------------------------------------------------------
(***************************************************************************)
(* Properties                                                              *)
(***************************************************************************)

\* Whatever calls whatever, the filter sees RF commands only as DupFilter does.
ImplementsFilter == Filter!Spec

\* Nothing is left to do, to send or to read.
Settled == Idle /\ unsent = <<>> /\ unread = <<>>

\* The tables have seen the PL frames that were on the line, in the order of
\* the line, also with packets decoded in the middle of commands, unless the
\* daemon lost a frame it had shown to them, or frames crossed: another
\* controller sent while the daemon's own were waiting (x10_write.c), or a
\* command was decoded (encode.c) before a frame that had been on the line.
TablesSawTheLine == Settled /\ apart \cap {"lost", "overtaken"} = {} => seen = line

\* One command makes the daemon write at most four frames, one packet three,
\* and the commands that only change a setting or a table none:
\* the repeaters do not feed each other, and the queue of 255 is not filled by
\* a few buttons.
NoStorm == written <= 4 * commands + 3 * packets

\* As far as the tables know the state of a unit, it is the state of a module
\* that listens to the power line: RF commands are booked for the selected
\* units, and reach the line as an address and a function.  It takes that no
\* frame is lost or overtaken on its way, that no RF command is kept from the
\* line, that no packet is decoded in the middle of a command, that there are
\* no extended codes, raw frames and functions without a state, and that ST 0
\* did not clear a selection that is still used.
TablesKnowTheModules ==
  Settled /\ apart = {}
    => \A h \in Houses, u \in Units :
         HouseUnitState[h][u] \in {Unknown, StatusAfter(line, h, u)}

\* "0 = house/unit code, 1 = house/function" (x10state.c): the same with
\* functions that have no state, of which Dim is one.
TablesKnowAfterDim ==
  Settled /\ apart \subseteq {"other"}
    => \A h \in Houses, u \in Units :
         HouseUnitState[h][u] \in {Unknown, StatusAfter(line, h, u)}

=============================================================================
