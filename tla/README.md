# mochad: models, checks and proofs

mochad is a TCP gateway to the X10 controllers CM15A (power line and radio) and CM19A (radio
only). Text clients connect to port 1099, Flash XML clients to 1100, OpenRemote clients to 1101;
a controller hangs on USB; in this fork a second thread bridges the SensorFlare cloud service
over AMQP. This directory holds TLA+ modules translated from the C source in `src/`, TLC
configurations that check them on small instances, and TLAPS proofs of most of what is checked.

To check a module: `tlc -config X10Write_slow.cfg X10Write`; to check proofs: `tlapm
X10WriteProofs.tla`.

## 1. Inventory

One thread, `mydaemon` of `mochad.c`, polls the listen sockets, the libusb descriptors and the
clients. It calls `cm15a_encode` with what a client sent, and libusb's callbacks with what the
controller sent. Both end in the decoder, which updates the device tables and prints to all
clients, and in `x10_write`, which queues frames for the controller. With SensorFlare enabled a
second thread calls `processcommandline` as well, without any lock.

| Component | State | Operations | What is hard about it | What makes it correct |
|---|---|---|---|---|
| Output FIFO, `x10_write.c` | `Outrecs` (256), `Outhead`, `Outtail`, `Outbusy`, `PollTimeOut` | `x10_write`, `send_next_x10out` | wrap-around, overflow, an ACK that never comes or comes late, frames that bypass the queue, a timeout that traffic puts off | FIFO; nothing overtakes; never busy for good while the traffic has gaps |
| USB transfers, `mochad.c` | `IntrOut_transfer`, `IntrIn_transfer`, `Devh`, `Do_exit` | `write_usb`, `IntrOut_cb`, `IntrIn_cb`, start, cancel and free at exit | an error path that handles events inside a write, so callbacks run inside handlers; transfers in flight when the loop ends | a frame is delivered at most once, in order; the daemon never waits deaf; each transfer is freed once; unplugging ends the daemon |
| Device tables, `x10state.c`, `decode.c` | `HouseUnitState`, `HouseUnitSelected`, `HouseUnitDim`, `X10protostate` | `hua_add`, `hua_func*`, `hua_setstatus_xdim`, `hua_sec_init` | a command takes several frames; selections of earlier frames matter | tables say what the frames said; the two tables of a unit agree |
| Security sensors, `x10state.c` | `X10sensors`, `X10sensorcount` | `hua_sec_event`, `hua_show` (sorts), `hua_sec_init`, `hua_getstatus_sec` | a full table, two address formats, sorting in place | one entry per sensor, holding its latest event |
| Duplicate filter, `decode.c` | `dups` (16) | `dup_filter` | time, 32 bit arithmetic, eviction | drops copies and nothing else |
| Client sockets and main loop, `mochad.c` | three tables of 32, counters, the poll array, `Do_exit` | `add_*client`, `del_client`, `copy_clients`, the loop, signals | `poll` works on a copy; early exits on `nready`; blocking accept; failing accept; descriptors that run out | no socket forgotten, none read after it was closed, everyone served |
| Line assembly, `encode.c` | `remainder`, static | `cm15a_encode` | TCP cuts lines anywhere; all clients share one buffer | a command is a line that one client sent |
| Frames, `encode.c`, `decode.c` | none | the `*_tx_*` encoders, `cm15a_decode_plc`, `_rf` | two code tables, check bytes, parities, truncation | decode is the inverse of encode |
| Command dispatch and repeaters, `encode.c`, `decode.c` | `RfToPl16`, `RfToRf16` | `processcommandline`, `cm15a_decode`, `repeatRF` | one frame causes others, which the daemon decodes as well; a packet may be decoded inside a command; frames are decoded before they are queued, and may be lost or overtaken after it | tables and filter see the line as it was; no storm of frames; the tables know the modules |
| SensorFlare bridge, `sensorflare.c` | AMQP connections, receiver threads | `receiver`, `sendMessage`, `init_sensorflare` | a second thread with no locks; no acknowledgements; `exit` on failure; no timeout on a dead connection | one receiver at a time; no command lost |
| Printing, `print_decode.c`, `global.c` | none | formatting for text, XML and OpenRemote clients | none | out of scope: formatting and output |
| Perl and Python clients, build, udev, hotplug | - | - | - | out of scope |

## 2. Plan

How the modules build on each other:

- `FrameFifo` is the abstract queue; `X10Write` implements it (`ImplementsFifo`).
- `X10State` and `DupFilter` say what the device tables and the filter promise on their own;
  `Gateway` composes both with the commands, the packets, the repeaters and the way of a frame to
  the line. It extends `X10State` and uses its operations as they are; that it uses the filter as
  `DupFilter` says is a property (`ImplementsFilter`). `MCGateway` instantiates it.
- `Daemon` is the process around all of that: threads, transfers, connections.
- `Clients`, `LineAssembly`, `SecSensors` and `Codec` stand alone: they share no state with the
  others but the calls named in their headers.

Every safety invariant and every action property of every passing run has a theorem; the five
liveness properties stay with TLC. Considered and not done: the end of `Daemon` as an abstract
process that owns two transfers. Its states would be those of `Owned` in `DaemonProofs`, and its
promise is `TransfersOwned`, which is proved.

## 3. Modules

### X10Write: the output FIFO and the OUT transfer

`x10_write`, `send_next_x10out`, `add_x10out`, `write_usb` and `IntrIn_cb` keep their names. A frame
is the serial number of the `x10_write` call that made it. `poll` returns for a transfer
(`PollUsb`), for anything else (`PollClient`: a command that makes some `x10_write` calls or none, a
connection, a packet whose decoding writes nothing), or because its time is over (`PollTimeout`).
`MainWrite` makes the calls of a handler and `PollAgain` goes back to `poll`, which starts to count
its two seconds anew; so `PollClient` may come for ever, whatever the bounds on frames and packets,
and then no timeout comes. `write_usb`'s error path calls `libusb_handle_events` up to 100 times,
and each call may run `IntrIn_cb` in the middle of the handler: `drain` and `cbDrain` hold the
rounds left, outside and inside a callback. Callbacks nest no deeper, since the IN transfer is
submitted again only at the end of `IntrIn_cb`.

External parts: the OUT transfer is `idle`, `flying`, or `done` (completed, completion not
handled yet); the controller takes a frame and answers it, late, never, or - with `Prompt` -
before the two seconds are over. A cancel may come too late.

### FrameFifo: what the output path promises

Frames are numbers. One is being sent at most; the others wait in order; a full queue refuses;
what is being sent is lost only when another frame is handed over before the controller has
taken it. No ring, no busy flag, no timer, no callbacks. `X10Write`'s `Fifo` gives the mapping:
what waits is the ring read from head to tail (`Waiting`), what is being sent is the transfer in
flight (`FlyingFrames`).

### X10State: device tables

`PlHouseUnit`, `PlHouseFunc`, `PlExtended`, `RfHouseUnit` are the branches of `cm15a_decode_plc`
and `cm15a_decode_rf` that touch the tables. A row of the selection table is the set of its
marked units. `log`, a history variable, is the list of operations, and the tables are compared
with what the log says (`SelectedAfter`, `StatusAfter`, `LevelAfter`), a definition that knows
no table. X10State has a specification of its own, any operation at any time, about which the
proofs are; it is run as part of `Gateway`, whose calls are these operations.

### Gateway: commands, packets, repeaters

`todo` is the list of calls a command has still to make, `cbTodo` that of the packet in
`IntrIn_cb`. A call is `cm15a_decode_plc`, `cm15a_decode_rf` or `x10_write`; decoding an RF
command that passes the filter puts the calls of `repeatRF` and of the RF to PL repeater in
front. `Pl`, `Rf`, `Pt`, `RfToPlCommand`, `RfToRfCommand` and `St0` are the branches of
`processcommandline` that change anything. `drain` is set after an `x10_write` that gave its frame
up: only that error path handles USB events inside a command, so that a packet may then be decoded
in the middle of it.

A frame is decoded at once and written next; then it waits in `unsent` until the controller puts it
on the line (`Take`), unless the full ring refuses it, `write_usb` gives it up (both in
`x10_write`), or it is given up later, when it is cancelled or cannot be submitted (`GiveUp`).
Frames of other controllers are on the line at once (`Hear`) and wait in `unread` to be decoded
(`PlPacket`). How full the ring is depends on ACKs, which are `X10Write`'s; here any frame may be
refused. `seen` is what the tables saw, `line` what was on the power line, in order. `apart`
collects the reasons why the tables may not know the modules: a frame that was lost, or overtaken
(another controller sent while the daemon's own waited, or a command was decoded before a frame
already on the line); an RF command that is not repeated to the line or joins a selection, a nested
packet, raw frames, extended codes, functions without a state, and a function that acts on units
whose selection ST 0 has cleared (`Forgotten`).

### Daemon: the process, its transfers and its receivers

A program counter per thread: 0 is `mydaemon`, k the receiver of the k-th connection. The steps of
`mydaemon` are its calls from `find_cm15a` to `libusb_close`, with each `goto out` and `goto
out_deinit`. `IntrIn` is the IN transfer with its completion not yet handled (`ok`, `failed`);
`HandleEvents` is one call of `libusb_handle_events`, by whichever thread, and runs `IntrIn_cb`,
which `CbReturn` ends. `write_usb` has its error path with the counted loop. What is written and
decoded is left out (`DecodeWrites`: decoding may write). A receiver consumes, runs the command, and
when its connection fails closes it, calls `init_sensorflare`, which creates the next receiver, and
returns. A connection that fails is reset (`lost`), which `amqp_consume_message` reports, or goes
silent: nothing tells a receiver of that, since the call has no timeout and the connection no
heartbeat, and it waits for good, while the broker keeps what it has. The broker keeps what was
delivered and not acknowledged (`held`) and delivers it again over the next connection. `exit` in
any thread ends all (`Exit`).

### SecSensors: security sensors

A table is the sequence of its entries in use. The two address formats keep their validity check
(parity). `hua_show` sorts, with any order among equals (there are none, which is a property).
`GetStatusSec` is what GETSTATUSSEC answers. `latest` and `first` remember the events.

### DupFilter

`dup_filter` with its three outcomes, `Drop`, `Reuse`, `Add`. The loop stops at the entry it
finds, so only the entries before it are swept (`SweptBefore`). Times are 64 bit, but the search
for a victim keeps the smallest in an `int`: `ToInt` and `BelowInt` are that conversion and that
comparison. The clock may be read twice, with a tick between.

### Clients: sockets and main loop

The loop is a program counter `stage`, with one action per branch: fill the poll array (`Top`),
`Poll`, accept on each of the three ports or pass on, scan the copy. `nready` is decremented as in
the code and ends a round early. The kernel gives the lowest free descriptor, so numbers are reused.
A hangup and a closed descriptor count in `nready` but are not read. Behind the entries in use the
poll array keeps what earlier rounds left (`LeftAt`, `Leftover`); poll is given them only after a
failed accept, so they are kept in the state only where accept may fail (`faulty`, fixed at the
start: one run checks both kinds of system). `copy_clients` reads the tables row by row: `Rank` is
that order of entries, `Place` the place of an entry in the copy. An accept that fails is stored as
descriptor -1, which is what a free entry holds: only the counter changes, and only if the table has
room (`nfailed`). It fails because the connection was reset, which takes it off the queue, or
because no descriptor is left (EMFILE), and then the connection waits on and the next poll reports
it again. Each failure is one entry more for poll; past the end of the array (`InArray`) the C
program is undefined, and the model ends. `Clients[]` has 3 x 33 + 10 entries, 3 of them for the
listen sockets; `Room` is what libusb leaves when it uses 7. Signals: `Signal` between steps,
`PollInterrupted` and `AcceptInterrupted` inside the two blocking calls.

### LineAssembly

The loop of `cm15a_encode`, a byte per step. A byte carries who sent it. `remainder` is shared.
A connection is closed by the end of its stream or a read error (`ReadEnd`), and an OpenRemote one
also by its command, in the middle of the buffer. `read` is what `read` returned, `received` the
part of it that has been handled; its lines are pairs of where they start and where they end
(`LineSpans`), and `Rank` numbers them.

### Codec

The encoders and decoders as operators on byte sequences: what a command becomes on the air or
the line (`frame`), what the sending daemon tells its clients (`own`), and what another mochad
makes of it (`peer`). The names of security events and keys are four tables in the code, two in
each file, and four tables here; the texts of the decoder that differ only in the model of the
device are one name. A state is one command; there are no behaviours, only all the inputs.

## 4. Runs

| Run | Question | Bounds and why they are enough |
|---|---|---|
| `X10Write_slow` | Does the output path implement the abstract FIFO, and does the daemon never wait for good while the traffic has gaps, with a controller that answers late, never, or with other bytes, and transfers that fail? | 3 slots (2 frames wait, the third is refused, indices wrap), 5 frames so the ring goes round, 2 drain rounds, one foreign packet, `poll` interrupted any number of times |
| `X10Write_prompt` | With a controller that answers in time: is every frame sent only after the ACK of the one before, and delivered? | the CM19A's initial sequence (2 of its 8 frames: enough to be busy at start), 7 frames, so the ring wraps twice |
| `X10Write_late_ack` | *Expected violation*: "wait for X10ACK (0x55) before sending the next item" (x10_write.c:20) | 4 frames, and no packets but ACKs, so that it takes a late one |
| `Gateway` | Do the tables and the filter keep their promises when commands, packets and repeaters call each other, and do the tables know the modules on the line? | 2 houses x 2 units, three commands or packets of any kind (one inside another included), five RF commands, of which an own and a received one are the same, five PL frames clients ask for and four that others send; a clock of two ticks. Two constraints cut what shows nothing: more than one frame of the other house (`FewElsewhere`), and frames waiting for a line that has already parted from the tables (`LineMatters`). Three are enough for: select, nested packet, act; the same RF command three times; a setting, then both repeaters. What needs four (an address, ST 0, a function of the whole house, a function) is only in the theorem |
| `Gateway_dim` | *Expected violation*: "0 = house/unit code, 1 = house/function" (x10state.c:55) | as `Gateway` |
| `DupFilter` | Does the filter drop copies and only those? | 2 entries and 3 commands (evictions), two windows of time, a clock whose `int` form wraps inside the run |
| `SecSensors` | One entry each, latest event, also when full and after sorting? | room for 2 of 4 addresses, 4 events; one address above 8 bits; an alert, an alert with the tamper bit, a normal event |
| `Clients` | Are counters, tables and kernel consistent, and is everyone served, also when accepts fail, descriptors run out and signals come? | 2 entries per table and 3 descriptors, so that a table can be full and a client more come; 1 where something may fail, so that it is soon in use and its number reused, and 3 accepts that fail. That a failing accept on a full table changes no counter is only in the theorem |
| `LineAssembly` | Are commands exactly the lines of the stream? | 2 clients, one of them OpenRemote, 6 bytes cut anywhere: three commands, or two with empty lines; either may hang up at any time |
| `LineAssembly_shared` | *Expected violation*: left over input is completed by its own client (encode.c:808) | as above |
| `Codec` | Does the sender report what it sent, and does a peer read the same? | all 16 x 16 houses and units; amounts and addresses at the edges of their fields |
| `Daemon` | Does the daemon stay able to hear, own its transfers, end when it must, and run every command of the broker unless its connection goes silent? | 2 connections (one reconnect), 2 messages, drain loops of 2 rounds instead of 100: a loop is left by its count, by an error or by progress |

What they show:

- **Output path.** Frames reach the controller in the order of the calls and at most once,
  whatever fails (`DeliveredInOrder`); no frame is unaccounted for (`FrameAccounting`); while
  the daemon waits for the controller the poll timeout is armed (`TimerArmed`), and the queue
  drains if the traffic leaves gaps of two seconds (`QueueDrains`; without them it does not, see
  section 8). With a prompt controller nothing is lost (`NothingLost`), and a frame
  follows only the ACK of the one before (`WaitForAck`). With a slow one that is false, which is
  a finding: any one-byte packet moves the queue on. In the run a frame times out, the next one is
  lost because the transfer is still in flight, and the late ACK of the first is taken for the
  answer to it.
- **Tables.** A function acts on all units addressed since the last function, whatever other
  houses do in between; status and level agree.
- **Gateway.** When nothing is left to do, to send or to read the tables have seen the frames of the
  line in their order, also with packets decoded inside commands (`TablesSawTheLine`), unless the
  daemon lost a frame it had decoded, or frames of its own and of others crossed: each frame is
  decoded directly before it is written, and what waits is sent in that order. A command writes at
  most four frames, a packet three (`NoStorm`): what a repeater writes to the air is not decoded,
  and what it decodes is PL, which is not repeated. Where nothing in `apart` happened the tables
  hold the state of the modules (`TablesKnowTheModules`). A Dim breaks that (a finding).
- **Daemon.** It never waits in `poll` without the IN transfer in flight or reported
  (`HearsController`); on every way through start, loop and end transfers are freed once and not
  used afterwards, unless a receiver thread has written (`TransfersOwned`); unplugging ends it
  (`UnplugEnds`); one receiver consumes at a time (`OneReceiver`), and a command is run as long
  as there is a receiver whose connection has not gone silent (`CommandsRun`).
- **Filter.** A command is dropped only within the window after one that was let through, and a
  copy gets through only when the table was too small, even with the `int` minimum.
- **Sensors.** Each sensor has one entry with its latest event, also after sorting and with a
  full table; GETSTATUSSEC reports no alarm that is over.
- **Sockets.** The counters drift by the accepts that failed and by nothing else; until one
  fails no socket is read after its close. Every reported descriptor is handled in its round,
  accept never blocks before a signal, and every connection is accepted or reset as long as there
  are descriptors (`EveryoneAccepted`).
- **Lines.** Commands are the lines of the concatenated stream, and no byte that was read is passed
  over, not even behind a command that closed its connection. With two clients this stream
  mixes them (a finding).
- **Frames.** What the daemon reports for its own frame is what another mochad reads. Amounts
  that do not fit a frame are cut the same way on both sides.

Every property has a mutant: a changed definition, kept beside the original and unused by it,
with which the run finds the property violated.

## 5. Fairness

- `X10Write`: weak fairness of the daemon's own steps (one thread that does nothing but run
  handlers, and a poll that nothing interrupts times out). This does not make `PollTimeout`
  happen: poll starts to count anew at every return, `PollClient` may come again and again, and
  the weakly fair steps are then those of its handlers. That the traffic has gaps is nothing the
  code gives, so it is a premise of `QueueDrains` and not part of the specification
  (`GapsInTraffic`: some of the polls that could time out do). `FramesArrive` needs no timeout. With
  `Prompt` also of the controller taking and answering a frame, since that is what `Prompt`
  says; without it the controller owes nothing.
- `Daemon`: weak fairness of `mydaemon` and of each receiver: threads that the scheduler runs,
  `poll` returning when a transfer has completed. It takes `libusb_handle_events`, `send` to a
  client, `sendMessage` and the calls that open and close a connection to return or fail, and
  `accept` to return, also after a signal (section 8): a client that does not read, or a broker
  that is silent while the daemon publishes, can delay the end that `UnplugEnds` promises.
  `amqp_consume_message` is not taken to return on a silent connection: without a message only a
  reset ends it. A transfer on a controller that is gone is reported as
  failed, which is what the kernel does at a disconnect. The broker delivers what it has while a
  connection is open. Nothing forces `Do_exit`, a packet, a lost connection or a message.
- `Clients`: weak fairness of the daemon's steps and of `Poll` while a connection waits. It takes
  handlers to return: a `send` to a client that does not read blocks (its socket is blocking), and
  with it the loop, which is not modelled. Clients are never forced to connect, send or close, so
  descriptors that are all in use may stay so; `EveryoneAccepted` says nothing of that time.
  `MAXFAILED` is a bound of the runs only. Signals have no fairness.

## 6. Proofs

All proofs are for every value of the constants that the named assumptions allow.

- `X10WriteProofs`. Assumptions: at least two slots, at least one drain round. `QueueInOrder`
  (the ring holds increasing frame numbers) is not inductive: a frame that bypasses the ring
  must find it empty (`IdleMeansEmpty`), a frame put at the tail must be newer than all before
  (every number up to `nframes`), and a frame taken off the head must be newer than what has
  been handed to `write_usb`. `FlightInOrder` ties `lastWritten`, the frame in flight and the
  frames delivered together. `CoreInv` is their conjunction; one lemma per function of
  `x10_write.c` (`WriteUsbStep`, `DequeueStep`, `EnqueueStep`, `SendNextStep`, `X10WriteStep`)
  shows that it keeps `CoreInv`, and `InvStep` cites them once for each place that calls the
  function, nested callbacks included. `TypeCorrect`, `NeverOvertakes`, `RingIsFifo` follow from
  the invariant, `DeliveryOrder` from the invariant and the step (`NewestDelivered`).
  `Cm15aTimer` adds that an empty initial sequence leaves nothing busy before the loop, which
  gives `TimerArmed`; with frames in the initial sequence it is false (section 8).
  `OutputIsAFifo`: `Spec => Fifo!Spec`. `RingAppend`, `RingTail` and `RingSame` say what writing
  a slot and moving an index do to the ring read as a sequence, across the wrap-around; then one
  lemma per function again (`SendMaps`, `SendNextMaps`, `WriteMaps`), each a step of the abstract
  queue, and `StepMaps` for the places that call them. Everything else is a stutter.
  `EveryFrameOnce` (`FrameAccounting`) uses that refinement: `Accounted`, that the five places of
  a frame are disjoint and hold all frames, is kept by the five steps of FrameFifo
  (`AccountStep`), so it needs no look at callbacks; `RingAccount` carries it over to the slots of
  the ring by a bijection, and `AccountsAdd` adds up the cardinalities.
  `PromptLosesNothing` and `PromptWaits` (`NothingLost`, `WaitForAck`) assume `Prompt`, a
  controller that answers in time. Nothing in the code says that the transfer is idle when the
  next frame is submitted. It follows from where the last frame can be - in flight, taken and not
  answered, answered and not heard - which is `PromptInv`: `Outbusy` is clear only when it is in
  none of them.
- `GatewayProofs`, first part: the device tables alone (X10State). `TypeCorrect`, and
  `StatusAgreesWithLevel` (`StateDimAgree`), inductive together with the types: `FuncStep` shows it
  for `hua_func` and `hua_func_all` on any set of units. `TablesFollow` (`TablesFollowFrames`): the
  tables are compared with what the whole log says. `Follows` adds that `X10protostate` is 1 exactly
  if the last operation of the house was not an address (otherwise the next address would not start
  a new selection), and that the operations that set a unit have a last one, without which the
  `CHOOSE` of `StatusAfter` says nothing. `SelectedBy` and `ActsOn` are what one more operation does
  to the history, shown equal to what each branch of `decode.c` does.
- `GatewayProofs`, the gateway. `UsesFilter`: the gateway's steps are steps of DupFilter, or leave
  its variables alone; the lemma `UsesTables` says the same of X10State, whose operations they call.
  The inductive invariant `CallsOK` says that the calls left to do carry frames and commands of the
  model, which needs every way a list of calls is made (`CommandTypes`, `PacketTypes`,
  `RepeatersType`). `GatewayStatus` (`StateDimAgree`) and `GatewayTables` (`TablesFollowFrames`)
  then follow from the theorems of X10State without another look at the gateway. So do
  `GatewayFilterEntries`, `GatewayFilterDrops` and `GatewayFilterCopies` from those of
  `DupFilterProofs`: its instance `FilterFacts` and the instance `Filter` of Gateway are shown to be
  the same, definition by definition (`SameSearch`, `SameTable`, `SameStep`), and the assumptions of
  DupFilter are assumptions of Gateway too. `SawTheLine` (`TablesSawTheLine`): in every list of
  calls a frame is decoded directly before it is written (`Paired`), and a nested packet never finds
  a write pending, because it comes after one. So the frames the tables have seen and the line has
  not (`Own`) are those that wait to be sent and the one whose write is pending; those the line has
  had and the tables have not (`Unheard`) wait to be read or are being decoded. Until a frame is
  lost or overtaken, what was seen followed by `Unheard` is the line followed by `Own`, and one of
  the two is empty (`LineInv`); both are when nothing is left. `StormBound` (`NoStorm`): the calls
  left are a debt of writes - one for a write, three for an RF command that is still to be decoded -
  and `written` plus the debt stays within four per command and three per packet (`StormInv`). That
  lists are never longer than six, and an RF command is never decoded behind anything, is part of
  it. `RecursionEnds`: `processcommandline`, `cm15a_decode_rf` and `repeatRF` call each other, so it
  is not plain that a command comes to an end. `CallsLeft` counts the calls that are left, and five
  more for an RF command that is still to be decoded; it is at most seven and every call that is
  performed makes it smaller (`CallShrinks`). `KnowTheModules` (`TablesKnowTheModules`): an RF
  command is booked in the tables when it is decoded, and its address and function come to the line
  as later calls. `KnowInv` says that the tables are right (`Clean`), or wrong for one unit whose
  address (`Announced`) or function (`Addressed`) is the next frame they will see.
- `ClientsProofs`. `HoldOpenSockets` and `NoneForgotten` are inductive together (`Sound`): the
  number of a closed descriptor comes back, so an entry that outlived its socket would give a second
  client the first one's entry. `CountsDrift`, for any number of failures, needs both: `del_client`
  decrements the counter of the table it finds the descriptor in. `AcceptPrompt` needs `Waiting`: a
  connection that poll reported is there until its accept. `RoundServes` rests on `Dues`: what is
  left of `nready` covers what is still to be handled, listen sockets and inputs. `ReadsClients`
  rests on `Copied`: without failed accepts the part of the copy that is still to be read holds
  clients, each once, since only the socket that is read can be closed. That the copy has each entry
  once is `Places`: the place of an entry among those in use is a bijection, shown with the
  pigeonhole principle and `NatMin` (a nonempty set of naturals has a least element, from the
  well-foundedness of `<`; this form of induction has no operator parameter and can be used).
- `LineAssemblyProofs`. `LinesStream` (`LinesAreTheStream`). `CollectSpans` and `EndSpans` say what
  one more byte does to the lines of the stream: none, or one line from the last end to here, unless
  it is empty. A new line ends last, so the earlier ones keep their numbers. `remainder` is the
  stretch since the last end, which is why it is empty exactly if the line is.
  That no byte that was read is passed over (`Whole`) is kept by each step on its own.
- `DaemonProofs`. Three theorems rest on `Places`, where the threads are. `NeverDeaf`
  (`HearsController`): from the first submit to the end of the loop, at every place and not only in
  `poll`, the IN transfer is in flight, complete or in its callback unless `Do_exit` is set.
  `OneAtATime` (`OneReceiver`): only the receiver of the newest connection is at work, and there is
  none before `mydaemon` has connected. `NoDanglingTransfer` (`TransfersOwned`): as long as no
  receiver has written, the two transfers are at each place of `mydaemon` what the code there takes
  them for (`Owned`). `NoneDropped` is the safety half of `CommandsRun`: every message that was
  published waits at the broker, waits in the buffers, or has been run (`Kept`). A lost connection
  empties the buffers, so it takes that what they hold is also among what the broker has not had
  acknowledged (`Recoverable`); a silent one empties nothing.
- `CodecProofs`. `CommandsEchoed` and `PeersAgree` (`EchoMeansCommand`, `PeerAgrees`), for every
  natural amount and every address of 8 or 24 bits, where TLC tries those at the edges. There is
  one lemma per kind of frame (`HouseUnitFrame`, `FuncFrame`, `DimFrame`, `ExtendedFrame`,
  `StandardFrame`, `SecurityFrame8`, `SecurityFrame17`, `CameraFrame`), each for the decoding of
  the own frame and of every received form. They rest on the code tables being inverse to each
  other (`TablesInverse`), on a byte being its two nibbles (`Nibbles`), on a check byte of one kind
  never being one of the other (`ChecksDiffer`) - the decoder tells security from standard frames
  by it - and, for standard RF, on a unit being the four bits the encoder scatters over two bytes
  (`UnitBits`). The properties are not inductive: `own` and `peer` say nothing of the frame they
  come from, which `Inv` adds (`Sent`). `FramesDiffer` follows: no two commands share a frame
  unless they say the same. `AmountsWrap` says what becomes of amounts beyond the documented ones.
- `DupFilterProofs`. `NoSecondEntry` and `DropsOnlyCopies` (`OneEntryEach`,
  `DroppedOnlyAsCopy`). The invariant adds `Booked`: the time of an entry in use is `DUP_TIME`
  after its command was last let through, so an entry that has not expired proves that there is
  an original in the window. `WriteEntry` shows it for both actions that write an entry,
  whatever slot they choose, so the search for a victim is not needed. `FiltersCopies`
  (`CopiesFiltered`): `Remembered` says where a command can be that was let through: in the table,
  out of its window, or pushed out by another (`FullTable`). Then no entry had expired, so the
  commands of the other entries and the new one, `DUP_MAX` of them, were let through around it.
  Which entry the search gives up does not matter, however its `int` wraps, but that it is one
  does (`VictimInTable`). `SearchTo` is a recursive function: `SearchExists` and `SearchIs` show
  that it satisfies its equation, by the least entry for which it would not.
- `SecSensorsProofs`. `TypeCorrect`, `NoSecondEntry`, `AlarmsCurrent` (`TypeOK`, `OneEntryEach`,
  `AlarmsAreCurrent`). The invariant adds `Current`: each entry holds the latest event of its
  address; it is kept by an update because addresses are distinct, and by sorting because that
  is a bijection of the slots. `FollowsEvents` (`TableFollowsEvents`) adds which addresses those
  are: the first ones heard, as many as fit (`Told`, `Members`), so that a full table refuses new
  addresses and keeps the old ones up to date (`Fresh`).

The types of X10State and SecSensors are theorems (`TypeCorrect`) and no run repeats them; those of
DupFilter are part of the invariant of its proofs.

Only model-checked: liveness (`QueueDrains`, `FramesArrive`, `EveryoneAccepted`, `UnplugEnds`,
`CommandsRun`) under the fairness of section 5, which is out of the prover's reach. `NoneDropped`,
`RecursionEnds`, `Cm15aTimer` and `NoneForgotten` are the safety facts some of it rests on.

Three proof attempts failed for a reason that was in the model:

- `TablesKnowTheModules` held in the run only because of its three commands. ST 0 clears the
  selection in the tables and not in the modules, so after an address, ST 0, ALL OFF and a
  function of the house the tables take a unit for off that the line has switched on. The reason
  is now in `apart` (`Forgotten`) and in section 8.
- `CountsDriftByFailures` held only because the run never had an accept that fails on a full
  table: `add_client` then counts nothing. `nfailed` now counts failures that found room.
- An OpenRemote connection was closed after its command whether or not it had an entry.
  `del_client` closes what it finds (mochad.c:322-328); `ReadData` now says so.

## 7. Not modelled

- **Two threads in one function.** The receiver thread and the daemon's thread share `strtok`,
  the ring, the tables and the filter without a lock. `Daemon` has both threads with their
  transfers and connections, but what their accesses do to each other is undefined behaviour
  that nothing in the source says anything about, so every property of the other modules is
  about one thread, and `TransfersOwned` stops where a receiver has written.
- **Text.** Reading commands and printing messages, XML, hexadecimal; `sockprintf` and what a client
  that does not read may cost (its `send` blocks the loop); what an over-long line does to memory
  (encode.c:814, `sprintf` into small buffers in encode.c:763).
- **USB descriptors** (`get_endpoint_address` succeeds or fails), attaching the kernel driver
  again, daemonising, hotplug scripts. `CMINIT` and the first `RFTOPL` branch are compiled out.
- **The clock set back** (`dup_filter` uses wall-clock time, decode.c:592).
- RFXSensor and other RF devices that only print; camera keys beyond their codes;
  `status_reporting`, which nothing calls; `amqp_dump`.
- Perl and Python clients, build files.

## 8. Divergences seen while modelling that no run shows

- **CM19A start.** `PollTimeOut` is set to -1 (mochad.c:743) after `initcm1Xa` has written the
  frames of `initcm19abinary` and armed it. If the first ACK is lost the daemon waits without a
  timeout and stays busy for good: `TimerArmed` and `QueueDrains` are false with `InitFrames >
  0` and a controller that is not prompt.
- **Starvation by traffic.** `send_next_x10out` runs on a timeout only if nothing at all was ready
  for two seconds (mochad.c:757-767). After a lost ACK, clients that ask for their status, or RF
  packets, more often than that hold the output for good. In X10Write `QueueDrains` without its
  premise is false for this reason.
- **Decoded before sent.** The tables follow a frame before `x10_write` has taken it, and nothing
  takes that back when the ring refuses it (x10_write.c:56-59) or `write_usb` gives it up
  (mochad.c:575-583). They then know states no module has; `apart` says `lost`.
- **No descriptors left.** A client that finds its table full keeps its descriptor (mochad.c:780).
  When none is left accept fails, the connection stays queued, and the loop turns without pause,
  adding one to a counter and so to the entries given to poll at each turn until the table is
  full; nothing checks them against the end of `Clients` (mochad.c:60).
- **Any extended code** sets the level (decode.c:335, 363); x10state.c:53 says "as set by xdim".
- **Eviction** (decode.c:655-660): when the `int` minimum is negative every later entry compares
  below it, so the victim is not the entry closest to expiring. The window is 650 ms; the
  comment at decode.c:597 speaks of 100.
- **Sensor kind** (`secaddr8`) is not updated when an address of the other kind with the same
  number reports (x10state.c:92), and alert codes with the tamper bit are unknown to
  `hua_getstatus_sec`.
- **House arguments**: `getdeviceaddr` takes A0, A00 and A17 as the whole house
  (encode.c:275-281, 311).
- **ST 0** clears the selection in the tables, which the modules keep: a following function acts
  on units for which the tables book nothing (x10state.c:65-74).
- **Names of delays**: `SecEventNames` calls 0x01 min and 0x05 max; by decode.c:376 bit 2 set is
  min.
- **A failed accept** is stored as a client: `NClients` is then one too high for good
  (mochad.c:65 says "# of valid entries in Clientsocks"), and poll is given an entry left from
  an earlier round (mochad.c:777). `CountsDriftByFailures` counts it.
- **Own commands are repeated**: `repeatRF` is called for commands the daemon transmits itself,
  though decode.c:563 speaks of a "received RF command".
- **PT** writes to the controller without showing the bytes to the tables, so they can be wrong
  after it (encode.c:711).
- **A packet inside a command** changes the selection between the address and the function of
  the command (mochad.c:580).
- **Every command again**: the receiver consumes with `no_ack` 0 and never acknowledges
  (sensorflare.c:333), so after each reconnect all commands since the queue was made are run
  again.
- **A lost connection ends the daemon**: the receiver closes the channel of a connection that is
  gone, which fails, and `die_on_amqp_error` exits (sensorflare.c:264). It reconnects only when
  something else than a message came over a connection that still works.
- **A silent connection** is never noticed: `amqp_consume_message` has no timeout
  (sensorflare.c:214) and the connection no heartbeat (sensorflare.c:329), so the receiver waits
  for good and commands stay at the broker.
- **OpenRemote.** One that hangs up before its line is complete is closed without a command, and
  what it sent is left in `remainder` for the next client. At its end its descriptor is closed
  twice (mochad.c:810-811, 322-328).
- **Without sensorflare.conf** `sensorflare_connected` is 0, but `sendMessage` does not look at
  it: it logs in without a user name, which ends the daemon at its first message (mochad.c:734).
- **"persistent delivery mode"** is the comment beside `delivery_mode = 1` (sensorflare.c:176),
  which is not persistent.
- **The end.** With no frame in flight cancelling the OUT transfer fails, and `mydaemon` frees
  the IN transfer while it is in flight and ends with a non-zero code after SIGTERM
  (mochad.c:830-834). `IntrOut_transfer` is never NULL, so the drain loop runs all its 100
  rounds of up to 60 seconds (mochad.c:843). The kernel driver is attached through a handle that
  is closed (mochad.c:858-859).
- **Signals**: one that arrives just before `poll` is seen only when poll returns; one inside
  `poll` leaves `revents` of an earlier round, and the loop may then block in `accept`
  (mochad.c:757-777).
- **`pl a xdim`**: README:94 offers it for a house; encode.c:626 refuses a command without a
  unit.
