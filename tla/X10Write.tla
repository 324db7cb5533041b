------------------------------ MODULE X10Write ------------------------------
(***************************************************************************)
(* The output path of mochad: the FIFO of x10_write.c in front of the one  *)
(* USB OUT transfer of mochad.c (write_usb), and the two events that move  *)
(* it on: a one byte IN packet (IntrIn_cb) and the expiry of the poll      *)
(* timeout.  libusb and the controller are external and are modelled from  *)
(* how mochad.c uses them.                                                 *)
(*                                                                         *)
(* A frame is the serial number of the x10_write call that made it: the    *)
(* bytes do not matter here, which frame is where does.                    *)
(*                                                                         *)
(* One thread runs everything.  A handler is interrupted at one place      *)
(* only: write_usb's error path calls libusb_handle_events up to DRAIN     *)
(* times, and each call may run IntrIn_cb.  todo and drain describe what   *)
(* the main loop's handler has left to do, cbTodo and cbDrain the same for *)
(* an IntrIn_cb that runs inside it.  The IN transfer is submitted again   *)
(* only when IntrIn_cb ends, so callbacks nest no deeper.                  *)
(***************************************************************************)
EXTENDS Integers, FiniteSets

CONSTANTS
  OUTPTRSSIZE,  \* slots of Outrecs, 256 in the code
  DRAIN,        \* rounds of write_usb's error path, 100 in the code
  InitFrames,   \* length of initcm15abinary (0) or initcm19abinary (8)
  Bursts,       \* how many frames one command or one received packet writes
  Prompt,       \* TRUE: every frame is answered in time and no transfer fails
  MAXFRAMES,    \* bound on the x10_write calls of a behaviour
  MAXPACKETS    \* bound on the IN packets that are not the ACK of a frame

ASSUME SizeAssumption == OUTPTRSSIZE \in Nat /\ OUTPTRSSIZE >= 2
ASSUME DrainAssumption == DRAIN \in Nat \ {0}
ASSUME BurstAssumption == InitFrames \in Nat /\ Bursts \subseteq Nat
ASSUME BoundAssumption == MAXFRAMES \in Nat /\ MAXPACKETS \in Nat
ASSUME PromptAssumption == Prompt \in BOOLEAN

VARIABLES
  Outrecs, Outhead, Outtail, Outbusy,  \* x10_write.c
  PollTimeOut,                         \* global.h: ms, or -1 for no timeout
  phase,                 \* mydaemon: "start", then "loop" at poll or in an
                         \* event of the USB side, "serve" in a handler
  todo, drain,           \* main loop's handler: calls left, rounds left
  inCb, cbTodo, cbDrain, \* IntrIn_cb: running, calls left, rounds left
  outState, outFrame,    \* IntrOut_transfer and the frame it carries
  inPkt,                 \* the packet the controller has ready for IN
  owed,                  \* frames the controller took and has not answered
  packets,               \* IN packets so far that are not an ACK
  (* history *)
  nframes,               \* x10_write calls so far
  lastWritten,           \* last frame handed to write_usb
  lastAck,               \* last frame whose ACK IntrIn_cb has seen
  delivered,             \* frames the controller took
  dropped,               \* frames refused by a full queue
  lost                   \* frames write_usb gave up or cancelled

queueVars == <<Outrecs, Outhead, Outtail, Outbusy>>
usbVars   == <<outState, outFrame, owed, delivered, lost>>
mainVars  == <<phase, todo, drain>>
cbVars    == <<inCb, cbTodo, cbDrain>>
vars == <<queueVars, PollTimeOut, usbVars, mainVars, cbVars, inPkt, packets,
          nframes, lastWritten, lastAck, dropped>>

Slots  == 0 .. OUTPTRSSIZE - 1
Infinite == -1          \* poll waits without a timeout
AckWait  == 2 * 1000    \* poll waits two seconds

NoPkt == [kind |-> "none", frame |-> 0]
OtherPkts == {[kind |-> k, frame |-> 0] : k \in {"byte", "data"}}
AckOf(f) == [kind |-> "ack", frame |-> f]

(***************************************************************************)
(* The queue of x10_write.c                                                *)
(***************************************************************************)

next_index_no_wrap(idx) == idx + 1
next_index(idx) == (idx + 1) % OUTPTRSSIZE

QueueEmpty == Outhead = Outtail
QueueFull_unchecked == FALSE
QueueFull == next_index(Outtail) = Outhead

\* The slots that hold frames waiting to be written: after Outhead up to and
\* including Outtail, wrapping at the end of Outrecs.
Queued == IF Outhead <= Outtail
          THEN {i \in Slots : Outhead < i /\ i <= Outtail}
          ELSE {i \in Slots : Outhead < i \/ i <= Outtail}

add_x10out_old_slot(f) ==
  /\ UNCHANGED <<Outhead, Outbusy, dropped>>
  /\ ~QueueFull
  /\ Outtail' = next_index(Outtail)
  /\ Outrecs' = [Outrecs EXCEPT ![Outtail] = f]

add_x10out(f) ==
  /\ UNCHANGED <<Outhead, Outbusy>>
  /\ \/ /\ QueueFull
        /\ dropped' = dropped \cup {f}
        /\ UNCHANGED <<Outrecs, Outtail>>
     \/ /\ ~QueueFull
        /\ Outtail' = next_index(Outtail)
        /\ Outrecs' = [Outrecs EXCEPT ![Outtail'] = f]
        /\ UNCHANGED dropped

(***************************************************************************)
(* write_usb.  The OUT transfer can be submitted only while it is not in   *)
(* flight, that is, until the completion of its last use has been handled. *)
(* A submit that fails cancels whatever is in flight and then handles      *)
(* events.  The result is ignored by every caller.                         *)
(***************************************************************************)

Submit(f) ==
  /\ outState = "idle"
  /\ outState' = "flying"
  /\ outFrame' = f
  /\ UNCHANGED <<owed, delivered, lost>>

SubmitBusy_second_transfer(f) ==
  /\ outState = "flying"
  /\ delivered' = delivered \cup {f}
  /\ owed' = owed \cup {f}
  /\ UNCHANGED <<outState, outFrame, lost>>

SubmitBusy(f) ==      \* LIBUSB_ERROR_BUSY, then libusb_cancel_transfer
  /\ outState # "idle"
  /\ outState' = "done"
  /\ UNCHANGED outFrame
  /\ \/ /\ outState = "flying"     \* cancelled in time
        /\ lost' = lost \cup {outFrame, f}
        /\ UNCHANGED <<owed, delivered>>
     \/ /\ outState = "flying"     \* the controller has just taken it
        /\ lost' = lost \cup {f}
        /\ delivered' = delivered \cup {outFrame}
        /\ owed' = owed \cup {outFrame}
     \/ /\ outState = "done"
        /\ lost' = lost \cup {f}
        /\ UNCHANGED <<owed, delivered>>

SubmitError(f) ==     \* any other error of libusb_submit_transfer
  /\ ~Prompt
  /\ outState = "idle"
  /\ lost' = lost \cup {f}
  /\ UNCHANGED <<outState, outFrame, owed, delivered>>

write_usb(f, rounds, roundsNext) ==
  /\ lastWritten' = f
  /\ \/ Submit(f) /\ roundsNext = rounds
     \/ (SubmitBusy(f) \/ SubmitError(f)) /\ roundsNext = DRAIN

send_next_x10out_early_idle(rounds, roundsNext) ==
  /\ UNCHANGED <<Outrecs, Outtail, nframes, dropped>>
  /\ Outbusy /\ ~QueueEmpty
  /\ Outbusy' = FALSE
  /\ Outhead' = next_index(Outhead)
  /\ write_usb(Outrecs[Outhead'], rounds, roundsNext)
  /\ UNCHANGED PollTimeOut

send_next_x10out_stays_busy(rounds, roundsNext) ==
  /\ UNCHANGED <<Outrecs, Outtail, Outbusy, PollTimeOut, nframes, dropped>>
  /\ \/ /\ QueueEmpty
        /\ roundsNext = rounds
        /\ UNCHANGED <<Outhead, lastWritten, usbVars>>
     \/ /\ Outbusy /\ ~QueueEmpty
        /\ Outhead' = next_index(Outhead)
        /\ write_usb(Outrecs[Outhead'], rounds, roundsNext)

send_next_x10out(rounds, roundsNext) ==
  /\ UNCHANGED <<Outrecs, Outtail, nframes, dropped>>
  /\ \/ /\ ~Outbusy
        /\ roundsNext = rounds
        /\ UNCHANGED <<Outhead, Outbusy, PollTimeOut, lastWritten, usbVars>>
     \/ /\ Outbusy /\ QueueEmpty
        /\ Outbusy' = FALSE
        /\ PollTimeOut' = Infinite
        /\ roundsNext = rounds
        /\ UNCHANGED <<Outhead, lastWritten, usbVars>>
     \/ /\ Outbusy /\ ~QueueEmpty
        /\ Outhead' = next_index(Outhead)
        /\ write_usb(Outrecs[Outhead'], rounds, roundsNext)
        /\ UNCHANGED <<Outbusy, PollTimeOut>>

x10_write_past_full(rounds, roundsNext) ==
  /\ nframes' = nframes + 1
  /\ \/ /\ Outbusy /\ ~QueueFull
        /\ add_x10out(nframes')
        /\ roundsNext = rounds
        /\ UNCHANGED <<PollTimeOut, lastWritten, usbVars>>
     \/ /\ ~Outbusy \/ QueueFull
        /\ Outbusy' = TRUE
        /\ PollTimeOut' = AckWait
        /\ write_usb(nframes', rounds, roundsNext)
        /\ UNCHANGED <<Outrecs, Outhead, Outtail, dropped>>

x10_write_no_timer(rounds, roundsNext) ==
  /\ ~Outbusy
  /\ nframes' = nframes + 1
  /\ Outbusy' = TRUE
  /\ write_usb(nframes', rounds, roundsNext)
  /\ UNCHANGED <<Outrecs, Outhead, Outtail, dropped, PollTimeOut>>

x10_write_no_queue(rounds, roundsNext) ==
  /\ nframes' = nframes + 1
  /\ Outbusy' = TRUE
  /\ PollTimeOut' = AckWait
  /\ write_usb(nframes', rounds, roundsNext)
  /\ UNCHANGED <<Outrecs, Outhead, Outtail, dropped>>

x10_write(rounds, roundsNext) ==
  /\ nframes' = nframes + 1
  /\ \/ /\ Outbusy
        /\ add_x10out(nframes')
        /\ roundsNext = rounds
        /\ UNCHANGED <<PollTimeOut, lastWritten, usbVars>>
     \/ /\ ~Outbusy
        /\ Outbusy' = TRUE
        /\ PollTimeOut' = AckWait
        /\ write_usb(nframes', rounds, roundsNext)
        /\ UNCHANGED <<Outrecs, Outhead, Outtail, dropped>>

(***************************************************************************)
(* IntrIn_cb: a packet of length one moves the queue on, whatever byte it  *)
(* holds; a longer one goes to cm15a_decode, which may write frames (the   *)
(* RF to PL and RF to RF repeaters).                                       *)
(***************************************************************************)

OneByte_any_length(p) == p.kind # "none"
OneByte(p) == p.kind \in {"ack", "byte"}

\* libusb handles completions in the order they happened, and the controller
\* answers a frame only after it took it.
InReady == inPkt # NoPkt /\ ~(outState = "done" /\ inPkt = AckOf(outFrame))

IntrIn_cb ==
  /\ inCb' = TRUE
  /\ inPkt' = NoPkt
  /\ lastAck' = IF inPkt.kind = "ack" THEN inPkt.frame ELSE lastAck
  /\ \/ /\ OneByte(inPkt)
        /\ send_next_x10out(cbDrain, cbDrain')
        /\ UNCHANGED cbTodo
     \/ /\ inPkt.kind = "data"
        /\ cbTodo' \in Bursts
        /\ UNCHANGED <<queueVars, PollTimeOut, usbVars, cbDrain, nframes,
                       lastWritten, dropped>>

\* An x10_write call made by cm15a_decode inside the callback.
CbWrite ==
  /\ inCb /\ cbDrain = 0 /\ cbTodo > 0
  /\ nframes < MAXFRAMES
  /\ cbTodo' = cbTodo - 1
  /\ x10_write(cbDrain, cbDrain')
  /\ UNCHANGED <<mainVars, inCb, inPkt, packets, lastAck>>

\* libusb_submit_transfer(IntrIn_transfer) at the end of the callback.
CbReturn ==
  /\ inCb /\ cbDrain = 0
  /\ cbTodo = 0 \/ nframes = MAXFRAMES
  /\ inCb' = FALSE
  /\ cbTodo' = 0
  /\ UNCHANGED <<queueVars, PollTimeOut, usbVars, mainVars, cbDrain, inPkt,
                 packets, nframes, lastWritten, lastAck, dropped>>

(***************************************************************************)
(* The error path of write_usb: libusb_handle_events, DRAIN times or until *)
(* it fails.                                                               *)
(***************************************************************************)

\* IntrOut_cb does nothing, but once it has run the transfer may be reused.
IntrOut_cb ==
  /\ outState = "done"
  /\ outState' = "idle"
  /\ UNCHANGED <<outFrame, owed, delivered, lost>>

\* A round inside IntrIn_cb: its own transfer is not submitted, so only the
\* completion of the OUT transfer can be handled, and libusb versions that
\* refuse to handle events inside a callback fail the call.
CbDrain ==
  /\ inCb /\ cbDrain > 0
  /\ \/ IntrOut_cb /\ cbDrain' = cbDrain - 1
     \/ /\ outState # "done"            \* nothing happened
        /\ cbDrain' = cbDrain - 1
        /\ UNCHANGED usbVars
     \/ /\ cbDrain' = 0                  \* the call failed
        /\ UNCHANGED usbVars
  /\ UNCHANGED <<queueVars, PollTimeOut, mainVars, inCb, cbTodo, inPkt,
                 packets, nframes, lastWritten, lastAck, dropped>>

MainDrain ==
  /\ ~inCb /\ drain > 0
  /\ \/ /\ IntrOut_cb
        /\ drain' = drain - 1
        /\ UNCHANGED <<queueVars, PollTimeOut, cbVars, inPkt, nframes,
                       lastWritten, lastAck, dropped>>
     \/ /\ InReady
        /\ IntrIn_cb
        /\ drain' = drain - 1
     \/ /\ \/ outState # "done" /\ inPkt = NoPkt /\ drain' = drain - 1
           \/ drain' = 0                 \* the call failed
        /\ UNCHANGED <<queueVars, PollTimeOut, usbVars, cbVars, inPkt,
                       nframes, lastWritten, lastAck, dropped>>
  /\ UNCHANGED <<phase, todo, packets>>

(***************************************************************************)
(* mydaemon                                                                *)
(***************************************************************************)

\* The next x10_write call of the main loop's handler, or of initcm1Xa.
MainWrite ==
  /\ ~inCb /\ drain = 0 /\ todo > 0
  /\ nframes < MAXFRAMES
  /\ todo' = todo - 1
  /\ x10_write(drain, drain')
  /\ UNCHANGED <<phase, cbVars, inPkt, packets, lastAck>>

AtPoll == phase = "loop" /\ ~inCb /\ drain = 0 /\ todo = 0
UsbQuiet == outState # "done" /\ inPkt = NoPkt

\* What mydaemon does between initcm1Xa and the loop, as far as it touches
\* this state.
EnterLoop ==
  /\ phase = "start" /\ ~inCb /\ drain = 0 /\ todo = 0
  /\ phase' = "loop"
  /\ PollTimeOut' = Infinite
  /\ UNCHANGED <<queueVars, usbVars, todo, drain, cbVars, inPkt, packets,
                 nframes, lastWritten, lastAck, dropped>>

\* poll returns 0: nothing at all was ready for PollTimeOut milliseconds.  Every
\* poll call starts to count anew, so whatever keeps PollClient coming keeps
\* this step from ever being taken.
PollTimeout ==
  /\ AtPoll
  /\ PollTimeOut # Infinite
  /\ UsbQuiet
  /\ Prompt => outState = "idle" /\ owed = {}
  /\ send_next_x10out(drain, drain')
  /\ UNCHANGED <<phase, todo, cbVars, inPkt, packets, lastAck>>

\* poll reports a libusb descriptor: libusb_handle_events_timeout.
PollUsb ==
  /\ AtPoll
  /\ \/ /\ IntrOut_cb
        /\ UNCHANGED <<queueVars, PollTimeOut, cbVars, inPkt, nframes,
                       lastWritten, lastAck, dropped>>
     \/ InReady /\ IntrIn_cb
  /\ UNCHANGED <<mainVars, packets>>

\* poll returns for anything that is not the transfers' completion: a command
\* that writes frames or none, a connection, a packet whose decoding writes
\* nothing.  The USB events that are ready are handled before that.
PollClient ==
  /\ AtPoll /\ UsbQuiet
  /\ phase' = "serve"
  /\ todo' \in Bursts \cup {0}
  /\ UNCHANGED <<queueVars, PollTimeOut, usbVars, drain, cbVars, inPkt,
                 packets, nframes, lastWritten, lastAck, dropped>>

\* The handler is done: the loop goes back to poll.
PollAgain ==
  /\ phase = "serve" /\ ~inCb /\ drain = 0 /\ todo = 0
  /\ phase' = "loop"
  /\ UNCHANGED <<queueVars, PollTimeOut, usbVars, todo, drain, cbVars, inPkt,
                 packets, nframes, lastWritten, lastAck, dropped>>

\* The bound on x10_write calls cuts a handler short.
MainCut ==
  /\ ~inCb /\ drain = 0 /\ todo > 0 /\ nframes = MAXFRAMES
  /\ todo' = 0
  /\ UNCHANGED <<queueVars, PollTimeOut, usbVars, phase, drain, cbVars, inPkt,
                 packets, nframes, lastWritten, lastAck, dropped>>

(***************************************************************************)
(* The controller (external)                                               *)
(***************************************************************************)

DeviceTake ==
  /\ outState = "flying"
  /\ outState' = "done"
  /\ delivered' = delivered \cup {outFrame}
  /\ owed' = owed \cup {outFrame}
  /\ UNCHANGED <<queueVars, PollTimeOut, mainVars, cbVars, outFrame, lost,
                 inPkt, packets, nframes, lastWritten, lastAck, dropped>>

DeviceAck ==
  /\ inPkt = NoPkt
  /\ \E f \in owed : inPkt' = AckOf(f) /\ owed' = owed \ {f}
  /\ UNCHANGED <<queueVars, PollTimeOut, mainVars, cbVars, outState, outFrame,
                 delivered, lost, packets, nframes, lastWritten, lastAck,
                 dropped>>

DeviceOther ==
  /\ inPkt = NoPkt
  /\ packets < MAXPACKETS
  /\ packets' = packets + 1
  /\ inPkt' \in {p \in OtherPkts : Prompt => p.kind # "byte"}
  /\ UNCHANGED <<queueVars, PollTimeOut, mainVars, cbVars, usbVars, nframes,
                 lastWritten, lastAck, dropped>>

-----------------------------------------------------------------------------

Init ==
  /\ Outrecs = [i \in Slots |-> 0]
  /\ Outhead = 0 /\ Outtail = 0 /\ Outbusy = FALSE
  /\ PollTimeOut = 0
  /\ phase = "start" /\ todo = InitFrames /\ drain = 0
  /\ inCb = FALSE /\ cbTodo = 0 /\ cbDrain = 0
  /\ outState = "idle" /\ outFrame = 0
  /\ inPkt = NoPkt /\ owed = {} /\ packets = 0
  /\ nframes = 0 /\ lastWritten = 0 /\ lastAck = 0
  /\ delivered = {} /\ dropped = {} /\ lost = {}

Daemon == \/ MainWrite \/ MainCut \/ MainDrain
          \/ CbWrite \/ CbDrain \/ CbReturn
          \/ EnterLoop \/ PollTimeout \/ PollUsb \/ PollAgain
Device == DeviceTake \/ DeviceAck \/ DeviceOther
Next == Daemon \/ PollClient \/ Device

Spec == Init /\ [][Next]_vars

\* The daemon's thread keeps running: an event that stays ready is handled and
\* a handler ends.  A poll call that nothing interrupts times out; one that is
\* interrupted again and again need not.  Of the controller it is assumed only
\* that a Prompt one answers.
FairSpec ==
  /\ Spec
  /\ WF_vars(Daemon)
  /\ Prompt => WF_vars(DeviceTake) /\ WF_vars(DeviceAck)

-----------------------------------------------------------------------------
(***************************************************************************)
(* Properties                                                              *)
(***************************************************************************)

\* Every variable of the output path has its type; the indices stay inside
\* Outrecs (x10_write.c, next_index).
TypeOK ==
  /\ Outrecs \in [Slots -> Nat]
  /\ Outhead \in Slots /\ Outtail \in Slots
  /\ Outbusy \in BOOLEAN
  /\ PollTimeOut \in {0, Infinite, AckWait}
  /\ phase \in {"start", "loop", "serve"}
  /\ todo \in Nat /\ drain \in 0 .. DRAIN
  /\ inCb \in BOOLEAN /\ cbTodo \in Nat /\ cbDrain \in 0 .. DRAIN
  /\ outState \in {"idle", "flying", "done"} /\ outFrame \in Nat
  /\ inPkt \in [kind : {"none", "ack", "byte", "data"}, frame : Nat]
  /\ owed \subseteq Nat
  /\ packets \in Nat
  /\ nframes \in 0 .. MAXFRAMES /\ lastWritten \in Nat /\ lastAck \in Nat
  /\ delivered \subseteq Nat /\ dropped \subseteq Nat /\ lost \subseteq Nat

\* x10_write bypasses the queue whenever Outbusy is clear, so Outbusy may be
\* clear only while the queue is empty: otherwise a new frame would overtake
\* the ones that wait, and nothing would ever send those.
IdleMeansEmpty == ~Outbusy => QueueEmpty

\* How many calls of send_next_x10out it takes to reach slot i.
Place(i) == IF i > Outhead THEN i - Outhead ELSE i - Outhead + OUTPTRSSIZE

\* The ring keeps the frames in the order of the x10_write calls, behind
\* everything that was already handed to write_usb, across wrap-around,
\* overflow and nested callbacks.
QueueInOrder ==
  /\ \A i \in Queued : lastWritten < Outrecs[i] /\ Outrecs[i] <= nframes
  /\ \A i, j \in Queued : Place(i) < Place(j) => Outrecs[i] < Outrecs[j]

\* While the daemon waits for the controller the poll call has a timeout, or
\* a missing ACK would stop the output for good (x10_write sets PollTimeOut
\* only when it finds Outbusy clear).
TimerArmed == phase # "start" /\ Outbusy => PollTimeOut = AckWait

\* The controller takes each frame once, and in the order of the x10_write
\* calls, even when transfers fail, are cancelled, or the queue overflows.
DeliveredInOrder ==
  [][\A f \in delivered' \ delivered : \A g \in delivered : g < f]_delivered

QueuedFrames == {Outrecs[i] : i \in Queued}
FlyingFrames == IF outState = "flying" THEN {outFrame} ELSE {}

\* No frame vanishes and none is in two places: every x10_write call so far is
\* waiting in the ring, in flight, taken by the controller, refused by a full
\* ring, or given up by write_usb.
FrameAccounting ==
  /\ 1 .. nframes
       = QueuedFrames \cup FlyingFrames \cup delivered \cup dropped \cup lost
  /\ nframes = Cardinality(Queued) + Cardinality(FlyingFrames)
               + Cardinality(delivered) + Cardinality(dropped)
               + Cardinality(lost)

-----------------------------------------------------------------------------
(***************************************************************************)
(* The output path implements FrameFifo.                                   *)
(***************************************************************************)

RingLen == IF Outhead <= Outtail THEN Outtail - Outhead
           ELSE Outtail - Outhead + OUTPTRSSIZE

\* The slot of the k-th frame that waits.
SlotAt(k) == IF Outhead + k < OUTPTRSSIZE THEN Outhead + k
             ELSE Outhead + k - OUTPTRSSIZE

Waiting == [k \in 1 .. RingLen |-> Outrecs[SlotAt(k)]]

Fifo == INSTANCE FrameFifo WITH
  Capacity <- OUTPTRSSIZE - 1,
  count    <- nframes,
  waiting  <- Waiting,
  sending  <- FlyingFrames,
  taken    <- delivered,
  refused  <- dropped,
  failed   <- lost

\* The ring, the transfer with its error path, the callbacks that run inside
\* handlers and the timer together are a queue: "store up pending output then
\* wait" (x10_write.c:20-23).
ImplementsFifo == Fifo!Spec

\* With a controller that answers in time no frame is given up by write_usb:
\* the OUT transfer is never submitted while it is still in flight.
NothingLost == lost = {}

\* "wait for X10ACK (0x55) before sending the next item from the queue"
\* (x10_write.c): while the daemon is busy with a frame, only the ACK of that
\* very frame or the expiry of the two seconds moves the output on.
WaitForAck ==
  [][Outbusy /\ (lastWritten' # lastWritten \/ Outbusy' # Outbusy)
       => lastAck' = lastWritten \/ PollTimeout]_vars

\* Some of the polls that could time out do: the traffic leaves a gap of two
\* seconds now and then.
GapsInTraffic == SF_vars(PollTimeout)

\* Whatever the controller does, fails or leaves unanswered, the output path
\* does not stay busy and each frame that waits is handed to write_usb, if the
\* traffic has gaps: send_next_x10out runs on nready = 0 (mochad.c:766), and
\* polls that keep returning for something else hold the output for good.
QueueDrains == GapsInTraffic => (Outbusy ~> ~Outbusy)

\* With a controller that answers in time, every frame that was not refused
\* by a full ring reaches it.
FramesArrive ==
  \A f \in 1 .. MAXFRAMES : f <= nframes ~> f \in delivered \cup dropped

=============================================================================
