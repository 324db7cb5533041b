--------------------------- MODULE X10WriteProofs ---------------------------
(***************************************************************************)
(* Theorems about the output path, for every queue size, every number of   *)
(* drain rounds and every controller.                                      *)
(*                                                                         *)
(* QueueInOrder is not inductive alone: a frame that bypasses the queue    *)
(* must find it empty (IdleMeansEmpty), and a frame that reaches the       *)
(* controller must be newer than those before it, which follows from what  *)
(* is in flight (FlightInOrder).                                           *)
(*                                                                         *)
(* The last part: the output path implements FrameFifo.  The refinement    *)
(* mapping reads the ring as a sequence; the invariant is needed because a *)
(* frame that bypasses the queue must find it empty.  That every frame is  *)
(* in one place is then shown for the steps of FrameFifo, and only carried *)
(* over to the ring.                                                       *)
(***************************************************************************)
EXTENDS X10Write, SequenceTheorems, FiniteSetTheorems, TLAPS

\* What (idx + 1) % OUTPTRSSIZE is for an index of Outrecs (x10_write.c,
\* next_index).
LEMMA NextIndex ==
  \A i \in Slots : /\ next_index(i) = IF i = OUTPTRSSIZE - 1 THEN 0 ELSE i + 1
                   /\ next_index(i) \in Slots
BY SizeAssumption DEF next_index, Slots

-----------------------------------------------------------------------------
(***************************************************************************)
(* The part of the state that x10_write and send_next_x10out work on.      *)
(***************************************************************************)

CoreType ==
  /\ Outrecs \in [Slots -> Nat]
  /\ Outhead \in Slots /\ Outtail \in Slots
  /\ Outbusy \in BOOLEAN
  /\ PollTimeOut \in {0, Infinite, AckWait}
  /\ outState \in {"idle", "flying", "done"} /\ outFrame \in Nat
  /\ owed \subseteq Nat
  /\ nframes \in Nat /\ lastWritten \in Nat
  /\ delivered \subseteq Nat /\ dropped \subseteq Nat /\ lost \subseteq Nat

FlightInOrder ==
  /\ lastWritten <= nframes
  /\ \A g \in delivered : g <= lastWritten
  /\ outState = "flying"
       => outFrame <= lastWritten /\ \A g \in delivered : g < outFrame

CoreInv == CoreType /\ IdleMeansEmpty /\ QueueInOrder /\ FlightInOrder

NewestDelivered ==
  \A f \in delivered' \ delivered : \A g \in delivered : g < f

coreVars == <<queueVars, PollTimeOut, usbVars, nframes, lastWritten, dropped>>

\* write_usb keeps the transfers in order when it is given a frame newer than
\* all it was given before.
LEMMA WriteUsbStep ==
  ASSUME CoreType, FlightInOrder, NEW f \in Nat, lastWritten < f,
         NEW r \in 0 .. DRAIN, NEW rn, write_usb(f, r, rn)
  PROVE  /\ outState' \in {"idle", "flying", "done"} /\ outFrame' \in Nat
         /\ owed' \subseteq Nat /\ delivered' \subseteq Nat /\ lost' \subseteq Nat
         /\ lastWritten' = f
         /\ \A g \in delivered' : g <= lastWritten'
         /\ outState' = "flying"
              => outFrame' <= lastWritten' /\ \A g \in delivered' : g < outFrame'
         /\ NewestDelivered
         /\ rn \in 0 .. DRAIN
<1>1. lastWritten' = f /\ rn \in 0 .. DRAIN
  BY DrainAssumption DEF write_usb
<1>2. CASE Submit(f)
  BY <1>1, <1>2 DEF Submit, CoreType, FlightInOrder, NewestDelivered
<1>3. CASE SubmitBusy(f)
  <2>1. /\ outState' = "done" /\ outFrame' = outFrame
        /\ lost' \subseteq lost \cup {outFrame, f}
    BY <1>3 DEF SubmitBusy
  <2>2. \/ owed' = owed /\ delivered' = delivered
        \/ /\ outState = "flying"
           /\ owed' = owed \cup {outFrame}
           /\ delivered' = delivered \cup {outFrame}
    BY <1>3 DEF SubmitBusy
  <2>3. /\ outFrame' \in Nat /\ owed' \subseteq Nat
        /\ delivered' \subseteq Nat /\ lost' \subseteq Nat
    BY <2>1, <2>2 DEF CoreType
  <2>4. \A g \in delivered' : g <= lastWritten'
    <3>1. CASE delivered' = delivered
      BY <1>1, <3>1 DEF CoreType, FlightInOrder
    <3>2. CASE outState = "flying" /\ delivered' = delivered \cup {outFrame}
      BY <1>1, <3>2 DEF CoreType, FlightInOrder
    <3> QED
      BY <2>2, <3>1, <3>2
  <2>5. NewestDelivered
    BY <2>2 DEF FlightInOrder, NewestDelivered
  <2> QED
    BY <1>1, <2>1, <2>3, <2>4, <2>5
<1>4. CASE SubmitError(f)
  BY <1>1, <1>4 DEF SubmitError, CoreType, FlightInOrder, NewestDelivered
<1> QED
  BY <1>2, <1>3, <1>4 DEF write_usb

\* Taking the oldest frame off the queue leaves the rest in order behind it.
LEMMA DequeueStep ==
  ASSUME CoreInv, ~QueueEmpty,
         Outhead' = next_index(Outhead), Outrecs' = Outrecs,
         Outtail' = Outtail, nframes' = nframes,
         lastWritten' = Outrecs[Outhead']
  PROVE  /\ Outhead' \in Slots
         /\ Outrecs[Outhead'] \in Nat
         /\ lastWritten < Outrecs[Outhead'] /\ Outrecs[Outhead'] <= nframes
         /\ QueueInOrder'
<1> USE SizeAssumption DEF Slots
<1>1. /\ Outhead \in Slots /\ Outtail \in Slots /\ Outhead # Outtail
      /\ Outhead' = IF Outhead = OUTPTRSSIZE - 1 THEN 0 ELSE Outhead + 1
      /\ Outhead' \in Slots
  BY NextIndex DEF CoreInv, CoreType, QueueEmpty
<1>2. Outhead' \in Queued /\ Place(Outhead') = 1
  BY <1>1 DEF Queued, Place
<1>3. \A i \in Queued' : /\ i \in Queued
                         /\ i \in Slots
                         /\ Place(i) > 1
                         /\ Place(i) = Place(i)' + 1
  BY <1>1 DEF Queued, Place
<1>4. /\ Outrecs[Outhead'] \in Nat
      /\ lastWritten < Outrecs[Outhead'] /\ Outrecs[Outhead'] <= nframes
  BY <1>1, <1>2 DEF CoreInv, CoreType, QueueInOrder
<1>5. \A i \in Queued' : Outrecs[Outhead'] < Outrecs[i] /\ Outrecs[i] <= nframes
  BY <1>2, <1>3 DEF CoreInv, QueueInOrder
<1>6. \A i, j \in Queued' : Place(i)' < Place(j)' => Outrecs[i] < Outrecs[j]
  <2> SUFFICES ASSUME NEW i \in Queued', NEW j \in Queued', Place(i)' < Place(j)'
               PROVE  Outrecs[i] < Outrecs[j]
    OBVIOUS
  <2>1. Place(i) \in Int /\ Place(j) \in Int /\ Place(i)' \in Int /\ Place(j)' \in Int
    BY <1>1, <1>3 DEF Place
  <2>2. Place(i) < Place(j)
    BY <1>3, <2>1
  <2> QED
    BY <1>3, <2>2 DEF CoreInv, QueueInOrder
<1> QED
  BY <1>1, <1>4, <1>5, <1>6 DEF QueueInOrder

\* A frame added at the tail of a queue that is not full is the newest one,
\* and overwrites none that waits.
LEMMA EnqueueStep ==
  ASSUME CoreInv, ~QueueFull,
         Outtail' = next_index(Outtail), Outhead' = Outhead,
         nframes' = nframes + 1, lastWritten' = lastWritten,
         Outrecs' = [Outrecs EXCEPT ![Outtail'] = nframes + 1]
  PROVE  /\ Outtail' \in Slots
         /\ Outrecs' \in [Slots -> Nat]
         /\ QueueInOrder'
<1> USE SizeAssumption DEF Slots
<1>1. /\ Outhead \in Slots /\ Outtail \in Slots /\ Outtail' # Outhead
      /\ Outtail' = IF Outtail = OUTPTRSSIZE - 1 THEN 0 ELSE Outtail + 1
      /\ Outtail' \in Slots
  BY NextIndex DEF CoreInv, CoreType, QueueFull
<1>2. Outrecs \in [Slots -> Nat] /\ nframes \in Nat /\ lastWritten \in Nat
  BY DEF CoreInv, CoreType
<1>3. Outrecs' \in [Slots -> Nat]
  BY <1>1, <1>2
<1>4. \A i \in Queued' : /\ i \in Slots
                         /\ Place(i)' = Place(i)
                         /\ i # Outtail' => i \in Queued
                         /\ i # Outtail' => Place(i) < Place(Outtail')
  BY <1>1 DEF Queued, Place
<1>5. /\ Outrecs'[Outtail'] = nframes + 1
      /\ \A i \in Slots : i # Outtail' => Outrecs'[i] = Outrecs[i]
  BY <1>1, <1>2
<1>6. \A i \in Queued' : i # Outtail' => /\ lastWritten < Outrecs'[i]
                                         /\ Outrecs'[i] <= nframes
                                         /\ Outrecs'[i] \in Nat
  BY <1>2, <1>4, <1>5 DEF CoreInv, QueueInOrder
<1>7. \A i \in Queued' : lastWritten < Outrecs'[i] /\ Outrecs'[i] <= nframes + 1
  BY <1>2, <1>5, <1>6 DEF CoreInv, FlightInOrder
<1>8. \A i, j \in Queued' : Place(i)' < Place(j)' => Outrecs'[i] < Outrecs'[j]
  <2> SUFFICES ASSUME NEW i \in Queued', NEW j \in Queued', Place(i)' < Place(j)'
               PROVE  Outrecs'[i] < Outrecs'[j]
    OBVIOUS
  <2>1. Place(i) \in Int /\ Place(j) \in Int /\ Place(Outtail') \in Int
    BY <1>1, <1>4 DEF Place
  <2>2. Place(i) < Place(j)
    BY <1>4
  <2>3. i # Outtail'
    BY <1>4, <2>1, <2>2
  <2>4. CASE j = Outtail'
    BY <1>2, <1>5, <1>6, <2>3, <2>4
  <2>5. CASE j # Outtail'
    BY <1>4, <1>5, <2>2, <2>3, <2>5 DEF CoreInv, QueueInOrder
  <2> QED
    BY <2>4, <2>5
<1> QED
  BY <1>1, <1>3, <1>7, <1>8 DEF QueueInOrder


-----------------------------------------------------------------------------
(***************************************************************************)
(* The three functions of x10_write.c keep CoreInv.                        *)
(***************************************************************************)

LEMMA SendNextStep ==
  ASSUME CoreInv, NEW r \in 0 .. DRAIN, NEW rn, send_next_x10out(r, rn)
  PROVE  CoreInv' /\ NewestDelivered /\ rn \in 0 .. DRAIN /\ nframes' = nframes
<1>1. CASE ~Outbusy \/ QueueEmpty
  <2>1. /\ rn = r
        /\ UNCHANGED <<Outrecs, Outhead, Outtail, nframes, dropped, lastWritten,
                       usbVars>>
        /\ PollTimeOut' \in {PollTimeOut, Infinite}
        /\ Outbusy' \in {Outbusy, FALSE}
        /\ ~Outbusy' => QueueEmpty
    BY <1>1 DEF send_next_x10out, CoreInv, IdleMeansEmpty
  <2>2. CoreType'
    BY <2>1 DEF CoreInv, CoreType, usbVars
  <2>3. QueueInOrder' /\ FlightInOrder' /\ NewestDelivered
    BY <2>1 DEF CoreInv, QueueInOrder, FlightInOrder, NewestDelivered, Queued,
                Place, usbVars
  <2>4. IdleMeansEmpty'
    BY <2>1 DEF IdleMeansEmpty, QueueEmpty
  <2> QED
    BY <2>1, <2>2, <2>3, <2>4 DEF CoreInv
<1>2. CASE Outbusy /\ ~QueueEmpty
  <2>1. /\ Outhead' = next_index(Outhead)
        /\ write_usb(Outrecs[Outhead'], r, rn)
        /\ UNCHANGED <<Outrecs, Outtail, nframes, dropped, Outbusy, PollTimeOut>>
    BY <1>2 DEF send_next_x10out
  <2>2. lastWritten' = Outrecs[Outhead']
    BY <2>1 DEF write_usb
  <2>3. /\ Outhead' \in Slots /\ QueueInOrder'
        /\ Outrecs[Outhead'] \in Nat
        /\ lastWritten < Outrecs[Outhead'] /\ Outrecs[Outhead'] <= nframes
    BY <1>2, <2>1, <2>2, DequeueStep
  <2>4. /\ outState' \in {"idle", "flying", "done"} /\ outFrame' \in Nat
        /\ owed' \subseteq Nat /\ delivered' \subseteq Nat /\ lost' \subseteq Nat
        /\ \A g \in delivered' : g <= lastWritten'
        /\ outState' = "flying"
             => outFrame' <= lastWritten' /\ \A g \in delivered' : g < outFrame'
        /\ NewestDelivered
        /\ rn \in 0 .. DRAIN
    BY <2>1, <2>3, WriteUsbStep DEF CoreInv
  <2>5. CoreType'
    BY <2>1, <2>2, <2>3, <2>4 DEF CoreInv, CoreType
  <2>6. FlightInOrder'
    BY <2>1, <2>2, <2>3, <2>4 DEF FlightInOrder
  <2>7. IdleMeansEmpty'
    BY <1>2, <2>1 DEF IdleMeansEmpty
  <2> QED
    BY <2>1, <2>3, <2>4, <2>5, <2>6, <2>7 DEF CoreInv
<1> QED
  BY <1>1, <1>2

LEMMA X10WriteStep ==
  ASSUME CoreInv, NEW r \in 0 .. DRAIN, NEW rn, x10_write(r, rn)
  PROVE  /\ CoreInv' /\ NewestDelivered /\ rn \in 0 .. DRAIN
         /\ nframes' = nframes + 1
<1>0. nframes' = nframes + 1 /\ nframes \in Nat /\ nframes' \in Nat
  BY DEF x10_write, CoreInv, CoreType
<1>1. CASE Outbusy
  <2>1. /\ rn = r /\ add_x10out(nframes + 1)
        /\ UNCHANGED <<PollTimeOut, lastWritten, usbVars, Outhead, Outbusy>>
    BY <1>0, <1>1 DEF x10_write, add_x10out
  <2>2. FlightInOrder' /\ NewestDelivered
    BY <1>0, <2>1 DEF CoreInv, CoreType, FlightInOrder, NewestDelivered, usbVars
  <2>3. IdleMeansEmpty'
    BY <1>1, <2>1 DEF IdleMeansEmpty
  <2>4. CASE QueueFull
    <3>1. /\ UNCHANGED <<Outrecs, Outtail>>
          /\ dropped' = dropped \cup {nframes + 1}
      BY <2>1, <2>4 DEF add_x10out
    <3>2. CoreType'
      BY <1>0, <2>1, <3>1 DEF CoreInv, CoreType, usbVars
    <3>3. \A i \in Queued : Outrecs[i] \in Nat
      BY DEF Queued, CoreInv, CoreType
    <3>4. QueueInOrder'
      BY <1>0, <2>1, <3>1, <3>3
      DEF CoreInv, QueueInOrder, Queued, Place
    <3> QED
      BY <1>0, <2>1, <2>2, <2>3, <3>2, <3>4 DEF CoreInv
  <2>5. CASE ~QueueFull
    <3>1. /\ Outtail' = next_index(Outtail)
          /\ Outrecs' = [Outrecs EXCEPT ![Outtail'] = nframes + 1]
          /\ UNCHANGED dropped
      BY <2>1, <2>5 DEF add_x10out
    <3>2. Outtail' \in Slots /\ Outrecs' \in [Slots -> Nat] /\ QueueInOrder'
      BY <1>0, <2>1, <2>5, <3>1, EnqueueStep
    <3>3. CoreType'
      BY <1>0, <2>1, <3>1, <3>2 DEF CoreInv, CoreType, usbVars
    <3> QED
      BY <1>0, <2>1, <2>2, <2>3, <3>2, <3>3 DEF CoreInv
  <2> QED
    BY <2>4, <2>5
<1>2. CASE ~Outbusy
  <2>1. /\ Outbusy' = TRUE /\ PollTimeOut' = AckWait
        /\ write_usb(nframes + 1, r, rn)
        /\ UNCHANGED <<Outrecs, Outhead, Outtail, dropped>>
    BY <1>0, <1>2 DEF x10_write
  <2>2. lastWritten < nframes + 1 /\ nframes + 1 \in Nat
    BY <1>0 DEF CoreInv, CoreType, FlightInOrder
  <2>3. /\ outState' \in {"idle", "flying", "done"} /\ outFrame' \in Nat
        /\ owed' \subseteq Nat /\ delivered' \subseteq Nat /\ lost' \subseteq Nat
        /\ lastWritten' = nframes + 1
        /\ \A g \in delivered' : g <= lastWritten'
        /\ outState' = "flying"
             => outFrame' <= lastWritten' /\ \A g \in delivered' : g < outFrame'
        /\ NewestDelivered
        /\ rn \in 0 .. DRAIN
    BY <2>1, <2>2, WriteUsbStep DEF CoreInv
  <2>4. CoreType'
    BY <1>0, <2>1, <2>2, <2>3 DEF CoreInv, CoreType
  <2>5. FlightInOrder'
    BY <1>0, <2>2, <2>3 DEF FlightInOrder
  <2>6. IdleMeansEmpty'
    BY <2>1 DEF IdleMeansEmpty
  <2>7. Queued' = {}
    BY <1>2, <2>1 DEF CoreInv, CoreType, IdleMeansEmpty, QueueEmpty, Queued, Slots
  <2>8. QueueInOrder'
    BY <2>7 DEF QueueInOrder
  <2> QED
    BY <1>0, <2>3, <2>4, <2>5, <2>6, <2>8 DEF CoreInv
<1> QED
  BY <1>1, <1>2

LEMMA CoreUnchanged ==
  ASSUME CoreInv, UNCHANGED coreVars
  PROVE  CoreInv' /\ NewestDelivered /\ nframes' = nframes
BY DEF coreVars, queueVars, usbVars, CoreInv, CoreType, IdleMeansEmpty,
       QueueEmpty, QueueInOrder, FlightInOrder, NewestDelivered, Queued, Place

-----------------------------------------------------------------------------
(***************************************************************************)
(* The whole specification.                                                *)
(***************************************************************************)

ControlType ==
  /\ phase \in {"start", "loop", "serve"}
  /\ todo \in Nat /\ drain \in 0 .. DRAIN
  /\ inCb \in BOOLEAN /\ cbTodo \in Nat /\ cbDrain \in 0 .. DRAIN
  /\ inPkt \in [kind : {"none", "ack", "byte", "data"}, frame : Nat]
  /\ packets \in Nat
  /\ nframes <= MAXFRAMES /\ lastAck \in Nat

Inv == CoreInv /\ ControlType

LEMMA InvInit == Init => Inv
<1> SUFFICES ASSUME Init PROVE Inv
  OBVIOUS
<1>0. /\ Outrecs = [i \in Slots |-> 0] /\ Outhead = 0 /\ Outtail = 0
      /\ Outbusy = FALSE /\ PollTimeOut = 0
      /\ outState = "idle" /\ outFrame = 0 /\ owed = {}
      /\ nframes = 0 /\ lastWritten = 0
      /\ delivered = {} /\ dropped = {} /\ lost = {}
  BY DEF Init
<1>1. CoreType
  <2>1. 0 \in Slots
    BY SizeAssumption DEF Slots
  <2>2. Outrecs \in [Slots -> Nat]
    BY <1>0
  <2> QED
    BY <1>0, <2>1, <2>2 DEF CoreType
<1>2. Queued = {}
  <2>1. {i \in Slots : 0 < i /\ i <= 0} = {}
    BY DEF Slots
  <2> QED
    BY <1>0, <2>1 DEF Queued
<1>3. IdleMeansEmpty /\ QueueInOrder /\ FlightInOrder
  BY <1>2 DEF Init, IdleMeansEmpty, QueueEmpty, QueueInOrder, FlightInOrder
<1>4. ControlType
  <2>1. /\ phase = "start" /\ todo = InitFrames /\ drain = 0
        /\ inCb = FALSE /\ cbTodo = 0 /\ cbDrain = 0
        /\ inPkt = [kind |-> "none", frame |-> 0]
        /\ packets = 0 /\ nframes = 0 /\ lastAck = 0
    BY DEF Init, NoPkt
  <2>2. InitFrames \in Nat /\ 0 \in 0 .. DRAIN /\ 0 <= MAXFRAMES
    BY DrainAssumption, BurstAssumption, BoundAssumption
  <2> QED
    BY <2>1, <2>2 DEF ControlType
<1> QED
  BY <1>1, <1>3, <1>4 DEF Inv, CoreInv

\* IntrIn_cb, wherever it runs.
LEMMA IntrInStep ==
  ASSUME Inv, IntrIn_cb
  PROVE  /\ CoreInv' /\ NewestDelivered /\ nframes' = nframes
         /\ inCb' \in BOOLEAN /\ cbTodo' \in Nat /\ cbDrain' \in 0 .. DRAIN
         /\ inPkt' \in [kind : {"none", "ack", "byte", "data"}, frame : Nat]
         /\ lastAck' \in Nat
<1>1. /\ inCb' = TRUE /\ inPkt' = NoPkt /\ lastAck' \in {inPkt.frame, lastAck}
  BY DEF IntrIn_cb
<1>2. CASE send_next_x10out(cbDrain, cbDrain') /\ UNCHANGED cbTodo
  BY <1>1, <1>2, SendNextStep DEF Inv, ControlType, NoPkt
<1>3. CASE /\ cbTodo' \in Bursts
           /\ UNCHANGED <<queueVars, PollTimeOut, usbVars, cbDrain, nframes,
                          lastWritten, dropped>>
  <2>1. UNCHANGED coreVars
    BY <1>3 DEF coreVars
  <2> QED
    BY <1>1, <1>3, <2>1, CoreUnchanged, BurstAssumption DEF Inv, ControlType, NoPkt
<1> QED
  BY <1>2, <1>3 DEF IntrIn_cb

\* IntrOut_cb, wherever it runs.
LEMMA IntrOutStep ==
  ASSUME Inv, IntrOut_cb,
         UNCHANGED <<queueVars, PollTimeOut, nframes, lastWritten, dropped>>
  PROVE  CoreInv' /\ NewestDelivered /\ nframes' = nframes
BY DEF IntrOut_cb, queueVars, Inv, CoreInv, CoreType, IdleMeansEmpty,
       QueueEmpty, QueueInOrder, FlightInOrder, NewestDelivered, Queued, Place

LEMMA InvStep == Inv /\ [Next]_vars => Inv' /\ NewestDelivered
<1> SUFFICES ASSUME Inv, [Next]_vars PROVE Inv' /\ NewestDelivered
  OBVIOUS
<1> USE DEF Inv
<1>a. ASSUME UNCHANGED coreVars PROVE CoreInv' /\ NewestDelivered /\ nframes' = nframes
  BY <1>a, CoreUnchanged
<1>1. CASE MainWrite
  <2>1. x10_write(drain, drain') /\ nframes < MAXFRAMES /\ todo' = todo - 1 /\ todo > 0
    BY <1>1 DEF MainWrite
  <2>2. CoreInv' /\ NewestDelivered /\ drain' \in 0 .. DRAIN /\ nframes' = nframes + 1
    BY <2>1, X10WriteStep DEF ControlType
  <2>3. ControlType'
    BY <1>1, <2>1, <2>2, BoundAssumption
    DEF MainWrite, ControlType, cbVars, CoreInv, CoreType
  <2> QED
    BY <2>2, <2>3
<1>2. CASE CbWrite
  <2>1. x10_write(cbDrain, cbDrain') /\ nframes < MAXFRAMES /\ cbTodo' = cbTodo - 1 /\ cbTodo > 0
    BY <1>2 DEF CbWrite
  <2>2. CoreInv' /\ NewestDelivered /\ cbDrain' \in 0 .. DRAIN /\ nframes' = nframes + 1
    BY <2>1, X10WriteStep DEF ControlType
  <2>3. ControlType'
    BY <1>2, <2>1, <2>2, BoundAssumption
    DEF CbWrite, ControlType, mainVars, CoreInv, CoreType
  <2> QED
    BY <2>2, <2>3
<1>3. CASE MainCut
  BY <1>3, <1>a DEF MainCut, coreVars, ControlType, cbVars
<1>4. CASE CbReturn
  BY <1>4, <1>a DEF CbReturn, coreVars, ControlType, mainVars
<1>5. CASE EnterLoop
  <2>1. CoreInv' /\ NewestDelivered
    BY <1>5 DEF EnterLoop, queueVars, usbVars, CoreInv, CoreType, IdleMeansEmpty,
       QueueEmpty, QueueInOrder, FlightInOrder, NewestDelivered, Queued, Place
  <2>2. ControlType'
    BY <1>5 DEF EnterLoop, ControlType, cbVars
  <2> QED
    BY <2>1, <2>2
<1>6. CASE PollTimeout
  <2>1. CoreInv' /\ NewestDelivered /\ drain' \in 0 .. DRAIN /\ nframes' = nframes
    BY <1>6, SendNextStep DEF PollTimeout, ControlType
  <2>2. ControlType'
    BY <1>6, <2>1 DEF PollTimeout, ControlType, cbVars
  <2> QED
    BY <2>1, <2>2
<1>7. CASE PollUsb
  <2>1. CASE IntrOut_cb /\ UNCHANGED <<queueVars, PollTimeOut, cbVars, inPkt,
                              nframes, lastWritten, lastAck, dropped>>
    <3>1. CoreInv' /\ NewestDelivered
      BY <2>1, IntrOutStep
    <3>2. ControlType'
      BY <1>7, <2>1 DEF PollUsb, ControlType, cbVars, mainVars
    <3> QED
      BY <3>1, <3>2
  <2>2. CASE IntrIn_cb
    BY <1>7, <2>2, IntrInStep DEF PollUsb, ControlType, mainVars
  <2> QED
    BY <1>7, <2>1, <2>2 DEF PollUsb
<1>8. CASE PollClient \/ PollAgain
  <2>1. todo' \in Nat /\ phase' \in {"serve", "loop"}
    <3>1. todo' \in Bursts \/ todo' = 0 \/ todo' = todo
      BY <1>8, Zenon DEF PollClient, PollAgain
    <3>3. todo' \in Bursts => todo' \in Nat
      BY BurstAssumption, Zenon
    <3>2. phase' \in {"serve", "loop"}
      BY <1>8 DEF PollClient, PollAgain
    <3> QED
      BY <3>1, <3>2, <3>3 DEF ControlType
  <2>3. UNCHANGED <<coreVars, drain>>
    BY <1>8 DEF PollClient, PollAgain, coreVars
  <2>2. UNCHANGED <<cbVars, inPkt, packets, lastAck, nframes>>
    BY <1>8 DEF PollClient, PollAgain
  <2> QED
    BY <1>a, <2>1, <2>2, <2>3 DEF ControlType, cbVars
<1>9. CASE CbDrain
  <2>1. cbDrain' \in 0 .. DRAIN
    BY <1>9, DrainAssumption DEF CbDrain, ControlType
  <2>2. CoreInv' /\ NewestDelivered /\ nframes' = nframes
    <3>1. /\ UNCHANGED <<queueVars, PollTimeOut, nframes, lastWritten, dropped>>
          /\ IntrOut_cb \/ UNCHANGED usbVars
      BY <1>9 DEF CbDrain
    <3>2. CASE IntrOut_cb
      BY <3>1, <3>2, IntrOutStep
    <3>3. CASE UNCHANGED usbVars
      BY <3>1, <3>3, <1>a DEF coreVars
    <3> QED
      BY <3>1, <3>2, <3>3
  <2>3. ControlType'
    BY <1>9, <2>1, <2>2 DEF CbDrain, ControlType, mainVars
  <2> QED
    BY <2>2, <2>3
<1>10. CASE MainDrain
  <2>1. drain' \in 0 .. DRAIN /\ UNCHANGED <<phase, todo, packets>>
    <3>1. drain > 0 /\ drain' \in {drain - 1, 0} /\ UNCHANGED <<phase, todo, packets>>
      BY <1>10 DEF MainDrain
    <3> QED
      BY <3>1, DrainAssumption DEF ControlType
  <2>2. CASE IntrOut_cb /\ UNCHANGED <<queueVars, PollTimeOut, cbVars, inPkt,
                              nframes, lastWritten, lastAck, dropped>>
    <3>1. CoreInv' /\ NewestDelivered
      BY <2>2, IntrOutStep
    <3>2. ControlType'
      BY <2>1, <2>2 DEF ControlType, cbVars
    <3> QED
      BY <3>1, <3>2
  <2>3. CASE IntrIn_cb
    BY <2>1, <2>3, IntrInStep DEF ControlType
  <2>4. CASE UNCHANGED <<queueVars, PollTimeOut, usbVars, cbVars, inPkt,
                       nframes, lastWritten, lastAck, dropped>>
    BY <1>a, <2>1, <2>4 DEF coreVars, ControlType, cbVars
  <2> QED
    BY <1>10, <2>2, <2>3, <2>4 DEF MainDrain
<1>11. CASE DeviceTake
  <2>1. /\ outState = "flying" /\ outState' = "done"
        /\ delivered' = delivered \cup {outFrame}
        /\ owed' = owed \cup {outFrame}
        /\ UNCHANGED <<queueVars, PollTimeOut, outFrame, lost, nframes,
                       lastWritten, dropped>>
    BY <1>11 DEF DeviceTake
  <2>2. CoreType'
    BY <2>1 DEF CoreInv, CoreType, queueVars
  <2>3. IdleMeansEmpty' /\ QueueInOrder'
    BY <2>1 DEF CoreInv, IdleMeansEmpty, QueueEmpty, QueueInOrder, Queued, Place,
                queueVars
  <2>4. FlightInOrder' /\ NewestDelivered
    BY <2>1 DEF CoreInv, CoreType, FlightInOrder, NewestDelivered
  <2>5. ControlType'
    BY <1>11 DEF DeviceTake, ControlType, mainVars, cbVars
  <2> QED
    BY <2>2, <2>3, <2>4, <2>5 DEF CoreInv
<1>12. CASE DeviceAck
  <2>1. PICK f \in owed : inPkt' = AckOf(f) /\ owed' = owed \ {f}
    BY <1>12 DEF DeviceAck
  <2>2. CoreInv' /\ NewestDelivered
    BY <1>12, <2>1 DEF DeviceAck, queueVars, CoreInv, CoreType, IdleMeansEmpty,
       QueueEmpty, QueueInOrder, FlightInOrder, NewestDelivered, Queued, Place
  <2>3. ControlType'
    BY <1>12, <2>1 DEF DeviceAck, ControlType, mainVars, cbVars, AckOf, CoreInv, CoreType
  <2> QED
    BY <2>2, <2>3
<1>13. CASE DeviceOther
  <2>1. CoreInv' /\ NewestDelivered /\ nframes' = nframes
    BY <1>13, <1>a DEF DeviceOther, coreVars
  <2>2. inPkt' \in OtherPkts
    BY <1>13 DEF DeviceOther
  <2>3. inPkt' \in [kind : {"none", "ack", "byte", "data"}, frame : Nat]
    BY <2>2 DEF OtherPkts
  <2>4. ControlType'
    BY <1>13, <2>1, <2>3 DEF DeviceOther, ControlType, mainVars, cbVars
  <2> QED
    BY <2>1, <2>4
<1>14. CASE UNCHANGED vars
  BY <1>14, <1>a DEF vars, coreVars, ControlType, mainVars, cbVars
<1> QED
  BY <1>1, <1>2, <1>3, <1>4, <1>5, <1>6, <1>7, <1>8, <1>9, <1>10, <1>11, <1>12,
     <1>13, <1>14 DEF Next, Daemon, Device

LEMMA InvariantHolds == Spec => []Inv
<1>1. Init => Inv
  BY InvInit
<1>2. Inv /\ [Next]_vars => Inv'
  BY InvStep
<1> QED
  BY <1>1, <1>2, PTL DEF Spec

\* Every state of the output path is well typed (x10_write.c, write_usb).
THEOREM TypeCorrect == Spec => []TypeOK
<1>1. Inv => TypeOK
  BY DEF Inv, CoreInv, CoreType, ControlType, TypeOK
<1> QED
  BY <1>1, InvariantHolds, PTL

\* x10_write never lets a frame overtake the queue: Outbusy is clear only
\* while nothing waits.
THEOREM NeverOvertakes == Spec => []IdleMeansEmpty
<1>1. Inv => IdleMeansEmpty
  BY DEF Inv, CoreInv
<1> QED
  BY <1>1, InvariantHolds, PTL

\* The ring of x10_write.c is a FIFO, for every OUTPTRSSIZE.
THEOREM RingIsFifo == Spec => []QueueInOrder
<1>1. Inv => QueueInOrder
  BY DEF Inv, CoreInv
<1> QED
  BY <1>1, InvariantHolds, PTL

\* The controller takes each frame at most once and in order, whatever
\* transfers fail or are cancelled.
THEOREM DeliveryOrder == Spec => DeliveredInOrder
<1>1. Inv /\ [Next]_vars
        => [\A f \in delivered' \ delivered : \A g \in delivered : g < f]_delivered
  BY InvStep DEF NewestDelivered
<1> QED
  BY <1>1, InvariantHolds, PTL DEF Spec, DeliveredInOrder

-----------------------------------------------------------------------------
(***************************************************************************)
(* The poll timeout, for a controller without an initial sequence.         *)
(***************************************************************************)

TimerInv ==
  /\ TimerArmed
  /\ phase \in {"start", "loop", "serve"}
  /\ phase = "start" => ~Outbusy /\ todo = 0 /\ drain = 0 /\ ~inCb

\* With the CM15A, whose initial sequence is empty, the daemon never waits for
\* the controller without a timeout (x10_write.c, mydaemon).
THEOREM Cm15aTimer ==
  ASSUME InitFrames = 0
  PROVE  Spec => []TimerArmed
<1>1. Init => TimerInv
  BY DEF Init, TimerInv, TimerArmed
<1>2. TimerInv /\ [Next]_vars => TimerInv'
  <2> SUFFICES ASSUME TimerInv, [Next]_vars PROVE TimerInv'
    OBVIOUS
  <2> USE DEF TimerInv, TimerArmed
  <2>0. ASSUME UNCHANGED <<Outbusy, PollTimeOut>>,
               phase' = phase \/ (phase # "start" /\ phase' \in {"loop", "serve"}),
               phase = "start" => todo' = 0 /\ drain' = 0 /\ ~inCb'
        PROVE  TimerInv'
    BY <2>0
  <2>1. ASSUME NEW r, NEW rn, send_next_x10out(r, rn), phase # "start", UNCHANGED phase
        PROVE  TimerInv'
    BY <2>1 DEF send_next_x10out
  <2>2. ASSUME NEW r, NEW rn, x10_write(r, rn), phase # "start", UNCHANGED phase
        PROVE  TimerInv'
    BY <2>2 DEF x10_write, add_x10out
  <2>3. CASE MainWrite
    BY <2>2, <2>3 DEF MainWrite
  <2>4. CASE CbWrite
    BY <2>2, <2>4 DEF CbWrite, mainVars
  <2>5. CASE PollTimeout
    BY <2>1, <2>5 DEF PollTimeout, AtPoll
  <2>6. ASSUME IntrIn_cb, phase # "start", UNCHANGED phase PROVE TimerInv'
    BY <2>0, <2>1, <2>6 DEF IntrIn_cb, queueVars
  <2>7. CASE PollUsb
    BY <2>0, <2>6, <2>7 DEF PollUsb, AtPoll, mainVars, cbVars, queueVars
  <2>8. CASE MainDrain
    BY <2>0, <2>6, <2>8 DEF MainDrain, cbVars, queueVars
  <2>9. CASE MainCut \/ CbReturn \/ CbDrain \/ PollClient \/ PollAgain
    BY <2>0, <2>9 DEF MainCut, CbReturn, CbDrain, PollClient, PollAgain, AtPoll,
                      mainVars, cbVars, queueVars
  <2>10. CASE EnterLoop
    BY <2>10 DEF EnterLoop, queueVars
  <2>11. CASE Device
    BY <2>0, <2>11 DEF Device, DeviceTake, DeviceAck, DeviceOther, mainVars,
                       cbVars, queueVars
  <2>12. CASE UNCHANGED vars
    BY <2>0, <2>12 DEF vars, mainVars, cbVars, queueVars
  <2> QED
    BY <2>3, <2>4, <2>5, <2>7, <2>8, <2>9, <2>10, <2>11, <2>12 DEF Next, Daemon
<1>3. TimerInv => TimerArmed
  BY DEF TimerInv
<1> QED
  BY <1>1, <1>2, <1>3, PTL DEF Spec
-----------------------------------------------------------------------------
(***************************************************************************)
(* A controller that answers every frame in time.                          *)
(*                                                                         *)
(* Nothing says that the transfer is idle when a frame is handed to it.    *)
(* This follows from where the frame that was handed over last can be: in  *)
(* flight, taken and not answered, answered and not heard, or all over;    *)
(* Outbusy is clear only in the last case (PromptInv).                     *)
(***************************************************************************)

PromptInv ==
  /\ lost = {} /\ outFrame = lastWritten
  /\ outState \in {"idle", "flying", "done"}
  /\ inPkt.kind # "byte"
  /\ owed \subseteq {outFrame}
  /\ outState = "flying" => owed = {} /\ inPkt.kind # "ack"
  /\ inPkt.kind = "ack" => inPkt = AckOf(outFrame) /\ owed = {}
  /\ outState = "done" => owed = {outFrame} \/ inPkt = AckOf(outFrame)
  /\ ~Outbusy => outState = "idle" /\ owed = {} /\ inPkt.kind # "ack"

\* What the one byte packets and the timeout change: the frame before has been
\* answered for.
Moves == lastWritten' # lastWritten \/ Outbusy' # Outbusy

LEMMA PacketKinds ==
  /\ NoPkt.kind = "none" /\ \A f : AckOf(f).kind = "ack"
  /\ \A f : AckOf(f) # NoPkt
  /\ \A f, g : AckOf(f) = AckOf(g) => f = g
<1>1. \A f : AckOf(f).kind = "ack" /\ AckOf(f).frame = f
  BY DEF AckOf
<1>2. NoPkt.kind = "none"
  BY DEF NoPkt
<1> QED
  BY <1>1, <1>2

LEMMA PromptInit == ASSUME Init PROVE PromptInv
BY PacketKinds DEF Init, PromptInv

\* send_next_x10out, when the transfer is idle and everything is answered.
LEMMA PromptSendNext ==
  ASSUME PromptInv, Prompt, outState = "idle", owed = {}, inPkt' = NoPkt,
         NEW r, NEW rn, send_next_x10out(r, rn)
  PROVE  PromptInv'
<1>1. CASE UNCHANGED <<lastWritten, usbVars>> /\ Outbusy' \in {Outbusy, FALSE}
  BY <1>1, PacketKinds DEF PromptInv, usbVars
<1>2. CASE Outbusy /\ ~QueueEmpty /\ write_usb(Outrecs[Outhead'], r, rn) /\ UNCHANGED Outbusy
  <2>1. Submit(Outrecs[Outhead']) /\ lastWritten' = Outrecs[Outhead']
    BY <1>2 DEF write_usb, SubmitBusy, SubmitError
  <2> QED
    BY <1>2, <2>1, PacketKinds DEF Submit, PromptInv
<1> QED
  BY <1>1, <1>2 DEF send_next_x10out

LEMMA PromptWrite ==
  ASSUME PromptInv, Prompt, NEW r, NEW rn, x10_write(r, rn), UNCHANGED inPkt
  PROVE  PromptInv' /\ (Outbusy => ~Moves)
<1>1. CASE Outbusy
  <2>1. UNCHANGED <<lastWritten, usbVars, Outbusy>>
    BY <1>1 DEF x10_write, add_x10out
  <2> QED
    BY <2>1 DEF PromptInv, usbVars, Moves
<1>2. CASE ~Outbusy
  <2>1. write_usb(nframes', r, rn) /\ Outbusy' = TRUE
    BY <1>2 DEF x10_write
  <2>2. Submit(nframes') /\ lastWritten' = nframes'
    BY <1>2, <2>1 DEF write_usb, SubmitBusy, SubmitError, PromptInv
  <2> QED
    BY <1>2, <2>1, <2>2 DEF Submit, PromptInv
<1> QED
  BY <1>1, <1>2

LEMMA PromptInCb ==
  ASSUME PromptInv, Prompt, InReady, IntrIn_cb
  PROVE  PromptInv' /\ (Moves => lastAck' = lastWritten)
<1>1. inPkt' = NoPkt
  BY DEF IntrIn_cb
<1>2. CASE OneByte(inPkt) /\ send_next_x10out(cbDrain, cbDrain')
  <2>1. inPkt.kind = "ack"
    BY <1>2 DEF OneByte, PromptInv
  <2>2. inPkt = AckOf(outFrame) /\ owed = {} /\ outState = "idle"
    BY <2>1, PacketKinds DEF PromptInv, InReady
  <2>3. lastAck' = lastWritten
    <3>1. lastAck' = inPkt.frame
      BY <2>1 DEF IntrIn_cb
    <3>2. inPkt.frame = outFrame
      BY <2>2 DEF AckOf
    <3> QED
      BY <3>1, <3>2 DEF PromptInv
  <2> QED
    BY <1>1, <1>2, <2>2, <2>3, PromptSendNext
<1>3. CASE inPkt.kind = "data" /\ UNCHANGED <<queueVars, usbVars, lastWritten>>
  <2>1. inPkt # AckOf(outFrame)
    BY <1>3, PacketKinds
  <2>2. PromptInv'
    BY <1>1, <1>3, <2>1, PacketKinds DEF PromptInv, queueVars, usbVars
  <2> QED
    BY <1>3, <2>2 DEF Moves, queueVars
<1> QED
  BY <1>2, <1>3 DEF IntrIn_cb

LEMMA PromptOutCb ==
  ASSUME PromptInv, IntrOut_cb, UNCHANGED <<queueVars, inPkt, lastWritten>>
  PROVE  PromptInv' /\ ~Moves
BY DEF IntrOut_cb, PromptInv, queueVars, Moves

LEMMA PromptIdle ==
  ASSUME PromptInv, UNCHANGED <<queueVars, usbVars, inPkt, lastWritten>>
  PROVE  PromptInv' /\ ~Moves
BY DEF PromptInv, queueVars, usbVars, Moves

LEMMA PromptStep ==
  ASSUME PromptInv, Prompt, [Next]_vars
  PROVE  /\ PromptInv'
         /\ Outbusy /\ Moves => lastAck' = lastWritten \/ PollTimeout
<1>1. CASE MainWrite \/ CbWrite
  BY <1>1, PromptWrite DEF MainWrite, CbWrite
<1>2. CASE PollTimeout
  <2>1. /\ outState = "idle" /\ owed = {} /\ inPkt' = NoPkt
        /\ send_next_x10out(drain, drain')
    BY <1>2 DEF PollTimeout, UsbQuiet
  <2> QED
    BY <1>2, <2>1, PromptSendNext
<1>3. CASE PollUsb
  BY <1>3, PromptOutCb, PromptInCb DEF PollUsb
<1>4. CASE MainDrain
  BY <1>4, PromptOutCb, PromptInCb, PromptIdle DEF MainDrain
<1>5. CASE CbDrain
  BY <1>5, PromptOutCb, PromptIdle DEF CbDrain
<1>6. CASE EnterLoop \/ MainCut \/ CbReturn \/ PollClient \/ PollAgain
  BY <1>6, PromptIdle DEF EnterLoop, MainCut, CbReturn, PollClient, PollAgain
<1>7. CASE DeviceTake
  <2>1. /\ outState = "flying" /\ outState' = "done" /\ owed' = owed \cup {outFrame}
        /\ UNCHANGED <<queueVars, outFrame, lost, inPkt, lastWritten>>
    BY <1>7 DEF DeviceTake
  <2>2. Outbusy
    BY <2>1 DEF PromptInv
  <2> QED
    BY <2>1, <2>2 DEF PromptInv, queueVars, Moves
<1>8. CASE DeviceAck
  <2>1. PICK f \in owed : inPkt' = AckOf(f) /\ owed' = owed \ {f}
    BY <1>8 DEF DeviceAck
  <2>2. f = outFrame /\ owed' = {} /\ outState # "flying" /\ Outbusy
    BY <2>1 DEF PromptInv
  <2>3. UNCHANGED <<queueVars, outState, outFrame, lost, lastWritten>>
    BY <1>8 DEF DeviceAck
  <2> QED
    BY <2>1, <2>2, <2>3, PacketKinds DEF PromptInv, queueVars, Moves
<1>9. CASE DeviceOther
  <2>1. inPkt = NoPkt /\ UNCHANGED <<queueVars, usbVars, lastWritten>>
    BY <1>9 DEF DeviceOther
  <2>2. inPkt'.kind = "data"
    BY <1>9 DEF DeviceOther, OtherPkts
  <2> QED
    BY <2>1, <2>2, PacketKinds DEF PromptInv, queueVars, usbVars, Moves
<1>10. CASE UNCHANGED vars
  BY <1>10, PromptIdle DEF vars
<1> QED
  BY <1>1, <1>2, <1>3, <1>4, <1>5, <1>6, <1>7, <1>8, <1>9, <1>10 DEF Next, Daemon, Device

LEMMA PromptHolds == ASSUME Prompt PROVE Spec => []PromptInv
<1>1. Init => PromptInv
  BY PromptInit
<1>2. PromptInv /\ [Next]_vars => PromptInv'
  BY PromptStep
<1> QED
  BY <1>1, <1>2, PTL DEF Spec

\* No frame is given up while the controller answers in time: the one OUT
\* transfer is always idle when x10_write or send_next_x10out hands it a frame,
\* from the initial sequence on and also inside callbacks.
THEOREM PromptLosesNothing ==
  ASSUME Prompt
  PROVE  Spec => []NothingLost
<1>1. PromptInv => NothingLost
  BY DEF PromptInv, NothingLost
<1> QED
  BY <1>1, PromptHolds, PTL

\* "wait for X10ACK (0x55) before sending the next item": with such a
\* controller the output moves on with the answer to the very frame that was
\* written last, or on the timeout.
THEOREM PromptWaits ==
  ASSUME Prompt
  PROVE  Spec => WaitForAck
<1>1. PromptInv /\ [Next]_vars
        => [Outbusy /\ (lastWritten' # lastWritten \/ Outbusy' # Outbusy)
              => lastAck' = lastWritten \/ PollTimeout]_vars
  BY PromptStep DEF Moves
<1> QED
  BY <1>1, PromptHolds, PTL DEF Spec, WaitForAck

-----------------------------------------------------------------------------
(***************************************************************************)
(* The ring as a sequence.                                                 *)
(***************************************************************************)

\* The ring as a sequence: its length, its elements, and when it is empty or
\* full (x10_write.c).
RingFacts ==
  /\ RingLen \in 0 .. OUTPTRSSIZE - 1
  /\ \A k \in 1 .. RingLen : SlotAt(k) \in Slots
  /\ Waiting \in Seq(Nat) /\ Len(Waiting) = RingLen
  /\ \A k \in 1 .. RingLen : Waiting[k] = Outrecs[SlotAt(k)]
  /\ QueueEmpty <=> RingLen = 0
  /\ QueueEmpty <=> Waiting = <<>>
  /\ QueueFull <=> RingLen = OUTPTRSSIZE - 1

LEMMA WaitingIsRing == CoreType => RingFacts
<1> SUFFICES ASSUME CoreType PROVE RingFacts
  OBVIOUS
<1> USE SizeAssumption DEF Slots, CoreType
<1>1. RingLen \in 0 .. OUTPTRSSIZE - 1
  BY DEF RingLen
<1>2. \A k \in 1 .. RingLen : SlotAt(k) \in Slots
  BY <1>1 DEF SlotAt
<1>3. \A k \in 1 .. RingLen : Outrecs[SlotAt(k)] \in Nat
  BY <1>2
<1>4. Waiting \in Seq(Nat) /\ Len(Waiting) = RingLen
  BY <1>1, <1>3 DEF Waiting
<1>5. \A k \in 1 .. RingLen : Waiting[k] = Outrecs[SlotAt(k)]
  BY DEF Waiting
<1>6. QueueEmpty <=> RingLen = 0
  BY DEF QueueEmpty, RingLen
<1>7. QueueFull <=> RingLen = OUTPTRSSIZE - 1
  BY NextIndex DEF QueueFull, RingLen
<1>8. QueueEmpty <=> Waiting = <<>>
  BY <1>4, <1>6, EmptySeq
<1> QED
  BY <1>1, <1>2, <1>4, <1>5, <1>6, <1>7, <1>8 DEF RingFacts

\* The same after a step.
LEMMA WaitingStaysRing == CoreType' => RingFacts'
BY WaitingIsRing, PTL

\* add_x10out appends to the sequence that waits.
LEMMA RingAppend ==
  ASSUME CoreType, CoreType', ~QueueFull, NEW f \in Nat,
         Outtail' = next_index(Outtail), Outhead' = Outhead,
         Outrecs' = [Outrecs EXCEPT ![Outtail'] = f]
  PROVE  Waiting' = Append(Waiting, f)
<1> USE SizeAssumption DEF Slots
<1>1. /\ Outhead \in Slots /\ Outtail \in Slots /\ Outrecs \in [Slots -> Nat]
      /\ Outtail' = IF Outtail = OUTPTRSSIZE - 1 THEN 0 ELSE Outtail + 1
      /\ Outtail' # Outhead
  BY NextIndex DEF CoreType, QueueFull
<1>2. RingLen' = RingLen + 1
  BY <1>1 DEF RingLen
<1>3. RingLen \in Nat
  BY WaitingIsRing DEF RingFacts
<1>4. \A k \in Nat : k = RingLen + 1 => SlotAt(k)' = Outtail'
  BY <1>1 DEF RingLen, SlotAt
<1>5. \A k \in 1 .. RingLen : SlotAt(k)' = SlotAt(k) /\ SlotAt(k) # Outtail'
  BY <1>1 DEF RingLen, SlotAt
<1>6. /\ Waiting' \in Seq(Nat) /\ Len(Waiting') = RingLen + 1
      /\ \A k \in 1 .. RingLen + 1 : Waiting'[k] = Outrecs'[SlotAt(k)']
  BY <1>2, WaitingIsRing, WaitingStaysRing DEF RingFacts
<1>7. /\ Waiting \in Seq(Nat) /\ Len(Waiting) = RingLen
      /\ \A k \in 1 .. RingLen : Waiting[k] = Outrecs[SlotAt(k)] /\ SlotAt(k) \in Slots
  BY WaitingIsRing DEF RingFacts
<1>8. \A k \in 1 .. RingLen : Waiting'[k] = Waiting[k]
  BY <1>1, <1>3, <1>5, <1>6, <1>7
<1>9. Waiting'[RingLen + 1] = f
  BY <1>1, <1>3, <1>4, <1>6
<1> QED
  BY <1>3, <1>6, <1>7, <1>8, <1>9

\* send_next_x10out takes the head off the sequence that waits.
LEMMA RingTail ==
  ASSUME CoreType, CoreType', ~QueueEmpty,
         Outhead' = next_index(Outhead), Outtail' = Outtail, Outrecs' = Outrecs
  PROVE  /\ Waiting # <<>>
         /\ Waiting' = Tail(Waiting)
         /\ Outrecs[Outhead'] = Head(Waiting)
<1> USE SizeAssumption DEF Slots
<1>1. /\ Outhead \in Slots /\ Outtail \in Slots /\ Outhead # Outtail
      /\ Outhead' = IF Outhead = OUTPTRSSIZE - 1 THEN 0 ELSE Outhead + 1
  BY NextIndex DEF CoreType, QueueEmpty
<1>2. RingLen' = RingLen - 1 /\ RingLen \in Nat \ {0}
  BY <1>1 DEF RingLen
<1>3. SlotAt(1) = Outhead'
  BY <1>1 DEF SlotAt
<1>4. \A k \in 1 .. RingLen - 1 : SlotAt(k)' = SlotAt(k + 1)
  BY <1>1, <1>2 DEF SlotAt, RingLen
<1>5. /\ Waiting' \in Seq(Nat) /\ Len(Waiting') = RingLen - 1
      /\ \A k \in 1 .. RingLen - 1 : Waiting'[k] = Outrecs[SlotAt(k)']
  BY <1>2, WaitingStaysRing DEF RingFacts
<1>6. /\ Waiting \in Seq(Nat) /\ Len(Waiting) = RingLen /\ Waiting # <<>>
      /\ \A k \in 1 .. RingLen : Waiting[k] = Outrecs[SlotAt(k)]
  BY <1>2, WaitingIsRing DEF RingFacts
<1>7. Outrecs[Outhead'] = Head(Waiting)
  BY <1>2, <1>3, <1>6
<1>8. \A k \in 1 .. RingLen - 1 : Waiting'[k] = Waiting[k + 1]
  <2> TAKE k \in 1 .. RingLen - 1
  <2>1. k + 1 \in 1 .. RingLen
    BY <1>2
  <2>2. Waiting[k + 1] = Outrecs[SlotAt(k + 1)]
    BY <1>6, <2>1
  <2>3. Waiting'[k] = Outrecs[SlotAt(k)']
    BY <1>5
  <2> QED
    BY <1>4, <2>2, <2>3
<1>9. Waiting' = Tail(Waiting)
  BY <1>2, <1>5, <1>6, <1>8
<1> QED
  BY <1>6, <1>7, <1>9

LEMMA RingSame ==
  ASSUME UNCHANGED <<Outrecs, Outhead, Outtail>>
  PROVE  Waiting' = Waiting
BY DEF Waiting, RingLen, SlotAt

\* write_usb, with its error path, hands a frame over as FrameFifo says.
LEMMA SendMaps ==
  ASSUME NEW f, NEW r, NEW rn, write_usb(f, r, rn)
  PROVE  Fifo!Send(f)
<1>1. CASE Submit(f)
  BY <1>1 DEF Submit, Fifo!Send, FlyingFrames
<1>2. CASE SubmitBusy(f)
  <2>1. FlyingFrames' = {}
    BY <1>2 DEF SubmitBusy, FlyingFrames
  <2>2. CASE outState = "flying" /\ lost' = lost \cup {outFrame, f} /\ delivered' = delivered
    <3>1. /\ {} \in SUBSET FlyingFrames
          /\ delivered' = delivered \cup {}
          /\ lost' = lost \cup {f} \cup (FlyingFrames \ {})
      BY <2>2 DEF FlyingFrames
    <3> QED
      BY <2>1, <3>1 DEF Fifo!Send
  <2>3. CASE outState = "flying" /\ lost' = lost \cup {f} /\ delivered' = delivered \cup {outFrame}
    <3>1. /\ {outFrame} \in SUBSET FlyingFrames
          /\ lost' = lost \cup {f} \cup (FlyingFrames \ {outFrame})
      BY <2>3 DEF FlyingFrames
    <3> QED
      BY <2>1, <2>3, <3>1 DEF Fifo!Send
  <2>4. CASE outState # "flying" /\ lost' = lost \cup {f} /\ delivered' = delivered
    <3>1. /\ {} \in SUBSET FlyingFrames
          /\ delivered' = delivered \cup {}
          /\ lost' = lost \cup {f} \cup (FlyingFrames \ {})
      BY <2>4 DEF FlyingFrames
    <3> QED
      BY <2>1, <3>1 DEF Fifo!Send
  <2> QED
    BY <1>2, <2>2, <2>3, <2>4 DEF SubmitBusy
<1>3. CASE SubmitError(f)
  <2>1. /\ {} \in SUBSET FlyingFrames
        /\ FlyingFrames' = {}
        /\ delivered' = delivered \cup {}
        /\ lost' = lost \cup {f} \cup (FlyingFrames \ {})
    BY <1>3 DEF SubmitError, FlyingFrames
  <2> QED
    BY <2>1 DEF Fifo!Send
<1> QED
  BY <1>1, <1>2, <1>3 DEF write_usb

LEMMA Stutter ==
  ASSUME UNCHANGED <<Outrecs, Outhead, Outtail, nframes, dropped, delivered, lost,
                     FlyingFrames>>
  PROVE  UNCHANGED Fifo!vars
BY RingSame DEF Fifo!vars

LEMMA SendNextMaps ==
  ASSUME CoreType, CoreType', NEW r, NEW rn, send_next_x10out(r, rn)
  PROVE  [Fifo!Next]_(Fifo!vars)
<1>1. CASE ~Outbusy \/ QueueEmpty
  <2>1. UNCHANGED <<Outrecs, Outhead, Outtail, nframes, dropped, usbVars>>
    BY <1>1 DEF send_next_x10out
  <2> QED
    BY <2>1, Stutter DEF usbVars, FlyingFrames
<1>2. CASE Outbusy /\ ~QueueEmpty
  <2>1. /\ Outhead' = next_index(Outhead)
        /\ write_usb(Outrecs[Outhead'], r, rn)
        /\ UNCHANGED <<Outrecs, Outtail, nframes, dropped>>
    BY <1>2 DEF send_next_x10out
  <2>2. /\ Waiting # <<>> /\ Waiting' = Tail(Waiting)
        /\ Outrecs[Outhead'] = Head(Waiting)
    BY <1>2, <2>1, RingTail
  <2>3. Fifo!Send(Head(Waiting))
    BY <2>1, <2>2, SendMaps
  <2> QED
    BY <2>1, <2>2, <2>3 DEF Fifo!Next, Fifo!SendOldest
<1> QED
  BY <1>1, <1>2

LEMMA WriteMaps ==
  ASSUME CoreInv, CoreType', NEW r, NEW rn, x10_write(r, rn)
  PROVE  [Fifo!Next]_(Fifo!vars)
<1> USE DEF CoreInv
<1>0. nframes' = nframes + 1 /\ nframes' \in Nat
  BY DEF x10_write, CoreType
<1>1. CASE Outbusy /\ QueueFull
  <2>1. /\ UNCHANGED <<Outrecs, Outhead, Outtail, usbVars>>
        /\ dropped' = dropped \cup {nframes'}
    BY <1>1 DEF x10_write, add_x10out
  <2>2. Len(Waiting) = OUTPTRSSIZE - 1
    BY <1>1, WaitingIsRing DEF RingFacts
  <2> QED
    BY <1>0, <2>1, <2>2, RingSame DEF Fifo!Next, Fifo!WriteRefused, usbVars, FlyingFrames
<1>2. CASE Outbusy /\ ~QueueFull
  <2>1. /\ UNCHANGED <<Outhead, dropped, usbVars>>
        /\ Outtail' = next_index(Outtail)
        /\ Outrecs' = [Outrecs EXCEPT ![Outtail'] = nframes']
    BY <1>2 DEF x10_write, add_x10out
  <2>2. Waiting' = Append(Waiting, nframes')
    BY <1>0, <1>2, <2>1, RingAppend
  <2>3. Len(Waiting) < OUTPTRSSIZE - 1
    BY <1>2, WaitingIsRing, SizeAssumption DEF RingFacts
  <2> QED
    BY <1>0, <2>1, <2>2, <2>3 DEF Fifo!Next, Fifo!WriteQueued, usbVars, FlyingFrames
<1>3. CASE ~Outbusy
  <2>1. /\ write_usb(nframes', r, rn)
        /\ UNCHANGED <<Outrecs, Outhead, Outtail, dropped>>
    BY <1>3 DEF x10_write
  <2>2. Waiting = <<>> /\ Waiting' = Waiting
    BY <1>3, <2>1, WaitingIsRing, RingSame DEF IdleMeansEmpty, RingFacts
  <2>3. Fifo!Send(nframes')
    BY <2>1, SendMaps
  <2> QED
    BY <1>0, <2>1, <2>2, <2>3 DEF Fifo!Next, Fifo!WriteSent
<1> QED
  BY <1>1, <1>2, <1>3

LEMMA OutCbMaps ==
  ASSUME IntrOut_cb, UNCHANGED <<queueVars, nframes, dropped>>
  PROVE  [Fifo!Next]_(Fifo!vars)
BY Stutter DEF IntrOut_cb, queueVars, FlyingFrames

LEMMA InCbMaps ==
  ASSUME CoreType, CoreType', IntrIn_cb
  PROVE  [Fifo!Next]_(Fifo!vars)
<1>1. CASE send_next_x10out(cbDrain, cbDrain')
  BY <1>1, SendNextMaps
<1>2. CASE UNCHANGED <<queueVars, usbVars, nframes, dropped>>
  BY <1>2, Stutter DEF queueVars, usbVars, FlyingFrames
<1> QED
  BY <1>1, <1>2 DEF IntrIn_cb

LEMMA StepMaps == Inv /\ Inv' /\ [Next]_vars => [Fifo!Next]_(Fifo!vars)
<1> SUFFICES ASSUME Inv, Inv', [Next]_vars PROVE [Fifo!Next]_(Fifo!vars)
  OBVIOUS
<1> USE DEF Inv, CoreInv
<1>1. CASE MainWrite \/ CbWrite
  BY <1>1, WriteMaps DEF MainWrite, CbWrite
<1>2. CASE PollTimeout
  BY <1>2, SendNextMaps DEF PollTimeout
<1>3. CASE PollUsb
  BY <1>3, OutCbMaps, InCbMaps DEF PollUsb
<1>4. CASE MainDrain
  <2>1. \/ IntrOut_cb /\ UNCHANGED <<queueVars, nframes, dropped>>
        \/ IntrIn_cb
        \/ UNCHANGED <<queueVars, usbVars, nframes, dropped>>
    BY <1>4 DEF MainDrain
  <2> QED
    BY <2>1, OutCbMaps, InCbMaps, Stutter DEF queueVars, usbVars, FlyingFrames
<1>5. CASE CbDrain
  <2>1. /\ UNCHANGED <<queueVars, nframes, dropped>>
        /\ IntrOut_cb \/ UNCHANGED usbVars
    BY <1>5 DEF CbDrain
  <2> QED
    BY <2>1, OutCbMaps, Stutter DEF queueVars, usbVars, FlyingFrames
<1>6. CASE DeviceTake
  <2>1. /\ outState = "flying" /\ outState' = "done"
        /\ delivered' = delivered \cup {outFrame}
        /\ UNCHANGED <<Outrecs, Outhead, Outtail, nframes, dropped, lost>>
    BY <1>6 DEF DeviceTake, queueVars
  <2>2. /\ FlyingFrames # {} /\ FlyingFrames' = {}
        /\ delivered' = delivered \cup FlyingFrames
    BY <2>1 DEF FlyingFrames
  <2> QED
    BY <2>1, <2>2, RingSame DEF Fifo!Next, Fifo!Take
<1>7. CASE \/ MainCut \/ CbReturn \/ EnterLoop \/ PollClient \/ PollAgain
           \/ DeviceAck \/ DeviceOther
  <2>1. UNCHANGED <<queueVars, nframes, dropped, delivered, lost, outState, outFrame>>
    BY <1>7 DEF MainCut, CbReturn, EnterLoop, PollClient, PollAgain, DeviceAck,
                DeviceOther, usbVars
  <2> QED
    BY <2>1, Stutter DEF queueVars, FlyingFrames
<1>8. CASE UNCHANGED vars
  BY <1>8, Stutter DEF vars, queueVars, usbVars, FlyingFrames
<1> QED
  BY <1>1, <1>2, <1>3, <1>4, <1>5, <1>6, <1>7, <1>8 DEF Next, Daemon, Device

LEMMA InitMaps == Init => Fifo!Init
<1> SUFFICES ASSUME Init PROVE Fifo!Init
  OBVIOUS
<1>1. CoreType
  BY InvInit DEF Inv, CoreInv
<1>2. Waiting = <<>>
  BY <1>1, WaitingIsRing DEF Init, QueueEmpty, RingFacts
<1> QED
  BY <1>2 DEF Init, Fifo!Init, FlyingFrames

\* The ring, the transfer, the callbacks and the timer implement the queue
\* that x10_write promises, whatever fails (x10_write.c, write_usb, IntrIn_cb).
THEOREM OutputIsAFifo == Spec => ImplementsFifo
<1>1. Init => Fifo!Init
  BY InitMaps
<1>2. Inv /\ Inv' /\ [Next]_vars => [Fifo!Next]_(Fifo!vars)
  BY StepMaps
<1> QED
  BY <1>1, <1>2, InvariantHolds, PTL DEF Spec, ImplementsFifo, Fifo!Spec
-----------------------------------------------------------------------------
(***************************************************************************)
(* Every frame is in one place.                                            *)
(***************************************************************************)

Waits == {Waiting[k] : k \in 1 .. Len(Waiting)}

\* FrameAccounting for the state of FrameFifo: the five places are disjoint, no
\* frame waits twice, and the places hold the frames so far.
Accounted ==
  /\ 1 .. nframes = Waits \cup FlyingFrames \cup delivered \cup dropped \cup lost
  /\ \A j, k \in 1 .. Len(Waiting) : Waiting[j] = Waiting[k] => j = k
  /\ Waits \cap (FlyingFrames \cup delivered \cup dropped \cup lost) = {}
  /\ FlyingFrames \cap (delivered \cup dropped \cup lost) = {}
  /\ delivered \cap (dropped \cup lost) = {}
  /\ dropped \cap lost = {}

\* The part of it that Send touches.
LEMMA SendParts ==
  ASSUME NEW f, Fifo!Send(f), f \notin FlyingFrames \cup delivered \cup lost,
         FlyingFrames \cap (delivered \cup lost) = {}, delivered \cap lost = {}
  PROVE  /\ FlyingFrames' \cup delivered' \cup lost'
              = FlyingFrames \cup delivered \cup lost \cup {f}
         /\ FlyingFrames' \cap (delivered' \cup lost') = {}
         /\ delivered' \cap lost' = {}
<1>1. CASE FlyingFrames = {} /\ FlyingFrames' = {f} /\ UNCHANGED <<delivered, lost>>
  BY <1>1
<1>2. ASSUME NEW T \in SUBSET FlyingFrames,
             FlyingFrames' = {}, delivered' = delivered \cup T,
             lost' = lost \cup {f} \cup (FlyingFrames \ T)
      PROVE  /\ FlyingFrames' \cup delivered' \cup lost'
                  = FlyingFrames \cup delivered \cup lost \cup {f}
             /\ FlyingFrames' \cap (delivered' \cup lost') = {}
             /\ delivered' \cap lost' = {}
  BY <1>2
<1> QED
  BY <1>1, <1>2 DEF Fifo!Send

LEMMA AccountStep ==
  ASSUME Accounted, CoreType, CoreType', Fifo!Next
  PROVE  Accounted'
<1>1. /\ Waiting \in Seq(Nat) /\ Len(Waiting) \in Nat
      /\ Waiting' \in Seq(Nat) /\ Len(Waiting') \in Nat /\ nframes \in Nat
  <2>1. Waiting \in Seq(Nat)
    BY WaitingIsRing DEF RingFacts
  <2>2. Waiting' \in Seq(Nat)
    BY WaitingStaysRing DEF RingFacts
  <2>3. nframes \in Nat
    BY DEF CoreType
  <2> QED
    BY <2>1, <2>2, <2>3, LenProperties
<1>2. nframes + 1 \notin 1 .. nframes /\ 1 .. nframes + 1 = (1 .. nframes) \cup {nframes + 1}
  BY <1>1
<1>3. CASE Fifo!WriteQueued
  <2>1. /\ nframes' = nframes + 1 /\ Waiting' = Append(Waiting, nframes + 1)
        /\ UNCHANGED <<FlyingFrames, delivered, dropped, lost>>
    BY <1>3 DEF Fifo!WriteQueued
  <2>2. /\ Len(Waiting') = Len(Waiting) + 1
        /\ Waiting'[Len(Waiting) + 1] = nframes + 1
        /\ \A k \in 1 .. Len(Waiting) : Waiting'[k] = Waiting[k]
    BY <1>1, <2>1, AppendProperties
  <2>3. Waits' = Waits \cup {nframes + 1}
    <3>1. ASSUME NEW k \in 1 .. Len(Waiting) + 1
          PROVE  Waiting'[k] \in Waits \cup {nframes + 1}
      <4>1. CASE k \in 1 .. Len(Waiting)
        BY <2>2, <4>1 DEF Waits
      <4>2. CASE k = Len(Waiting) + 1
        BY <2>2, <4>2
      <4> QED
        BY <1>1, <4>1, <4>2
    <3>2. ASSUME NEW k \in 1 .. Len(Waiting)
          PROVE  k \in 1 .. Len(Waiting') /\ Waiting'[k] = Waiting[k]
      BY <1>1, <2>2
    <3>3. Len(Waiting) + 1 \in 1 .. Len(Waiting')
      BY <1>1, <2>2
    <3> QED
      BY <2>2, <3>1, <3>2, <3>3 DEF Waits
  <2>4. nframes + 1 \notin Waits \cup FlyingFrames \cup delivered \cup dropped \cup lost
    BY <1>2 DEF Accounted
  <2>5. \A j, k \in 1 .. Len(Waiting') : Waiting'[j] = Waiting'[k] => j = k
    <3>1. \A k \in 1 .. Len(Waiting) : Waiting'[k] # nframes + 1
      BY <2>2, <2>4 DEF Waits
    <3>2. \A k \in 1 .. Len(Waiting') : k \in 1 .. Len(Waiting) \/ k = Len(Waiting) + 1
      BY <1>1, <2>2
    <3> QED
      BY <2>2, <3>1, <3>2 DEF Accounted
  <2> QED
    BY <1>2, <2>1, <2>3, <2>4, <2>5 DEF Accounted
<1>4. CASE Fifo!WriteRefused
  <2>1. /\ nframes' = nframes + 1 /\ dropped' = dropped \cup {nframes + 1}
        /\ UNCHANGED <<Waiting, FlyingFrames, delivered, lost>>
    BY <1>4 DEF Fifo!WriteRefused
  <2>2. Waits' = Waits
    BY <2>1 DEF Waits
  <2>3. nframes + 1 \notin Waits \cup FlyingFrames \cup delivered \cup dropped \cup lost
    BY <1>2 DEF Accounted
  <2> QED
    BY <1>2, <2>1, <2>2, <2>3 DEF Accounted
<1>5. CASE Fifo!WriteSent
  <2>1. /\ nframes' = nframes + 1 /\ Fifo!Send(nframes + 1)
        /\ UNCHANGED <<Waiting, dropped>>
    BY <1>5 DEF Fifo!WriteSent, Fifo!Send
  <2>2. Waits' = Waits
    BY <2>1 DEF Waits
  <2>3. nframes + 1 \notin Waits \cup FlyingFrames \cup delivered \cup dropped \cup lost
    BY <1>2 DEF Accounted
  <2>4. /\ FlyingFrames' \cup delivered' \cup lost'
             = FlyingFrames \cup delivered \cup lost \cup {nframes + 1}
        /\ FlyingFrames' \cap (delivered' \cup lost') = {}
        /\ delivered' \cap lost' = {}
    BY <2>1, <2>3, SendParts DEF Accounted
  <2> QED
    BY <1>2, <2>1, <2>2, <2>3, <2>4 DEF Accounted
<1>6. CASE Fifo!SendOldest
  <2> DEFINE h == Waiting[1]
  <2>1. /\ Waiting # <<>> /\ Waiting' = Tail(Waiting) /\ Fifo!Send(Head(Waiting))
        /\ UNCHANGED <<nframes, dropped>>
    BY <1>6 DEF Fifo!SendOldest
  <2>2. /\ Len(Waiting) \in Nat \ {0} /\ Head(Waiting) = h
        /\ Len(Waiting') = Len(Waiting) - 1
        /\ \A k \in 1 .. Len(Waiting) - 1 : Waiting'[k] = Waiting[k + 1]
    BY <1>1, <2>1, HeadTailProperties, EmptySeq
  <2>3. Waits = Waits' \cup {h} /\ h \notin Waits'
    <3>1. ASSUME NEW k \in 1 .. Len(Waiting) PROVE Waiting[k] \in Waits' \cup {h}
      <4>1. CASE k = 1
        BY <4>1
      <4>2. CASE k # 1
        <5>1. k - 1 \in 1 .. Len(Waiting') /\ Waiting'[k - 1] = Waiting[k]
          BY <1>1, <2>2, <4>2
        <5> QED
          BY <5>1 DEF Waits
      <4> QED
        BY <4>1, <4>2
    <3>2. ASSUME NEW k \in 1 .. Len(Waiting') PROVE Waiting'[k] \in Waits /\ Waiting'[k] # h
      <4>1. /\ k + 1 \in 1 .. Len(Waiting) /\ 1 \in 1 .. Len(Waiting) /\ k + 1 # 1
            /\ Waiting'[k] = Waiting[k + 1]
        BY <1>1, <2>2
      <4>2. Waiting[k + 1] # Waiting[1]
        BY <4>1 DEF Accounted
      <4> QED
        BY <4>1, <4>2 DEF Waits
    <3>3. 1 \in 1 .. Len(Waiting)
      BY <2>2
    <3> QED
      BY <3>1, <3>2, <3>3 DEF Waits
  <2>4. \A j, k \in 1 .. Len(Waiting') : Waiting'[j] = Waiting'[k] => j = k
    <3> SUFFICES ASSUME NEW j \in 1 .. Len(Waiting'), NEW k \in 1 .. Len(Waiting'),
                        Waiting'[j] = Waiting'[k]
                 PROVE  j = k
      OBVIOUS
    <3>1. \A i \in 1 .. Len(Waiting') :
             i + 1 \in 1 .. Len(Waiting) /\ Waiting'[i] = Waiting[i + 1]
      BY <1>1, <2>2
    <3>2. j + 1 = k + 1
      BY <3>1 DEF Accounted
    <3> QED
      BY <3>2
  <2> HIDE DEF h
  <2>5. h \notin FlyingFrames \cup delivered \cup dropped \cup lost
    BY <2>3 DEF Accounted
  <2>6. /\ FlyingFrames' \cup delivered' \cup lost'
             = FlyingFrames \cup delivered \cup lost \cup {h}
        /\ FlyingFrames' \cap (delivered' \cup lost') = {}
        /\ delivered' \cap lost' = {}
    BY <2>1, <2>2, <2>5, SendParts DEF Accounted
  <2> QED
    BY <2>1, <2>3, <2>4, <2>5, <2>6 DEF Accounted
<1>7. CASE Fifo!Take
  <2>1. /\ FlyingFrames' = {} /\ delivered' = delivered \cup FlyingFrames
        /\ UNCHANGED <<nframes, Waiting, dropped, lost>>
    BY <1>7 DEF Fifo!Take
  <2>2. Waits' = Waits
    BY <2>1 DEF Waits
  <2> QED
    BY <2>1, <2>2 DEF Accounted
<1> QED
  BY <1>3, <1>4, <1>5, <1>6, <1>7 DEF Fifo!Next

\* The frames in the slots of the ring are those of the sequence, and as many.
LEMMA RingAccount ==
  ASSUME CoreType, Accounted
  PROVE  /\ QueuedFrames = Waits
         /\ IsFiniteSet(Waits) /\ Cardinality(Waits) = Cardinality(Queued)
<1> USE SizeAssumption DEF Slots
<1>1. /\ RingLen \in 0 .. OUTPTRSSIZE - 1
      /\ Len(Waiting) = RingLen
      /\ \A k \in 1 .. RingLen : Waiting[k] = Outrecs[SlotAt(k)]
  BY WaitingIsRing DEF RingFacts
<1>2. Outhead \in Slots /\ Outtail \in Slots
  BY DEF CoreType
<1>3. \A k \in 1 .. RingLen : SlotAt(k) \in Queued
  BY <1>2 DEF RingLen, SlotAt, Queued
<1>4. \A j, k \in 1 .. RingLen : SlotAt(j) = SlotAt(k) => j = k
  BY <1>2 DEF RingLen, SlotAt
<1>5. \A i \in Queued : Place(i) \in 1 .. RingLen /\ SlotAt(Place(i)) = i
  BY <1>2 DEF RingLen, SlotAt, Queued, Place
<1>6. QueuedFrames = Waits
  <2>1. ASSUME NEW i \in Queued PROVE Outrecs[i] \in Waits
    BY <1>1, <1>5 DEF Waits
  <2>2. ASSUME NEW k \in 1 .. Len(Waiting) PROVE Waiting[k] \in QueuedFrames
    BY <1>1, <1>3 DEF QueuedFrames
  <2> QED
    BY <2>1, <2>2 DEF Waits, QueuedFrames
<1>7. IsFiniteSet(1 .. RingLen)
  BY <1>1, FS_Interval
<1>8. IsFiniteSet(Queued) /\ Cardinality(Queued) = Cardinality(1 .. RingLen)
  <2> DEFINE g == [k \in 1 .. RingLen |-> SlotAt(k)]
  <2>1. g \in Bijection(1 .. RingLen, Queued)
    <3>1. g \in [1 .. RingLen -> Queued] /\ \A j, k \in 1 .. RingLen : g[j] = g[k] => j = k
      BY <1>3, <1>4
    <3>2. \A i \in Queued : \E k \in 1 .. RingLen : g[k] = i
      BY <1>5
    <3> QED
      BY <3>1, <3>2 DEF Bijection, Injection, Surjection, IsInjective
  <2> QED
    BY <1>7, <2>1, FS_Bijection DEF ExistsBijection
<1>9. IsFiniteSet(Waits) /\ Cardinality(Waits) = Cardinality(1 .. RingLen)
  <2> DEFINE g == [k \in 1 .. RingLen |-> Waiting[k]]
  <2>1. g \in Bijection(1 .. RingLen, Waits)
    <3>1. g \in [1 .. RingLen -> Waits] /\ \A j, k \in 1 .. RingLen : g[j] = g[k] => j = k
      BY <1>1 DEF Waits, Accounted
    <3>2. \A f \in Waits : \E k \in 1 .. RingLen : g[k] = f
      BY <1>1 DEF Waits
    <3> QED
      BY <3>1, <3>2 DEF Bijection, Injection, Surjection, IsInjective
  <2> QED
    BY <1>7, <2>1, FS_Bijection DEF ExistsBijection
<1> QED
  BY <1>6, <1>8, <1>9

LEMMA AccountsAdd ==
  ASSUME CoreType, Accounted
  PROVE  FrameAccounting
<1>1. QueuedFrames = Waits /\ IsFiniteSet(Waits) /\ Cardinality(Waits) = Cardinality(Queued)
  BY RingAccount
<1>2. nframes \in Nat
  BY DEF CoreType
<1>3. IsFiniteSet(1 .. nframes) /\ Cardinality(1 .. nframes) = nframes
  BY <1>2, FS_Interval
<1>4. \A S \in SUBSET (1 .. nframes) : IsFiniteSet(S) /\ Cardinality(S) \in Nat
  BY <1>3, FS_Subset, FS_CardinalityType
<1>5. ASSUME NEW S \in SUBSET (1 .. nframes), NEW T \in SUBSET (1 .. nframes), S \cap T = {}
      PROVE  /\ S \cup T \in SUBSET (1 .. nframes)
             /\ Cardinality(S \cup T) = Cardinality(S) + Cardinality(T)
  <2>1. Cardinality(S \cup T) = Cardinality(S) + Cardinality(T) - Cardinality(S \cap T)
    BY <1>4, FS_Union
  <2>2. Cardinality(S \cap T) = 0
    BY <1>5, FS_EmptySet
  <2>3. Cardinality(S) \in Nat /\ Cardinality(T) \in Nat
    BY <1>4
  <2> QED
    BY <2>1, <2>2, <2>3
<1> DEFINE A == dropped \cup lost
           B == delivered \cup A
           C == FlyingFrames \cup B
<1>6. /\ Waits \in SUBSET (1 .. nframes) /\ FlyingFrames \in SUBSET (1 .. nframes)
      /\ delivered \in SUBSET (1 .. nframes) /\ dropped \in SUBSET (1 .. nframes)
      /\ lost \in SUBSET (1 .. nframes)
      /\ dropped \cap lost = {} /\ delivered \cap A = {} /\ FlyingFrames \cap B = {}
      /\ Waits \cap C = {} /\ 1 .. nframes = Waits \cup C
  BY DEF Accounted
<1>7. A \in SUBSET (1 .. nframes) /\ Cardinality(A) = Cardinality(dropped) + Cardinality(lost)
  BY <1>5, <1>6
<1>8. B \in SUBSET (1 .. nframes) /\ Cardinality(B) = Cardinality(delivered) + Cardinality(A)
  BY <1>5, <1>6, <1>7
<1>9. C \in SUBSET (1 .. nframes) /\ Cardinality(C) = Cardinality(FlyingFrames) + Cardinality(B)
  BY <1>5, <1>6, <1>8
<1>10. Cardinality(1 .. nframes) = Cardinality(Waits) + Cardinality(C)
  <2>1. Cardinality(Waits \cup C) = Cardinality(Waits) + Cardinality(C)
    BY <1>5, <1>6, <1>9
  <2> QED
    BY <2>1, <1>6
<1>11. /\ Cardinality(Waits) \in Nat /\ Cardinality(FlyingFrames) \in Nat
       /\ Cardinality(delivered) \in Nat /\ Cardinality(dropped) \in Nat
       /\ Cardinality(lost) \in Nat
  BY <1>4, <1>6
<1> HIDE DEF A, B, C
<1>12. nframes = Cardinality(Waits) + Cardinality(FlyingFrames) + Cardinality(delivered)
                   + Cardinality(dropped) + Cardinality(lost)
  BY <1>3, <1>7, <1>8, <1>9, <1>10, <1>11
<1>13. 1 .. nframes = Waits \cup FlyingFrames \cup delivered \cup dropped \cup lost
  BY DEF Accounted
<1> QED
  BY <1>1, <1>12, <1>13 DEF FrameAccounting

\* No frame vanishes and none is in two places, for any ring size, across
\* wrap-around, overflow, failing transfers, cancellations and callbacks that
\* run inside handlers.
THEOREM EveryFrameOnce == Spec => []FrameAccounting
<1>1. Init => Accounted
  <2> SUFFICES ASSUME Init PROVE Accounted
    OBVIOUS
  <2>1. CoreType
    BY InvInit DEF Inv, CoreInv
  <2>2. Waiting = <<>> /\ Len(Waiting) = 0
    BY <2>1, WaitingIsRing DEF Init, QueueEmpty, RingFacts
  <2>3. Waits = {}
    BY <2>2 DEF Waits
  <2> QED
    BY <2>2, <2>3 DEF Init, FlyingFrames, Accounted
<1>2. Inv /\ Inv' /\ Accounted /\ [Next]_vars => Accounted'
  <2> SUFFICES ASSUME Inv, Inv', Accounted, [Next]_vars PROVE Accounted'
    OBVIOUS
  <2>1. [Fifo!Next]_(Fifo!vars)
    BY StepMaps
  <2>2. CASE Fifo!Next
    BY <2>2, AccountStep DEF Inv, CoreInv
  <2>3. CASE UNCHANGED Fifo!vars
    <3>1. UNCHANGED <<nframes, Waiting, FlyingFrames, delivered, dropped, lost>>
      BY <2>3 DEF Fifo!vars
    <3> QED
      BY <3>1 DEF Accounted, Waits
  <2> QED
    BY <2>1, <2>2, <2>3
<1>3. Inv /\ Accounted => FrameAccounting
  BY AccountsAdd DEF Inv, CoreInv
<1> QED
  BY <1>1, <1>2, <1>3, InvariantHolds, PTL DEF Spec

=============================================================================
