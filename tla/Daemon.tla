------------------------------- MODULE Daemon -------------------------------
(***************************************************************************)
(* How the daemon starts, runs and ends: mydaemon of mochad.c with the     *)
(* libusb transfers it owns, and the receiver threads of sensorflare.c     *)
(* with the AMQP connection they consume from.                             *)
(*                                                                         *)
(* Thread 0 is mydaemon, thread k the receiver of connection k: when a     *)
(* receiver's connection fails it connects again, which creates the next   *)
(* thread, and ends.  Every thread may run commands and so write to the    *)
(* controller, handle USB events while a write fails, and publish; exit()  *)
(* in one of them ends all.                                                *)
(*                                                                         *)
(* What is written and which client is served is left out, see X10Write,   *)
(* Gateway and Clients.                                                    *)
(***************************************************************************)
EXTENDS Integers, Sequences

CONSTANTS
  Rounds,     \* calls of libusb_handle_events in a drain loop, 100 in the code
  MAXCONN,    \* bound on the connections to the broker
  MAXMSG      \* bound on the messages put into the commands queue

ASSUME RoundsAssumption == Rounds \in Nat
ASSUME BoundAssumption == MAXCONN \in Nat \ {0} /\ MAXMSG \in Nat

VARIABLES
  pc, rounds,   \* of each thread: where it is, and rounds left of its loop
  cb,           \* the thread in IntrIn_cb, or NoThread
  plugged,      \* the controller is there
  Do_exit, Devh,
  IntrIn,       \* the IN transfer: "none", "idle", "flying", "ok" or "failed"
                \* (complete, not yet reported), "cb" (in its callback), "freed"
  IntrInSet,    \* IntrIn_transfer is not NULL
  IntrOut,      \* the OUT transfer: "none", "idle", "flying", "freed"
  username,     \* sensorflare.conf has been read
  conn, conns,  \* the global connection, and the state of each: "none", "open",
                \* "lost" (reset), "silent" (half-open: its other end is gone, and
                \* nothing tells the daemon so) or "closed"
  queue, held,  \* the broker: messages waiting, and delivered but not acknowledged
  inbox,        \* messages in the library's buffers
  (* history *)
  published, executed,  \* number of messages so far, and those that were run
  shared,     \* a receiver has used the transfers
  misuse      \* a call was given a freed transfer

usbVars == <<cb, plugged, Do_exit, Devh, IntrIn, IntrInSet, IntrOut,
             shared, misuse>>
brokerVars == <<username, conn, conns, queue, held, inbox, published, executed>>
vars == <<pc, rounds, usbVars, brokerVars>>

Threads == 0 .. MAXCONN
Receivers == 1 .. MAXCONN
NoThread == -1
Running == pc[0] # "ended"

At(t, l) == Running /\ cb # t /\ pc[t] = l
Goto(t, l) == pc' = [pc EXCEPT ![t] = l]
Exit == Goto(0, "ended")    \* exit(), in any thread, and the end of main

-----------------------------------------------------------------------------
(***************************************************************************)
(* USB events and writes, by any thread                                    *)
(***************************************************************************)

\* IntrIn_cb of a transfer that did not complete, NULLing the pointer or not.
Failed_keeps_pointer(t) ==
  /\ IntrIn = "failed"
  /\ Do_exit' = 2 /\ IntrIn' = "freed"
  /\ UNCHANGED <<cb, IntrInSet>>
Failed(t) ==
  /\ IntrIn = "failed"
  /\ Do_exit' = 2 /\ IntrIn' = "freed" /\ IntrInSet' = FALSE
  /\ UNCHANGED cb

\* One call of libusb_handle_events.  The OUT transfer may be complete: its
\* callback does nothing.  While another thread handles events the call only
\* waits for it.
HandleEvents(t) ==
  /\ IntrOut' \in {IntrOut} \cup {s \in {"idle"} : IntrOut = "flying"}
  /\ IF cb = NoThread /\ IntrIn \in {"ok", "failed"}
     THEN \/ Failed(t)
          \/ IntrIn = "ok" /\ IntrIn' = "cb" /\ cb' = t /\ UNCHANGED <<Do_exit, IntrInSet>>
     ELSE UNCHANGED <<cb, Do_exit, IntrIn, IntrInSet>>
  /\ shared' = (shared \/ t # 0)
  /\ UNCHANGED <<plugged, Devh, misuse, brokerVars>>

\* Decoding a packet may write, which may mean waiting for the frame in flight.
DecodeWrites ==
  \/ UNCHANGED IntrOut
  \/ IntrOut \in {"idle", "flying"} /\ IntrOut' = "idle"
  \/ IntrOut \in {"idle", "flying"} /\ plugged /\ IntrOut' = "flying"

\* IntrIn_cb of a packet: it is decoded, which may publish and write, and the
\* transfer submitted again.
CbReturn_quiet(t) ==
  /\ Running /\ cb = t
  /\ cb' = NoThread
  /\ IntrIn' \in {"idle"} \cup {s \in {"flying"} : plugged}
  /\ DecodeWrites
  /\ UNCHANGED <<pc, rounds, plugged, Do_exit, Devh, IntrInSet, shared,
                 misuse, brokerVars>>

CbReturn(t) ==
  /\ Running /\ cb = t
  /\ cb' = NoThread
  /\ \/ IntrIn' = "flying" /\ plugged /\ UNCHANGED Do_exit
     \/ IntrIn' = "idle" /\ Do_exit' = 2
  /\ DecodeWrites
  /\ UNCHANGED <<pc, rounds, plugged, Devh, IntrInSet, shared, misuse,
                 brokerVars>>

\* write_usb: the OUT transfer is submitted; when that fails it is cancelled
\* and events are handled.
write_usb(t, next, drain) ==
  /\ \/ /\ IntrOut = "idle" /\ plugged
        /\ IntrOut' = "flying" /\ Goto(t, next) /\ UNCHANGED rounds
     \/ /\ Goto(t, drain) /\ rounds' = [rounds EXCEPT ![t] = Rounds]
        /\ UNCHANGED IntrOut
  /\ misuse' = (misuse \/ IntrOut = "freed")
  /\ shared' = (shared \/ t # 0)
  /\ UNCHANGED <<cb, plugged, Do_exit, Devh, IntrIn, IntrInSet, brokerVars>>

\* while (IntrOut_transfer && i--): the pointer is never NULL again, so the
\* loop ends with its count, or when libusb_handle_events fails.
DrainLoop_uncounted(t, loop, next) ==
  /\ At(t, loop)
  /\ HandleEvents(t)
  /\ UNCHANGED <<pc, rounds>>

DrainLoop(t, loop, next) ==
  /\ At(t, loop)
  /\ \/ /\ rounds[t] > 0
        /\ HandleEvents(t)
        /\ rounds' = [rounds EXCEPT ![t] = @ - 1]
        /\ UNCHANGED pc
     \/ /\ rounds[t] = 0
        /\ Goto(t, next)
        /\ UNCHANGED <<rounds, usbVars, brokerVars>>

DrainError(t, loop, next) ==
  /\ At(t, loop)
  /\ Goto(t, next)
  /\ rounds' = [rounds EXCEPT ![t] = 0]
  /\ UNCHANGED <<usbVars, brokerVars>>

\* sendMessage, from decoding a packet and from most commands, ends the daemon
\* when anything fails.
PublishFails(t) ==
  /\ Running
  /\ cb = t \/ pc[t] \in {"hello", "work", "run"}
  /\ Exit
  /\ UNCHANGED <<rounds, usbVars, brokerVars>>

-----------------------------------------------------------------------------
(***************************************************************************)
(* mydaemon: start                                                         *)
(***************************************************************************)

\* find_cm15a: the controller may be missing, and its interface be claimed by
\* a kernel driver that is then detached.
Find ==
  /\ At(0, "find")
  /\ \/ Goto(0, "out") /\ UNCHANGED Devh
     \/ /\ plugged
        /\ Devh' = "open"
        /\ Goto(0, "endpoints") \/ Goto(0, "out")
  /\ UNCHANGED <<rounds, cb, plugged, Do_exit, IntrIn, IntrInSet, IntrOut, shared,
                 misuse, brokerVars>>

Endpoints ==
  /\ At(0, "endpoints")
  /\ Goto(0, "alloc") \/ Goto(0, "deinit")
  /\ UNCHANGED <<rounds, usbVars, brokerVars>>

alloc_transfers ==
  /\ At(0, "alloc")
  /\ \/ Goto(0, "deinit") /\ UNCHANGED <<IntrIn, IntrInSet, IntrOut>>
     \/ /\ IntrIn' = "idle" /\ IntrInSet' = TRUE
        /\ \/ Goto(0, "deinit") /\ UNCHANGED IntrOut
           \/ Goto(0, "start") /\ IntrOut' = "idle"
  /\ UNCHANGED <<rounds, cb, plugged, Do_exit, Devh, shared, misuse,
                 brokerVars>>

start_transfers ==
  /\ At(0, "start")
  /\ \/ Goto(0, "deinit") /\ UNCHANGED IntrIn
     \/ plugged /\ IntrIn' = "flying" /\ Goto(0, "init")
  /\ UNCHANGED <<rounds, cb, plugged, Do_exit, Devh, IntrInSet, IntrOut,
                 shared, misuse, brokerVars>>

\* The first frame of the initial sequence; the others are queued.
initcm1Xa ==
  /\ At(0, "init")
  /\ \/ Goto(0, "bridge") /\ UNCHANGED <<rounds, usbVars, brokerVars>>
     \/ write_usb(0, "bridge", "initDrain")

\* init_sensorflare: without a configuration there is no receiver; when
\* anything else fails the daemon ends.
NoAck_set == TRUE
NoAck == FALSE

init_sensorflare(t, l, next) ==
  /\ At(t, l)
  /\ \/ Goto(t, next) /\ UNCHANGED <<username, conn, conns>>
     \/ Exit /\ UNCHANGED <<username, conn, conns>>
     \/ /\ conn < MAXCONN
        /\ username' = TRUE
        /\ conn' = conn + 1
        /\ conns' = [conns EXCEPT ![conn + 1] = "open"]
        /\ pc' = [pc EXCEPT ![t] = next, ![conn + 1] = "start"]
  /\ UNCHANGED <<rounds, usbVars, queue, held, inbox, published, executed>>

\* sendMessage("Connected ..."): without user name and password it fails.
Hello ==
  /\ At(0, "hello")
  /\ IF username THEN Goto(0, "top") ELSE Exit
  /\ UNCHANGED <<rounds, usbVars, brokerVars>>

-----------------------------------------------------------------------------
(***************************************************************************)
(* mydaemon: the loop, and its end                                         *)
(***************************************************************************)

Top ==
  /\ At(0, "top")
  /\ Goto(0, IF Do_exit = 0 THEN "poll" ELSE "cancelOut")
  /\ UNCHANGED <<rounds, usbVars, brokerVars>>

\* A completed transfer, or a controller that is gone, makes poll return.
UsbReady == IntrIn \in {"ok", "failed"} \/ ~plugged

PollUsb ==
  /\ At(0, "poll") /\ UsbReady
  /\ Goto(0, "events")
  /\ UNCHANGED <<rounds, usbVars, brokerVars>>

\* Clients, a frame that has been sent, or a signal in poll.
PollOther ==
  /\ At(0, "poll")
  /\ Goto(0, "events")
  /\ UNCHANGED <<rounds, usbVars, brokerVars>>

\* send_next_x10out follows, which may write.
PollTimeout ==
  /\ At(0, "poll") /\ ~UsbReady
  /\ Goto(0, "work")
  /\ UNCHANGED <<rounds, usbVars, brokerVars>>

Events ==
  /\ At(0, "events")
  /\ HandleEvents(0)
  /\ Goto(0, "work")
  /\ UNCHANGED rounds

\* Commands of clients, some of which write.
Work ==
  /\ At(0, "work")
  /\ \/ Goto(0, "top") /\ UNCHANGED <<rounds, usbVars, brokerVars>>
     \/ write_usb(0, "top", "workDrain")

\* A transfer that is not in flight cannot be cancelled; the daemon then goes
\* on to the end at once.
CancelOut ==
  /\ At(0, "cancelOut")
  /\ \/ Goto(0, "deinit")
     \/ IntrOut = "flying" /\ Goto(0, "cancelIn")
  /\ UNCHANGED <<rounds, usbVars, brokerVars>>

CancelIn ==
  /\ At(0, "cancelIn")
  /\ \/ IntrInSet /\ Goto(0, "deinit") /\ UNCHANGED <<IntrIn, rounds>>
     \/ /\ IntrInSet => IntrIn \in {"flying", "ok", "failed"}
        /\ IntrIn' = IF IntrIn = "flying" THEN "failed" ELSE IntrIn
        /\ Goto(0, "drain") /\ rounds' = [rounds EXCEPT ![0] = Rounds]
  /\ misuse' = (misuse \/ (IntrInSet /\ IntrIn = "freed"))
  /\ UNCHANGED <<cb, plugged, Do_exit, Devh, IntrInSet, IntrOut, shared,
                 brokerVars>>

\* libusb_free_transfer of both, of which either may be NULL.
Deinit ==
  /\ At(0, "deinit")
  /\ IntrIn' = IF IntrInSet THEN "freed" ELSE IntrIn
  /\ IntrOut' = IF IntrOut = "none" THEN "none" ELSE "freed"
  /\ misuse' = (misuse \/ (IntrInSet /\ IntrIn = "freed"))
  /\ Goto(0, "out")
  /\ UNCHANGED <<rounds, cb, plugged, Do_exit, Devh, IntrInSet, shared,
                 brokerVars>>

\* The handle is closed, and the kernel driver then attached through it;
\* mydaemon and main return.
Out ==
  /\ At(0, "out")
  /\ Devh' = IF Devh = "open" THEN "closed" ELSE Devh
  /\ Exit
  /\ UNCHANGED <<rounds, cb, plugged, Do_exit, IntrIn, IntrInSet, IntrOut,
                 shared, misuse, brokerVars>>

\* SIGTERM and the like end the daemon until sighandler is installed.
sighandler ==
  /\ Running
  /\ IF pc[0] \in {"find", "endpoints", "alloc", "start"}
     THEN Exit /\ UNCHANGED Do_exit
     ELSE Do_exit' = 1 /\ UNCHANGED pc
  /\ UNCHANGED <<rounds, cb, plugged, Devh, IntrIn, IntrInSet, IntrOut,
                 shared, misuse, brokerVars>>

Mydaemon ==
  \/ Find \/ Endpoints \/ alloc_transfers \/ start_transfers \/ initcm1Xa
  \/ init_sensorflare(0, "bridge", "hello") \/ Hello
  \/ Top \/ PollUsb \/ Events \/ Work \/ CancelOut \/ CancelIn \/ Deinit \/ Out
  \/ DrainLoop(0, "initDrain", "bridge") \/ DrainLoop(0, "workDrain", "top")
  \/ DrainLoop(0, "drain", "deinit")
  \/ CbReturn(0)

-----------------------------------------------------------------------------
(***************************************************************************)
(* receiver                                                                *)
(***************************************************************************)

\* amqp_consume_message, and the command that came.  It has no timeout, and the
\* connection no heartbeat: without a message it returns only if the connection
\* is reset.
Consume(t) ==
  /\ At(t, "consume")
  /\ conns[conn] \in {"open", "silent"} /\ inbox # <<>>
  /\ inbox' = Tail(inbox)
  /\ executed' = executed \cup {Head(inbox)}
  /\ Goto(t, "run")
  /\ UNCHANGED <<rounds, usbVars, username, conn, conns, queue, held, published>>

Run(t) ==
  /\ At(t, "run")
  /\ \/ Goto(t, "consume") /\ UNCHANGED <<rounds, usbVars, brokerVars>>
     \/ write_usb(t, "consume", "runDrain")

ConsumeLost(t) ==
  /\ At(t, "consume") /\ conns[conn] = "lost"
  /\ Goto(t, "close")
  /\ UNCHANGED <<rounds, usbVars, brokerVars>>

\* Something else than a message.
ConsumeOther(t) ==
  /\ At(t, "consume") /\ conns[conn] = "open"
  /\ Goto(t, "close")
  /\ UNCHANGED <<rounds, usbVars, brokerVars>>

\* The channel and the connection are closed, which ends the daemon when the
\* connection is lost.  The broker takes back what was not acknowledged.
Close(t) ==
  /\ At(t, "close")
  /\ \/ Exit /\ UNCHANGED <<conns, queue, held, inbox>>
     \/ /\ conns[conn] = "open"
        /\ conns' = [conns EXCEPT ![conn] = "closed"]
        /\ queue' = held \o queue /\ held' = <<>> /\ inbox' = <<>>
        /\ Goto(t, "reconnect")
  /\ UNCHANGED <<rounds, usbVars, username, conn, published, executed>>

Start(t) ==
  /\ At(t, "start")
  /\ Goto(t, "consume")
  /\ UNCHANGED <<rounds, usbVars, brokerVars>>

receiver_goes_on(t) ==
  \/ Start(t) \/ Consume(t) \/ ConsumeLost(t) \/ Run(t) \/ Close(t)
  \/ init_sensorflare(t, "reconnect", "consume")
  \/ DrainLoop(t, "runDrain", "consume")
  \/ CbReturn(t)

receiver(t) ==
  \/ Start(t) \/ Consume(t) \/ ConsumeLost(t) \/ Run(t) \/ Close(t)
  \/ init_sensorflare(t, "reconnect", "gone")
  \/ DrainLoop(t, "runDrain", "consume")
  \/ CbReturn(t)

-----------------------------------------------------------------------------
(***************************************************************************)
(* The controller and the broker                                           *)
(***************************************************************************)

\* The IN transfer completes.
InOk ==
  /\ Running /\ plugged /\ IntrIn = "flying"
  /\ IntrIn' = "ok"
  /\ UNCHANGED <<pc, rounds, cb, plugged, Do_exit, Devh, IntrInSet,
                 IntrOut, shared, misuse, brokerVars>>

InFails ==
  /\ Running /\ IntrIn = "flying"
  /\ IntrIn' = "failed"
  /\ UNCHANGED <<pc, rounds, cb, plugged, Do_exit, Devh, IntrInSet,
                 IntrOut, shared, misuse, brokerVars>>

Unplug ==
  /\ Running /\ plugged
  /\ plugged' = FALSE
  /\ UNCHANGED <<pc, rounds, cb, Do_exit, Devh, IntrIn, IntrInSet,
                 IntrOut, shared, misuse, brokerVars>>

Publish ==
  /\ Running /\ published < MAXMSG
  /\ published' = published + 1
  /\ queue' = Append(queue, published')
  /\ UNCHANGED <<pc, rounds, usbVars, username, conn, conns, held, inbox, executed>>

Deliver ==
  /\ Running /\ conn > 0 /\ conns[conn] = "open" /\ queue # <<>>
  /\ inbox' = Append(inbox, Head(queue))
  /\ held' = IF NoAck THEN held ELSE Append(held, Head(queue))
  /\ queue' = Tail(queue)
  /\ UNCHANGED <<pc, rounds, usbVars, username, conn, conns, published, executed>>

\* The connection is reset, and the broker takes back what was not acknowledged,
\* or it goes silent.
Lose ==
  /\ Running /\ conn > 0 /\ conns[conn] = "open"
  /\ \/ /\ conns' = [conns EXCEPT ![conn] = "lost"]
        /\ queue' = held \o queue /\ held' = <<>> /\ inbox' = <<>>
     \/ /\ conns' = [conns EXCEPT ![conn] = "silent"]
        /\ UNCHANGED <<queue, held, inbox>>
  /\ UNCHANGED <<pc, rounds, usbVars, username, conn, published, executed>>

-----------------------------------------------------------------------------

Init ==
  /\ pc = [t \in Threads |-> IF t = 0 THEN "find" ELSE "none"]
  /\ rounds = [t \in Threads |-> 0]
  /\ cb = NoThread
  /\ plugged \in BOOLEAN
  /\ Do_exit = 0 /\ Devh = "null"
  /\ IntrIn = "none" /\ IntrInSet = FALSE /\ IntrOut = "none"
  /\ username = FALSE
  /\ conn = 0 /\ conns = [k \in Receivers |-> "none"]
  /\ queue = <<>> /\ held = <<>> /\ inbox = <<>>
  /\ published = 0 /\ executed = {}
  /\ shared = FALSE /\ misuse = FALSE

Environment ==
  \/ InOk \/ InFails \/ Unplug \/ Publish \/ Deliver \/ Lose
  \/ PollOther \/ PollTimeout \/ sighandler
  \/ \E t \in Threads : PublishFails(t)
  \/ \E t \in Receivers : ConsumeOther(t) \/ DrainError(t, "runDrain", "consume")
  \/ DrainError(0, "initDrain", "bridge") \/ DrainError(0, "workDrain", "top")
  \/ DrainError(0, "drain", "deinit")

Next == Mydaemon \/ (\E t \in Receivers : receiver(t)) \/ Environment

Fairness ==
  /\ WF_vars(Mydaemon)
  /\ \A t \in Receivers : WF_vars(receiver(t))
  /\ WF_vars(~plugged /\ InFails)
  /\ WF_vars(Deliver)

Spec == Init /\ [][Next]_vars /\ Fairness

-----------------------------------------------------------------------------
(***************************************************************************)
(* Properties                                                              *)
(***************************************************************************)

\* The daemon never waits deaf: while the loop waits in poll and has not been
\* told to end, the IN transfer is in flight, complete, or being handled,
\* whatever the last callback met.
HearsController ==
  pc[0] = "poll" /\ Do_exit = 0 => IntrIn \in {"flying", "ok", "failed", "cb"}

\* As long as no receiver has written, no call is given a transfer that has
\* been freed, no transfer is freed twice, and none is left when the handle is
\* closed, on every path through the start, the loop and the end.
TransfersOwned ==
  ~shared => /\ ~misuse
             /\ Devh = "closed" => {IntrIn, IntrOut} \subseteq {"none", "freed"}

\* "Plugging a CM15A or CM19A should launch mochad" (README): unplugging it
\* ends the daemon, whatever it was doing.
UnplugEnds == ~plugged ~> ~Running

\* One thread at a time consumes, from a connection that the daemon has not
\* closed.
OneReceiver ==
  \A t \in Receivers :
    pc[t] \in {"start", "consume", "run", "runDrain"}
      => conn = t /\ conns[t] \in {"open", "lost", "silent"}

\* No command is lost between two connections: as long as there is a
\* receiver, every message of the commands queue is run, unless the connection
\* goes silent, which leaves the receiver waiting for good.
Off == \A t \in Receivers : pc[t] \in {"none", "gone"}
Silent == conn > 0 /\ conns[conn] = "silent"

CommandsRun ==
  \A m \in 1 .. MAXMSG :
    m <= published /\ ~Off ~> (m \in executed \/ Off \/ ~Running \/ Silent)

=============================================================================
