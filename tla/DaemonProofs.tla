---------------------------- MODULE DaemonProofs ----------------------------
(***************************************************************************)
(* Theorems about Daemon, for any number of connections and any length of  *)
(* the drain loops.                                                        *)
(*                                                                         *)
(* Three invariants, one per theorem, rest on where the threads are: the   *)
(* daemon's own thread goes through its places in the order of mydaemon,   *)
(* a receiver through its own.  A fourth is about the commands queue.      *)
(***************************************************************************)
EXTENDS Daemon, SequenceTheorems, TLAPS

Loop == {"init", "initDrain", "bridge", "hello", "top", "poll", "events", "work",
         "workDrain"}
MainPlaces == Loop \cup {"find", "endpoints", "alloc", "start", "cancelOut",
                         "cancelIn", "drain", "deinit", "out", "ended"}
LivePlaces == {"start", "consume", "run", "runDrain", "close"}
ReceiverPlaces == LivePlaces \cup {"none", "reconnect", "gone"}

Places ==
  /\ pc \in [Threads -> MainPlaces \cup ReceiverPlaces]
  /\ pc[0] \in MainPlaces
  /\ \A t \in Receivers : pc[t] \in ReceiverPlaces

\* From the first submit to the end of the loop, only Do_exit keeps the daemon
\* from hearing the controller.
Hears ==
  pc[0] \in Loop /\ Do_exit = 0 => IntrIn \in {"flying", "ok", "failed", "cb"}

\* The receiver of the global connection is the only one that is still at work,
\* and there is none before mydaemon has connected.
LastReceiver ==
  /\ conn \in 0 .. MAXCONN
  /\ conns \in [Receivers -> {"none", "open", "lost", "silent", "closed"}]
  /\ pc[0] \in {"find", "endpoints", "alloc", "start", "init", "initDrain", "bridge"}
       => conn = 0
  /\ \A t \in Receivers :
       /\ pc[t] \in LivePlaces => conn = t /\ conns[t] \in {"open", "lost", "silent"}
       /\ pc[t] = "reconnect" => conn = t
       /\ conn < t => pc[t] = "none"

\* The pointer to the IN transfer is NULL or good until the end, and the
\* transfers of a single thread are freed before the handle is closed.
Ended == pc[0] \in {"out", "ended"}
Owned ==
  /\ cb \in {NoThread, 0}
  /\ ~misuse
  /\ IntrInSet /\ ~Ended => IntrIn \notin {"none", "freed"}
  /\ ~IntrInSet => IntrIn \in {"none", "freed"}
  /\ ~Ended => IntrOut # "freed"
  /\ Devh = "closed" => pc[0] = "ended"
  /\ pc[0] = "out" \/ Devh = "closed" => {IntrIn, IntrOut} \subseteq {"none", "freed"}
  /\ pc[0] \in {"find", "endpoints", "alloc"}
       => ~IntrInSet /\ IntrIn = "none" /\ IntrOut = "none"
  /\ pc[0] = "start" => IntrInSet
  /\ cb = 0 => IntrInSet /\ IntrIn = "cb" /\ pc[0] # "out"
OwnedAlone ==
  /\ {shared, misuse, IntrInSet} \subseteq BOOLEAN
  /\ ~shared => Owned

\* A message is in the broker's queue, in the library's buffers or has been run,
\* and what is in the buffers the broker will take back.
Messages(s) == {s[i] : i \in 1 .. Len(s)}
Kept == \A m \in 1 .. published : m \in Messages(queue) \cup Messages(inbox) \cup executed
Recoverable ==
  /\ published \in Nat
  /\ queue \in Seq(Nat) /\ held \in Seq(Nat) /\ inbox \in Seq(Nat)
  /\ Messages(inbox) \subseteq Messages(held)
  /\ Kept

-----------------------------------------------------------------------------

LEMMA ThreadFacts ==
  /\ 0 \in Threads /\ Receivers \subseteq Threads /\ 0 \notin Receivers
  /\ Receivers \subseteq Nat /\ NoThread \notin Threads /\ NoThread # 0
BY BoundAssumption DEF Threads, Receivers, NoThread

\* Every thread stays among its places.
LEMMA PlacesStep ==
  ASSUME Places, [Next]_vars
  PROVE  Places'
<1> USE ThreadFacts DEF At, Goto, Exit, Running, usbVars, brokerVars,
           Places, MainPlaces, Loop, LivePlaces, ReceiverPlaces
<1>1. CASE Find
  BY <1>1 DEF Find
<1>2. CASE Endpoints
  BY <1>2 DEF Endpoints
<1>3. CASE alloc_transfers
  BY <1>3 DEF alloc_transfers
<1>4. CASE start_transfers
  BY <1>4 DEF start_transfers
<1>5. CASE initcm1Xa
  BY <1>5 DEF initcm1Xa, write_usb
<1>6. CASE init_sensorflare(0, "bridge", "hello")
  BY <1>6 DEF init_sensorflare
<1>7. CASE Hello
  BY <1>7 DEF Hello
<1>8. CASE Top
  BY <1>8 DEF Top
<1>9. CASE PollUsb
  BY <1>9 DEF PollUsb
<1>10. CASE Events
  BY <1>10 DEF Events, HandleEvents, Failed
<1>11. CASE Work
  BY <1>11 DEF Work, write_usb
<1>12. CASE CancelOut
  BY <1>12 DEF CancelOut
<1>13. CASE CancelIn
  BY <1>13 DEF CancelIn
<1>14. CASE Deinit
  BY <1>14 DEF Deinit
<1>15. CASE Out
  BY <1>15 DEF Out
<1>16. CASE DrainLoop(0, "initDrain", "bridge")
  BY <1>16 DEF DrainLoop, HandleEvents, Failed
<1>17. CASE DrainLoop(0, "workDrain", "top")
  BY <1>17 DEF DrainLoop, HandleEvents, Failed
<1>18. CASE DrainLoop(0, "drain", "deinit")
  BY <1>18 DEF DrainLoop, HandleEvents, Failed
<1>19. CASE CbReturn(0)
  BY <1>19 DEF CbReturn, DecodeWrites
<1>20. CASE \E t \in Receivers : receiver(t)
  <2> SUFFICES ASSUME NEW t \in Receivers, receiver(t) PROVE Places'
    BY <1>20
  <2>1. CASE Start(t)
    BY <2>1 DEF Start
  <2>2. CASE Consume(t)
    BY <2>2 DEF Consume
  <2>3. CASE ConsumeLost(t)
    BY <2>3 DEF ConsumeLost
  <2>4. CASE Run(t)
    BY <2>4 DEF Run, write_usb
  <2>5. CASE Close(t)
    BY <2>5 DEF Close
  <2>6. CASE init_sensorflare(t, "reconnect", "gone")
    BY <2>6 DEF init_sensorflare
  <2>7. CASE DrainLoop(t, "runDrain", "consume")
    BY <2>7 DEF DrainLoop, HandleEvents, Failed
  <2>8. CASE CbReturn(t)
    BY <2>8 DEF CbReturn, DecodeWrites
  <2> QED
    BY <2>1, <2>2, <2>3, <2>4, <2>5, <2>6, <2>7, <2>8 DEF receiver
<1>21. CASE \E t \in Receivers : ConsumeOther(t) \/ DrainError(t, "runDrain", "consume")
  <2> SUFFICES ASSUME NEW t \in Receivers,
                      ConsumeOther(t) \/ DrainError(t, "runDrain", "consume")
               PROVE  Places'
    BY <1>21
  <2>1. CASE ConsumeOther(t)
    BY <2>1 DEF ConsumeOther
  <2>2. CASE DrainError(t, "runDrain", "consume")
    BY <2>2 DEF DrainError
  <2> QED
    BY <2>1, <2>2
<1>22. CASE \E t \in Threads : PublishFails(t)
  BY <1>22 DEF PublishFails
<1>23. CASE InOk
  BY <1>23 DEF InOk
<1>24. CASE InFails
  BY <1>24 DEF InFails
<1>25. CASE Unplug
  BY <1>25 DEF Unplug
<1>26. CASE Publish
  BY <1>26 DEF Publish
<1>27. CASE Deliver
  BY <1>27 DEF Deliver
<1>28. CASE Lose
  BY <1>28 DEF Lose
<1>29. CASE PollOther
  BY <1>29 DEF PollOther
<1>30. CASE PollTimeout
  BY <1>30 DEF PollTimeout
<1>31. CASE sighandler
  BY <1>31 DEF sighandler
<1>32. CASE DrainError(0, "initDrain", "bridge")
  BY <1>32 DEF DrainError
<1>33. CASE DrainError(0, "workDrain", "top")
  BY <1>33 DEF DrainError
<1>34. CASE DrainError(0, "drain", "deinit")
  BY <1>34 DEF DrainError
<1>35. CASE UNCHANGED vars
  BY <1>35 DEF vars
<1> QED
  BY <1>1, <1>2, <1>3, <1>4, <1>5, <1>6, <1>7, <1>8, <1>9, <1>10, <1>11,
     <1>12, <1>13, <1>14, <1>15, <1>16, <1>17, <1>18, <1>19, <1>20, <1>21, <1>22,
     <1>23, <1>24, <1>25, <1>26, <1>27, <1>28, <1>29, <1>30, <1>31, <1>32, <1>33,
     <1>34, <1>35
     DEF Next, Mydaemon, Environment

\* Every callback that leaves the IN transfer idle sets Do_exit.
LEMMA HearsStep ==
  ASSUME Places, Hears, [Next]_vars
  PROVE  Hears'
<1> USE ThreadFacts DEF At, Goto, Exit, Running, usbVars, brokerVars,
           Places, MainPlaces, Loop, LivePlaces, ReceiverPlaces, Hears
<1>1. CASE Find
  BY <1>1 DEF Find
<1>2. CASE Endpoints
  BY <1>2 DEF Endpoints
<1>3. CASE alloc_transfers
  BY <1>3 DEF alloc_transfers
<1>4. CASE start_transfers
  BY <1>4 DEF start_transfers
<1>5. CASE initcm1Xa
  BY <1>5 DEF initcm1Xa, write_usb
<1>6. CASE init_sensorflare(0, "bridge", "hello")
  BY <1>6 DEF init_sensorflare
<1>7. CASE Hello
  BY <1>7 DEF Hello
<1>8. CASE Top
  BY <1>8 DEF Top
<1>9. CASE PollUsb
  BY <1>9 DEF PollUsb
<1>10. CASE Events
  BY <1>10 DEF Events, HandleEvents, Failed
<1>11. CASE Work
  BY <1>11 DEF Work, write_usb
<1>12. CASE CancelOut
  BY <1>12 DEF CancelOut
<1>13. CASE CancelIn
  BY <1>13 DEF CancelIn
<1>14. CASE Deinit
  BY <1>14 DEF Deinit
<1>15. CASE Out
  BY <1>15 DEF Out
<1>16. CASE DrainLoop(0, "initDrain", "bridge")
  BY <1>16 DEF DrainLoop, HandleEvents, Failed
<1>17. CASE DrainLoop(0, "workDrain", "top")
  BY <1>17 DEF DrainLoop, HandleEvents, Failed
<1>18. CASE DrainLoop(0, "drain", "deinit")
  BY <1>18 DEF DrainLoop, HandleEvents, Failed
<1>19. CASE CbReturn(0)
  BY <1>19 DEF CbReturn, DecodeWrites
<1>20. CASE \E t \in Receivers : receiver(t)
  <2> SUFFICES ASSUME NEW t \in Receivers, receiver(t) PROVE Hears'
    BY <1>20
  <2>1. CASE Start(t)
    BY <2>1 DEF Start
  <2>2. CASE Consume(t)
    BY <2>2 DEF Consume
  <2>3. CASE ConsumeLost(t)
    BY <2>3 DEF ConsumeLost
  <2>4. CASE Run(t)
    BY <2>4 DEF Run, write_usb
  <2>5. CASE Close(t)
    BY <2>5 DEF Close
  <2>6. CASE init_sensorflare(t, "reconnect", "gone")
    BY <2>6 DEF init_sensorflare
  <2>7. CASE DrainLoop(t, "runDrain", "consume")
    BY <2>7 DEF DrainLoop, HandleEvents, Failed
  <2>8. CASE CbReturn(t)
    BY <2>8 DEF CbReturn, DecodeWrites
  <2> QED
    BY <2>1, <2>2, <2>3, <2>4, <2>5, <2>6, <2>7, <2>8 DEF receiver
<1>21. CASE \E t \in Receivers : ConsumeOther(t) \/ DrainError(t, "runDrain", "consume")
  <2> SUFFICES ASSUME NEW t \in Receivers,
                      ConsumeOther(t) \/ DrainError(t, "runDrain", "consume")
               PROVE  Hears'
    BY <1>21
  <2>1. CASE ConsumeOther(t)
    BY <2>1 DEF ConsumeOther
  <2>2. CASE DrainError(t, "runDrain", "consume")
    BY <2>2 DEF DrainError
  <2> QED
    BY <2>1, <2>2
<1>22. CASE \E t \in Threads : PublishFails(t)
  BY <1>22 DEF PublishFails
<1>23. CASE InOk
  BY <1>23 DEF InOk
<1>24. CASE InFails
  BY <1>24 DEF InFails
<1>25. CASE Unplug
  BY <1>25 DEF Unplug
<1>26. CASE Publish
  BY <1>26 DEF Publish
<1>27. CASE Deliver
  BY <1>27 DEF Deliver
<1>28. CASE Lose
  BY <1>28 DEF Lose
<1>29. CASE PollOther
  BY <1>29 DEF PollOther
<1>30. CASE PollTimeout
  BY <1>30 DEF PollTimeout
<1>31. CASE sighandler
  BY <1>31 DEF sighandler
<1>32. CASE DrainError(0, "initDrain", "bridge")
  BY <1>32 DEF DrainError
<1>33. CASE DrainError(0, "workDrain", "top")
  BY <1>33 DEF DrainError
<1>34. CASE DrainError(0, "drain", "deinit")
  BY <1>34 DEF DrainError
<1>35. CASE UNCHANGED vars
  BY <1>35 DEF vars
<1> QED
  BY <1>1, <1>2, <1>3, <1>4, <1>5, <1>6, <1>7, <1>8, <1>9, <1>10, <1>11,
     <1>12, <1>13, <1>14, <1>15, <1>16, <1>17, <1>18, <1>19, <1>20, <1>21, <1>22,
     <1>23, <1>24, <1>25, <1>26, <1>27, <1>28, <1>29, <1>30, <1>31, <1>32, <1>33,
     <1>34, <1>35
     DEF Next, Mydaemon, Environment

\* A receiver connects again only after it has closed, and ends then.
LEMMA LastReceiverStep ==
  ASSUME Places, LastReceiver, [Next]_vars
  PROVE  LastReceiver'
<1> USE ThreadFacts DEF At, Goto, Exit, Running, usbVars, brokerVars,
           Places, MainPlaces, Loop, LivePlaces, ReceiverPlaces, LastReceiver
<1>1. CASE Find
  BY <1>1 DEF Find
<1>2. CASE Endpoints
  BY <1>2 DEF Endpoints
<1>3. CASE alloc_transfers
  BY <1>3 DEF alloc_transfers
<1>4. CASE start_transfers
  BY <1>4 DEF start_transfers
<1>5. CASE initcm1Xa
  BY <1>5 DEF initcm1Xa, write_usb
<1>6. CASE init_sensorflare(0, "bridge", "hello")
  <2>1. conn = 0 /\ (conn < MAXCONN => 1 \in Receivers)
    BY <1>6, BoundAssumption DEF init_sensorflare, Receivers
  <2>2. CASE UNCHANGED <<conn, conns>>
    BY <1>6, <2>2 DEF init_sensorflare
  <2>3. CASE /\ conn < MAXCONN /\ conn' = 1
             /\ conns' = [conns EXCEPT ![1] = "open"]
             /\ pc' = [pc EXCEPT ![0] = "hello", ![1] = "start"]
    <3>1. conn' \in 0 .. MAXCONN /\ pc'[0] = "hello" /\ pc'[1] = "start"
      BY <2>1, <2>3, BoundAssumption
    <3>2. \A t \in Receivers : 1 < t => pc'[t] = "none"
      BY <2>1, <2>3
    <3>3. \A t \in Receivers : t # 1 => pc'[t] = "none"
      BY <2>1, <2>3
    <3> QED
      BY <2>1, <2>3, <3>1, <3>2, <3>3
  <2> QED
    BY <1>6, <2>1, <2>2, <2>3 DEF init_sensorflare
<1>7. CASE Hello
  BY <1>7 DEF Hello
<1>8. CASE Top
  BY <1>8 DEF Top
<1>9. CASE PollUsb
  BY <1>9 DEF PollUsb
<1>10. CASE Events
  BY <1>10 DEF Events, HandleEvents, Failed
<1>11. CASE Work
  BY <1>11 DEF Work, write_usb
<1>12. CASE CancelOut
  BY <1>12 DEF CancelOut
<1>13. CASE CancelIn
  BY <1>13 DEF CancelIn
<1>14. CASE Deinit
  BY <1>14 DEF Deinit
<1>15. CASE Out
  BY <1>15 DEF Out
<1>16. CASE DrainLoop(0, "initDrain", "bridge")
  BY <1>16 DEF DrainLoop, HandleEvents, Failed
<1>17. CASE DrainLoop(0, "workDrain", "top")
  BY <1>17 DEF DrainLoop, HandleEvents, Failed
<1>18. CASE DrainLoop(0, "drain", "deinit")
  BY <1>18 DEF DrainLoop, HandleEvents, Failed
<1>19. CASE CbReturn(0)
  BY <1>19 DEF CbReturn, DecodeWrites
<1>20. CASE \E t \in Receivers : receiver(t)
  <2> SUFFICES ASSUME NEW t \in Receivers, receiver(t) PROVE LastReceiver'
    BY <1>20
  <2>1. CASE Start(t)
    BY <2>1 DEF Start
  <2>2. CASE Consume(t)
    BY <2>2 DEF Consume
  <2>3. CASE ConsumeLost(t)
    BY <2>3 DEF ConsumeLost
  <2>4. CASE Run(t)
    BY <2>4 DEF Run, write_usb
  <2>5. CASE Close(t)
    BY <2>5 DEF Close
  <2>6. CASE init_sensorflare(t, "reconnect", "gone")
    <3>1. conn = t /\ (conn < MAXCONN => t + 1 \in Receivers)
      BY <2>6, BoundAssumption DEF init_sensorflare, Receivers
    <3>2. CASE UNCHANGED <<conn, conns>>
      BY <2>6, <3>2 DEF init_sensorflare
    <3>3. CASE /\ conn < MAXCONN /\ conn' = conn + 1
               /\ conns' = [conns EXCEPT ![conn + 1] = "open"]
               /\ pc' = [pc EXCEPT ![t] = "gone", ![conn + 1] = "start"]
      <4>1. pc[0] \notin {"find", "endpoints", "alloc", "start", "init", "initDrain",
                         "bridge"}
        BY <3>1
      <4>2. \A s \in Receivers : s # t /\ s # t + 1 => pc'[s] = pc[s]
        BY <3>1, <3>3
      <4>3. \A s \in Receivers : s # t => pc[s] \notin LivePlaces /\ pc[s] # "reconnect"
        BY <3>1
      <4>4. pc'[0] = pc[0] /\ pc'[t] = "gone" /\ pc'[t + 1] = "start"
        BY <3>1, <3>3
      <4>5. conn' \in 0 .. MAXCONN /\ conns'[t + 1] = "open"
        BY <3>1, <3>3, BoundAssumption
      <4>6. \A s \in Receivers : t + 1 < s => pc'[s] = "none"
        BY <3>1, <3>3, <4>2
      <4> QED
        BY <3>1, <3>3, <4>1, <4>2, <4>3, <4>4, <4>5, <4>6
    <3> QED
      BY <2>6, <3>1, <3>2, <3>3 DEF init_sensorflare
  <2>7. CASE DrainLoop(t, "runDrain", "consume")
    BY <2>7 DEF DrainLoop, HandleEvents, Failed
  <2>8. CASE CbReturn(t)
    BY <2>8 DEF CbReturn, DecodeWrites
  <2> QED
    BY <2>1, <2>2, <2>3, <2>4, <2>5, <2>6, <2>7, <2>8 DEF receiver
<1>21. CASE \E t \in Receivers : ConsumeOther(t) \/ DrainError(t, "runDrain", "consume")
  <2> SUFFICES ASSUME NEW t \in Receivers,
                      ConsumeOther(t) \/ DrainError(t, "runDrain", "consume")
               PROVE  LastReceiver'
    BY <1>21
  <2>1. CASE ConsumeOther(t)
    BY <2>1 DEF ConsumeOther
  <2>2. CASE DrainError(t, "runDrain", "consume")
    BY <2>2 DEF DrainError
  <2> QED
    BY <2>1, <2>2
<1>22. CASE \E t \in Threads : PublishFails(t)
  BY <1>22 DEF PublishFails
<1>23. CASE InOk
  BY <1>23 DEF InOk
<1>24. CASE InFails
  BY <1>24 DEF InFails
<1>25. CASE Unplug
  BY <1>25 DEF Unplug
<1>26. CASE Publish
  BY <1>26 DEF Publish
<1>27. CASE Deliver
  BY <1>27 DEF Deliver
<1>28. CASE Lose
  BY <1>28 DEF Lose
<1>29. CASE PollOther
  BY <1>29 DEF PollOther
<1>30. CASE PollTimeout
  BY <1>30 DEF PollTimeout
<1>31. CASE sighandler
  BY <1>31 DEF sighandler
<1>32. CASE DrainError(0, "initDrain", "bridge")
  BY <1>32 DEF DrainError
<1>33. CASE DrainError(0, "workDrain", "top")
  BY <1>33 DEF DrainError
<1>34. CASE DrainError(0, "drain", "deinit")
  BY <1>34 DEF DrainError
<1>35. CASE UNCHANGED vars
  BY <1>35 DEF vars
<1> QED
  BY <1>1, <1>2, <1>3, <1>4, <1>5, <1>6, <1>7, <1>8, <1>9, <1>10, <1>11,
     <1>12, <1>13, <1>14, <1>15, <1>16, <1>17, <1>18, <1>19, <1>20, <1>21, <1>22,
     <1>23, <1>24, <1>25, <1>26, <1>27, <1>28, <1>29, <1>30, <1>31, <1>32, <1>33,
     <1>34, <1>35
     DEF Next, Mydaemon, Environment

\* Events handled by mydaemon's own thread while it has not freed anything: a
\* failed transfer is freed and its pointer NULL, at once.
LEMMA OwnedEvents ==
  ASSUME Places, OwnedAlone, HandleEvents(0), Running, cb # 0, ~Ended,
         pc' = pc, pc[0] \notin {"find", "endpoints", "alloc", "start"}
  PROVE  OwnedAlone'
<1> USE DEF OwnedAlone, Owned, Ended, NoThread
<1>1. /\ shared' = shared /\ misuse' = misuse /\ Devh' = Devh
      /\ IntrOut' \in {IntrOut, "idle"}
  BY DEF HandleEvents
<1>2. CASE Failed(0) /\ cb = NoThread
  BY <1>1, <1>2 DEF Failed
<1>3. CASE IntrIn = "ok" /\ IntrIn' = "cb" /\ cb' = 0 /\ UNCHANGED <<Do_exit, IntrInSet>>
  BY <1>1, <1>3
<1>4. CASE UNCHANGED <<cb, Do_exit, IntrIn, IntrInSet>>
  BY <1>1, <1>4
<1>5. CASE cb = NoThread /\ IntrIn \in {"ok", "failed"}
  <2>1. \/ Failed(0)
        \/ IntrIn = "ok" /\ IntrIn' = "cb" /\ cb' = 0 /\ UNCHANGED <<Do_exit, IntrInSet>>
    BY <1>5 DEF HandleEvents
  <2> QED
    BY <1>2, <1>3, <1>5, <2>1
<1>6. CASE ~(cb = NoThread /\ IntrIn \in {"ok", "failed"})
  BY <1>4, <1>6 DEF HandleEvents
<1> QED
  BY <1>5, <1>6

\* Whatever a receiver does to the transfers, shared is set.
LEMMA OwnedStep ==
  ASSUME Places, LastReceiver, OwnedAlone, [Next]_vars
  PROVE  OwnedAlone'
<1> USE ThreadFacts DEF At, Goto, Exit, Running, usbVars, brokerVars,
           Places, MainPlaces, Loop, LivePlaces, ReceiverPlaces, OwnedAlone, Owned, Ended,
           NoThread
<1>0. conn + 1 # 0
  BY BoundAssumption DEF LastReceiver
<1>1. CASE Find
  BY <1>1 DEF Find
<1>2. CASE Endpoints
  BY <1>2 DEF Endpoints
<1>3. CASE alloc_transfers
  <2>1. ~Ended /\ pc'[0] \in {"deinit", "start"}
    BY <1>3 DEF alloc_transfers
  <2>2. CASE UNCHANGED <<IntrIn, IntrInSet, IntrOut>>
    BY <1>3, <2>1, <2>2 DEF alloc_transfers
  <2>3. CASE IntrIn' = "idle" /\ IntrInSet' = TRUE /\ IntrOut' \in {IntrOut, "idle"}
    BY <1>3, <2>1, <2>3 DEF alloc_transfers
  <2> QED
    BY <1>3, <2>2, <2>3 DEF alloc_transfers
<1>4. CASE start_transfers
  <2>1. ~Ended /\ pc'[0] \in {"deinit", "init"} /\ IntrIn' \in {IntrIn, "flying"}
    BY <1>4 DEF start_transfers
  <2> QED
    BY <1>4, <2>1 DEF start_transfers
<1>5. CASE initcm1Xa
  BY <1>5 DEF initcm1Xa, write_usb
<1>6. CASE init_sensorflare(0, "bridge", "hello")
  BY <1>0, <1>6 DEF init_sensorflare
<1>7. CASE Hello
  BY <1>7 DEF Hello
<1>8. CASE Top
  BY <1>8 DEF Top
<1>9. CASE PollUsb
  BY <1>9 DEF PollUsb
<1>10. CASE Events
  BY <1>10 DEF Events, HandleEvents, Failed
<1>11. CASE Work
  BY <1>11 DEF Work, write_usb
<1>12. CASE CancelOut
  BY <1>12 DEF CancelOut
<1>13. CASE CancelIn
  BY <1>13 DEF CancelIn
<1>14. CASE Deinit
  BY <1>14 DEF Deinit
<1>15. CASE Out
  BY <1>15 DEF Out
<1>16. CASE DrainLoop(0, "initDrain", "bridge")
  <2>1. CASE HandleEvents(0) /\ UNCHANGED pc
    BY <1>16, <2>1, OwnedEvents DEF DrainLoop
  <2>2. CASE Goto(0, "bridge") /\ UNCHANGED usbVars
    BY <1>16, <2>2 DEF DrainLoop
  <2> QED
    BY <1>16, <2>1, <2>2 DEF DrainLoop
<1>17. CASE DrainLoop(0, "workDrain", "top")
  <2>1. CASE HandleEvents(0) /\ UNCHANGED pc
    BY <1>17, <2>1, OwnedEvents DEF DrainLoop
  <2>2. CASE Goto(0, "top") /\ UNCHANGED usbVars
    BY <1>17, <2>2 DEF DrainLoop
  <2> QED
    BY <1>17, <2>1, <2>2 DEF DrainLoop
<1>18. CASE DrainLoop(0, "drain", "deinit")
  <2>1. CASE HandleEvents(0) /\ UNCHANGED pc
    BY <1>18, <2>1, OwnedEvents DEF DrainLoop
  <2>2. CASE Goto(0, "deinit") /\ UNCHANGED usbVars
    BY <1>18, <2>2 DEF DrainLoop
  <2> QED
    BY <1>18, <2>1, <2>2 DEF DrainLoop
<1>19. CASE CbReturn(0)
  BY <1>19 DEF CbReturn, DecodeWrites
<1>20. CASE \E t \in Receivers : receiver(t)
  <2> SUFFICES ASSUME NEW t \in Receivers, receiver(t) PROVE OwnedAlone'
    BY <1>20
  <2>1. CASE Start(t)
    BY <2>1 DEF Start
  <2>2. CASE Consume(t)
    BY <2>2 DEF Consume
  <2>3. CASE ConsumeLost(t)
    BY <2>3 DEF ConsumeLost
  <2>4. CASE Run(t)
    <3>1. CASE Goto(t, "consume") /\ UNCHANGED usbVars
      BY <2>4, <3>1 DEF Run
    <3>2. CASE write_usb(t, "consume", "runDrain")
      <4>1. shared' = TRUE /\ misuse' \in BOOLEAN /\ IntrInSet' = IntrInSet
        BY <3>2 DEF write_usb
      <4> QED
        BY <4>1
    <3> QED
      BY <2>4, <3>1, <3>2 DEF Run
  <2>5. CASE Close(t)
    BY <2>5 DEF Close
  <2>6. CASE init_sensorflare(t, "reconnect", "gone")
    <3>1. CASE pc'[0] = pc[0]
      BY <2>6, <3>1 DEF init_sensorflare
    <3>2. CASE pc'[0] = "ended"
      BY <2>6, <3>2 DEF init_sensorflare
    <3> QED
      BY <1>0, <2>6, <3>1, <3>2 DEF init_sensorflare
  <2>7. CASE DrainLoop(t, "runDrain", "consume")
    <3>1. CASE HandleEvents(t)
      <4>1. shared' = TRUE /\ misuse' = misuse /\ IntrInSet' \in BOOLEAN
        BY <3>1 DEF HandleEvents, Failed
      <4> QED
        BY <4>1
    <3>2. CASE Goto(t, "consume") /\ UNCHANGED usbVars
      BY <2>7, <3>2 DEF DrainLoop
    <3> QED
      BY <2>7, <3>1, <3>2 DEF DrainLoop
  <2>8. CASE CbReturn(t)
    BY <2>8 DEF CbReturn, DecodeWrites
  <2> QED
    BY <2>1, <2>2, <2>3, <2>4, <2>5, <2>6, <2>7, <2>8 DEF receiver
<1>21. CASE \E t \in Receivers : ConsumeOther(t) \/ DrainError(t, "runDrain", "consume")
  <2> SUFFICES ASSUME NEW t \in Receivers,
                      ConsumeOther(t) \/ DrainError(t, "runDrain", "consume")
               PROVE  OwnedAlone'
    BY <1>21
  <2>1. CASE ConsumeOther(t)
    BY <2>1 DEF ConsumeOther
  <2>2. CASE DrainError(t, "runDrain", "consume")
    BY <2>2 DEF DrainError
  <2> QED
    BY <2>1, <2>2
<1>22. CASE \E t \in Threads : PublishFails(t)
  BY <1>22 DEF PublishFails
<1>23. CASE InOk
  BY <1>23 DEF InOk
<1>24. CASE InFails
  BY <1>24 DEF InFails
<1>25. CASE Unplug
  BY <1>25 DEF Unplug
<1>26. CASE Publish
  BY <1>26 DEF Publish
<1>27. CASE Deliver
  BY <1>27 DEF Deliver
<1>28. CASE Lose
  BY <1>28 DEF Lose
<1>29. CASE PollOther
  BY <1>29 DEF PollOther
<1>30. CASE PollTimeout
  BY <1>30 DEF PollTimeout
<1>31. CASE sighandler
  BY <1>31 DEF sighandler
<1>32. CASE DrainError(0, "initDrain", "bridge")
  BY <1>32 DEF DrainError
<1>33. CASE DrainError(0, "workDrain", "top")
  BY <1>33 DEF DrainError
<1>34. CASE DrainError(0, "drain", "deinit")
  BY <1>34 DEF DrainError
<1>35. CASE UNCHANGED vars
  BY <1>35 DEF vars
<1> QED
  BY <1>1, <1>2, <1>3, <1>4, <1>5, <1>6, <1>7, <1>8, <1>9, <1>10, <1>11,
     <1>12, <1>13, <1>14, <1>15, <1>16, <1>17, <1>18, <1>19, <1>20, <1>21, <1>22,
     <1>23, <1>24, <1>25, <1>26, <1>27, <1>28, <1>29, <1>30, <1>31, <1>32, <1>33,
     <1>34, <1>35
     DEF Next, Mydaemon, Environment

-----------------------------------------------------------------------------
(***************************************************************************)
(* The messages.                                                           *)
(***************************************************************************)

LEMMA MessagesAppend ==
  ASSUME NEW s \in Seq(Nat), NEW m \in Nat
  PROVE  Append(s, m) \in Seq(Nat) /\ Messages(Append(s, m)) = Messages(s) \cup {m}
<1> DEFINE r == Append(s, m)
<1>1. /\ r \in Seq(Nat) /\ Len(r) = Len(s) + 1 /\ r[Len(s) + 1] = m
      /\ \A i \in 1 .. Len(s) : r[i] = s[i]
      /\ Len(s) \in Nat
  BY AppendProperties
<1> HIDE DEF r
<1>2. 1 .. Len(r) = (1 .. Len(s)) \cup {Len(s) + 1}
  BY <1>1
<1> QED
  BY <1>1, <1>2 DEF Messages, r

LEMMA MessagesHead ==
  ASSUME NEW s \in Seq(Nat), s # <<>>
  PROVE  /\ Head(s) \in Nat /\ Tail(s) \in Seq(Nat)
         /\ Messages(s) = {Head(s)} \cup Messages(Tail(s))
<1> DEFINE r == Tail(s)
<1>1. /\ Head(s) \in Nat /\ Head(s) = s[1]
      /\ r \in Seq(Nat) /\ Len(r) = Len(s) - 1
      /\ \A i \in 1 .. Len(r) : r[i] = s[i + 1]
      /\ Len(s) \in Nat \ {0}
  BY HeadTailProperties
<1> HIDE DEF r
<1>2. ASSUME NEW i \in 1 .. Len(s) PROVE s[i] \in {Head(s)} \cup Messages(r)
  <2>1. i = 1 \/ (i - 1 \in 1 .. Len(r) /\ (i - 1) + 1 = i)
    BY <1>1
  <2> QED
    BY <1>1, <2>1 DEF Messages
<1>3. ASSUME NEW i \in 1 .. Len(r) PROVE r[i] \in Messages(s)
  <2>1. i + 1 \in 1 .. Len(s)
    BY <1>1
  <2> QED
    BY <1>1, <2>1 DEF Messages
<1>4. 1 \in 1 .. Len(s)
  BY <1>1
<1> QED
  BY <1>1, <1>2, <1>3, <1>4 DEF Messages, r

LEMMA MessagesConcat ==
  ASSUME NEW s \in Seq(Nat), NEW t \in Seq(Nat)
  PROVE  s \o t \in Seq(Nat) /\ Messages(s \o t) = Messages(s) \cup Messages(t)
<1> DEFINE r == s \o t
<1>1. /\ r \in Seq(Nat) /\ Len(r) = Len(s) + Len(t)
      /\ \A i \in 1 .. Len(s) + Len(t) : r[i] = IF i <= Len(s) THEN s[i] ELSE t[i - Len(s)]
      /\ Len(s) \in Nat /\ Len(t) \in Nat
  BY ConcatProperties
<1> HIDE DEF r
<1>2. ASSUME NEW i \in 1 .. Len(r) PROVE r[i] \in Messages(s) \cup Messages(t)
  <2>1. i \in 1 .. Len(s) \/ i - Len(s) \in 1 .. Len(t)
    BY <1>1
  <2> QED
    BY <1>1, <2>1 DEF Messages
<1>3. ASSUME NEW i \in 1 .. Len(s) PROVE s[i] \in Messages(r)
  <2>1. i \in 1 .. Len(r) /\ r[i] = s[i]
    BY <1>1
  <2> QED
    BY <2>1 DEF Messages
<1>4. ASSUME NEW i \in 1 .. Len(t) PROVE t[i] \in Messages(r)
  <2> DEFINE j == Len(s) + i
  <2>0. j \in 1 .. Len(s) + Len(t) /\ ~(j <= Len(s)) /\ j - Len(s) = i
    BY <1>1
  <2> HIDE DEF j
  <2>1. j \in 1 .. Len(r) /\ r[j] = t[i]
    BY <1>1, <2>0
  <2> QED
    BY <2>1 DEF Messages
<1> QED
  BY <1>1, <1>2, <1>3, <1>4 DEF Messages, r

LEMMA MessagesNone == Messages(<<>>) = {} /\ <<>> \in Seq(Nat)
BY DEF Messages

\* The broker takes back what it has delivered, which is all that is in the
\* buffers.
LEMMA TakenBack ==
  ASSUME Recoverable, queue' = held \o queue, held' = <<>>, inbox' = <<>>,
         UNCHANGED <<published, executed>>
  PROVE  Recoverable'
<1>1. /\ queue' \in Seq(Nat) /\ Messages(queue') = Messages(held) \cup Messages(queue)
      /\ Messages(held') = {} /\ Messages(inbox') = {}
  BY MessagesConcat, MessagesNone DEF Recoverable
<1> QED
  BY <1>1, MessagesNone DEF Recoverable, Kept

LEMMA RecoverableStep ==
  ASSUME Recoverable, [Next]_vars
  PROVE  Recoverable'
<1>1. CASE Publish
  <2>1. /\ published' = published + 1 /\ published' \in Nat
        /\ queue' = Append(queue, published')
        /\ UNCHANGED <<held, inbox, executed>>
    BY <1>1 DEF Publish, Recoverable
  <2>2. queue' \in Seq(Nat) /\ Messages(queue') = Messages(queue) \cup {published'}
    BY <2>1, MessagesAppend DEF Recoverable
  <2>3. \A m \in 1 .. published' : m \in 1 .. published \/ m = published'
    BY <2>1 DEF Recoverable
  <2> QED
    BY <2>1, <2>2, <2>3 DEF Recoverable, Kept
<1>2. CASE Deliver
  <2>1. /\ queue # <<>> /\ queue' = Tail(queue)
        /\ inbox' = Append(inbox, Head(queue)) /\ held' = Append(held, Head(queue))
        /\ UNCHANGED <<published, executed>>
    BY <1>2 DEF Deliver, NoAck
  <2>2. /\ Head(queue) \in Nat /\ queue' \in Seq(Nat)
        /\ Messages(queue) = {Head(queue)} \cup Messages(queue')
    BY <2>1, MessagesHead DEF Recoverable
  <2>3. /\ inbox' \in Seq(Nat) /\ Messages(inbox') = Messages(inbox) \cup {Head(queue)}
        /\ held' \in Seq(Nat) /\ Messages(held') = Messages(held) \cup {Head(queue)}
    BY <2>1, <2>2, MessagesAppend DEF Recoverable
  <2> QED
    BY <2>1, <2>2, <2>3 DEF Recoverable, Kept
<1>3. CASE Lose
  <2>1. CASE UNCHANGED <<queue, held, inbox, published, executed>>
    BY <2>1 DEF Recoverable, Kept
  <2> QED
    BY <1>3, <2>1, TakenBack DEF Lose
<1>4. ASSUME NEW t \in Receivers, Consume(t) PROVE Recoverable'
  <2>1. /\ inbox # <<>> /\ inbox' = Tail(inbox) /\ executed' = executed \cup {Head(inbox)}
        /\ UNCHANGED <<queue, held, published>>
    BY <1>4 DEF Consume
  <2>2. inbox' \in Seq(Nat) /\ Messages(inbox) = {Head(inbox)} \cup Messages(inbox')
    BY <2>1, MessagesHead DEF Recoverable
  <2> QED
    BY <2>1, <2>2 DEF Recoverable, Kept
<1>5. ASSUME NEW t \in Receivers, Close(t) PROVE Recoverable'
  <2>1. CASE UNCHANGED <<queue, held, inbox>>
    BY <1>5, <2>1 DEF Close, Recoverable, Kept
  <2>2. CASE queue' = held \o queue /\ held' = <<>> /\ inbox' = <<>>
    BY <1>5, <2>2, TakenBack DEF Close
  <2> QED
    BY <1>5, <2>1, <2>2 DEF Close
<1> DEFINE Untouched == UNCHANGED <<queue, held, inbox, published, executed>>
<1>6. CASE Mydaemon
  <2> USE DEF brokerVars, HandleEvents, write_usb, DrainLoop, init_sensorflare
  <2>1. Untouched
    BY <1>6 DEF Mydaemon, Find, Endpoints, alloc_transfers, start_transfers, initcm1Xa,
         Hello, Top, PollUsb, Events, Work, CancelOut, CancelIn, Deinit, Out, CbReturn
  <2> QED
    BY <2>1 DEF Recoverable, Kept
<1>7. ASSUME NEW t \in Receivers, receiver(t) PROVE Recoverable'
  <2>1. CASE Consume(t) \/ Close(t)
    BY <1>4, <1>5, <2>1
  <2>2. CASE \/ Start(t) \/ ConsumeLost(t) \/ Run(t)
             \/ init_sensorflare(t, "reconnect", "gone")
             \/ DrainLoop(t, "runDrain", "consume") \/ CbReturn(t)
    <3>1. Untouched
      BY <2>2 DEF Start, ConsumeLost, Run, init_sensorflare, DrainLoop, CbReturn,
           brokerVars, HandleEvents, write_usb
    <3> QED
      BY <3>1 DEF Recoverable, Kept
  <2> QED
    BY <1>7, <2>1, <2>2 DEF receiver
<1>8. CASE Environment
  <2>1. CASE Publish \/ Deliver \/ Lose
    BY <1>1, <1>2, <1>3, <2>1
  <2>2. CASE ~(Publish \/ Deliver \/ Lose)
    <3>1. Untouched
      BY <1>8, <2>2 DEF Environment, InOk, InFails, Unplug, PollOther, PollTimeout,
           sighandler, PublishFails, ConsumeOther, DrainError, brokerVars
    <3> QED
      BY <3>1 DEF Recoverable, Kept
  <2> QED
    BY <2>1, <2>2
<1>9. CASE UNCHANGED vars
  BY <1>9 DEF vars, brokerVars, Recoverable, Kept
<1> QED
  BY <1>6, <1>7, <1>8, <1>9 DEF Next

-----------------------------------------------------------------------------
(***************************************************************************)
(* Theorems                                                                *)
(***************************************************************************)

LEMMA Inductive ==
  Spec => [](Places /\ Hears /\ LastReceiver /\ OwnedAlone)
<1>1. ASSUME Init
      PROVE  Places /\ Hears /\ LastReceiver /\ OwnedAlone
  <2>1. pc[0] = "find" /\ \A t \in Receivers : pc[t] = "none"
    BY <1>1, ThreadFacts DEF Init
  <2>2. Places
    BY <1>1, ThreadFacts DEF Init, Places, MainPlaces, ReceiverPlaces
  <2>3. Hears
    BY <2>1 DEF Hears, Loop
  <2>4. LastReceiver
    BY <1>1, <2>1, BoundAssumption DEF Init, LastReceiver, LivePlaces
  <2>5. OwnedAlone
    <3>1. shared = FALSE /\ misuse = FALSE /\ IntrInSet = FALSE
      BY <1>1 DEF Init
    <3>2. Owned
      BY <1>1, <2>1, <3>1 DEF Init, Owned, Ended, NoThread
    <3> QED
      BY <3>1, <3>2 DEF OwnedAlone
  <2> QED
    BY <2>2, <2>3, <2>4, <2>5
<1>2. /\ Places /\ Hears /\ LastReceiver /\ OwnedAlone
      /\ [Next]_vars
      => (Places /\ Hears /\ LastReceiver /\ OwnedAlone)'
  BY PlacesStep, HearsStep, LastReceiverStep, OwnedStep
<1> QED
  BY <1>1, <1>2, PTL DEF Spec

\* The loop of mydaemon never waits in poll without an IN transfer that can wake
\* it, unless it has been told to end (mochad.c, IntrIn_cb).
THEOREM NeverDeaf == Spec => []HearsController
<1>1. Hears => HearsController
  BY DEF Hears, HearsController, Loop
<1> QED
  BY <1>1, Inductive, PTL

\* As long as no receiver writes, no path through the start, the loop and the
\* end of mydaemon uses or frees a transfer that has been freed.
THEOREM NoDanglingTransfer == Spec => []TransfersOwned
<1>1. OwnedAlone => TransfersOwned
  BY DEF OwnedAlone, Owned, TransfersOwned
<1> QED
  BY <1>1, Inductive, PTL

\* However often the broker makes a receiver connect again (sensorflare.c), one
\* at a time consumes, from the connection that is open.
THEOREM OneAtATime == Spec => []OneReceiver
<1>1. LastReceiver => OneReceiver
  BY DEF LastReceiver, OneReceiver, LivePlaces
<1> QED
  BY <1>1, Inductive, PTL

\* Whatever connections come and go, and whenever they do, no command that was
\* published is dropped on its way to a receiver: what is lost with a connection
\* the broker still has, for it was told to wait for acknowledgements and the
\* receiver sends none (sensorflare.c, no_ack of amqp_basic_consume).  It is the
\* safety half of CommandsRun.
THEOREM NoneDropped == Spec => []Kept
<1>1. Init => Recoverable
  BY MessagesNone DEF Init, Recoverable, Kept
<1>2. Recoverable /\ [Next]_vars => Recoverable'
  BY RecoverableStep
<1>3. Recoverable => Kept
  BY DEF Recoverable
<1> QED
  BY <1>1, <1>2, <1>3, PTL DEF Spec

=============================================================================
