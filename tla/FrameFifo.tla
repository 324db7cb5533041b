------------------------------ MODULE FrameFifo ------------------------------
(***************************************************************************)
(* What x10_write promises to the code that calls it, without the ring,    *)
(* the USB transfer, the callbacks and the timer: frames are numbered in   *)
(* the order of the calls and wait in that order.  At most one is being    *)
(* sent.  A new frame is sent at once only if none waits, and refused only *)
(* if the queue is full.  What is being sent is lost only when another     *)
(* frame is handed over before the controller has taken it.                *)
(***************************************************************************)
EXTENDS Integers, Sequences

CONSTANT Capacity    \* how many frames can wait

VARIABLES
  count,      \* frames so far, which is also the number of the newest
  waiting,    \* those that wait, oldest first
  sending,    \* the one that is being sent, a set of at most one frame
  taken,      \* those the controller took
  refused,    \* those that found the queue full
  failed      \* those that were given up

vars == <<count, waiting, sending, taken, refused, failed>>

\* Frame f is handed over.  If that goes wrong f is given up, and so is the
\* one that is being sent unless the controller has just taken it.
Send(f) ==
  \/ /\ sending = {}
     /\ sending' = {f}
     /\ UNCHANGED <<taken, failed>>
  \/ \E justTaken \in SUBSET sending :
       /\ sending' = {}
       /\ taken' = taken \cup justTaken
       /\ failed' = failed \cup {f} \cup (sending \ justTaken)

WriteQueued ==
  /\ Len(waiting) < Capacity
  /\ count' = count + 1
  /\ waiting' = Append(waiting, count')
  /\ UNCHANGED <<sending, taken, refused, failed>>

WriteRefused ==
  /\ Len(waiting) = Capacity
  /\ count' = count + 1
  /\ refused' = refused \cup {count'}
  /\ UNCHANGED <<waiting, sending, taken, failed>>

WriteSent ==
  /\ waiting = <<>>
  /\ count' = count + 1
  /\ Send(count')
  /\ UNCHANGED <<waiting, refused>>

SendOldest ==
  /\ waiting # <<>>
  /\ waiting' = Tail(waiting)
  /\ Send(Head(waiting))
  /\ UNCHANGED <<count, refused>>

Take ==
  /\ sending # {}
  /\ sending' = {}
  /\ taken' = taken \cup sending
  /\ UNCHANGED <<count, waiting, refused, failed>>

Init ==
  /\ count = 0 /\ waiting = <<>> /\ sending = {}
  /\ taken = {} /\ refused = {} /\ failed = {}

Next == WriteQueued \/ WriteRefused \/ WriteSent \/ SendOldest \/ Take

Spec == Init /\ [][Next]_vars

=============================================================================
