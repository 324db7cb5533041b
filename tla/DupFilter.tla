----------------------------- MODULE DupFilter -----------------------------
(***************************************************************************)
(* dup_filter of decode.c.  A button of an RF remote sends its command     *)
(* many times; the filter lets the first copy through and drops the copies *)
(* that follow within DUP_TIME milliseconds.  It remembers commands in a   *)
(* table of DUP_MAX entries and reads the clock of the host.               *)
(*                                                                         *)
(* cm15a_decode_rf asks the filter about every valid RF command, received  *)
(* or sent; a command is a model value here (its bytes and their number).  *)
(***************************************************************************)
EXTENDS Integers, FiniteSets

CONSTANTS
  DUP_MAX,      \* entries of dups, 16 in the code
  DUP_TIME,     \* 650 in the code
  Cmds,         \* the RF commands
  None,         \* no command: rf_cmd_len is 0
  INTSPAN,      \* how many values an int has, 2^32 in the code
  Start,        \* the clock, in milliseconds, when the daemon starts
  Steps,        \* by how much the clock may advance between two events
  MAXTIME       \* bound on the clock

ASSUME TableAssumption == DUP_MAX \in Nat \ {0} /\ DUP_TIME \in Nat
ASSUME CmdsAssumption == None \notin Cmds
ASSUME IntAssumption == INTSPAN \in Nat \ {0} /\ INTSPAN % 2 = 0
ASSUME ClockAssumption == Start \in Nat /\ Steps \subseteq Nat /\ MAXTIME \in Nat

VARIABLES
  dups,       \* the table: expiry time and command of each entry
  now,        \* what get_timems returns
  (* history *)
  verdict,    \* the last command, whether it was dropped, and when
  lastPass    \* when each command was last let through, or Never

vars == <<dups, now, verdict, lastPass>>

Index == 0 .. DUP_MAX - 1
Never == -1

Used(e) == e.cmd # None
Expired(e) == now > e.timems

\* The entries of the loop before i, with those that have expired marked
\* unused.
SweptBefore(i) ==
  [j \in Index |-> IF j < i /\ Used(dups[j]) /\ Expired(dups[j])
                   THEN [dups[j] EXCEPT !.cmd = None] ELSE dups[j]]

Holding(cmd) == {i \in Index : dups[i].cmd = cmd}

\* An unsigned 64 bit time stored in an int: its low bits, as a signed number.
ToInt(t) == ((t + INTSPAN \div 2) % INTSPAN) - INTSPAN \div 2

\* A 64 bit time compared with that int: the int is converted to unsigned, so
\* a negative one is larger than any time.
BelowInt(t, min) == min < 0 \/ t < min

\* The search for a victim in a full table: min and add_index after entry i.
SearchTo[i \in Index] ==
  IF i = 0 THEN [min |-> ToInt(dups[0].timems), add_index |-> 0]
  ELSE LET s == SearchTo[i - 1]
       IN  IF BelowInt(dups[i].timems, s.min)
           THEN [min |-> ToInt(dups[i].timems), add_index |-> i] ELSE s
Victim == SearchTo[DUP_MAX - 1].add_index

Entry(cmd) == [timems |-> now' + DUP_TIME, cmd |-> cmd]

Passes(cmd) ==
  /\ verdict' = [cmd |-> cmd, dropped |-> FALSE, at |-> now]
  /\ lastPass' = [lastPass EXCEPT ![cmd] = now']

\* In the table and not expired.  The window is not extended.
Drop_extending(cmd) ==
  \E i \in Holding(cmd) :
    /\ ~Expired(dups[i])
    /\ dups' = [SweptBefore(i) EXCEPT ![i] = Entry(cmd)]
    /\ verdict' = [cmd |-> cmd, dropped |-> TRUE, at |-> now]
    /\ UNCHANGED lastPass

Drop(cmd) ==
  \E i \in Holding(cmd) :
    /\ ~Expired(dups[i])
    /\ dups' = SweptBefore(i)
    /\ verdict' = [cmd |-> cmd, dropped |-> TRUE, at |-> now]
    /\ UNCHANGED lastPass

\* In the table and expired: the entry is used again.
Reuse(cmd) ==
  \E i \in Holding(cmd) :
    /\ Expired(dups[i])
    /\ dups' = [SweptBefore(i) EXCEPT ![i] = Entry(cmd)]
    /\ Passes(cmd)

\* Not in the table: it takes the first entry that is not in use, or the
\* victim's.
Add_to_front(cmd) ==
  /\ Holding(cmd) = {}
  /\ dups' = [SweptBefore(DUP_MAX) EXCEPT ![0] = Entry(cmd)]
  /\ Passes(cmd)

Add_unchecked(cmd) ==
  /\ LET unused == {i \in Index : ~Used(dups[i])}
         add_index == IF unused = {} THEN Victim
                      ELSE CHOOSE i \in unused : \A j \in unused : i <= j
     IN  dups' = [dups EXCEPT ![add_index] = Entry(cmd)]
  /\ Passes(cmd)

Add(cmd) ==
  /\ Holding(cmd) = {}
  /\ LET swept  == SweptBefore(DUP_MAX)
         unused == {i \in Index : ~Used(swept[i])}
         add_index == IF unused = {} THEN Victim
                      ELSE CHOOSE i \in unused : \A j \in unused : i <= j
     IN  dups' = [swept EXCEPT ![add_index] = Entry(cmd)]
  /\ Passes(cmd)

\* The clock may be read a second time, later, when the entry is written.
dup_filter(cmd) ==
  /\ now' \in {now, now + 1} /\ now' <= MAXTIME
  /\ Drop(cmd) \/ Reuse(cmd) \/ Add(cmd)

Tick ==
  /\ \E d \in Steps : now' = now + d
  /\ now' <= MAXTIME
  /\ UNCHANGED <<dups, verdict, lastPass>>

Init ==
  /\ dups = [i \in Index |-> [timems |-> 0, cmd |-> None]]
  /\ now = Start
  /\ verdict = [cmd |-> None, dropped |-> FALSE, at |-> Start]
  /\ lastPass = [c \in Cmds |-> Never]

Next == Tick \/ \E cmd \in Cmds : dup_filter(cmd)

Spec == Init /\ [][Next]_vars

-----------------------------------------------------------------------------
(***************************************************************************)
(* Properties                                                              *)
(***************************************************************************)

\* The table holds commands and times of the clock.
TypeOK ==
  /\ dups \in [Index -> [timems : Nat, cmd : Cmds \cup {None}]]
  /\ now \in Nat
  /\ verdict \in [cmd : Cmds \cup {None}, dropped : BOOLEAN, at : Nat]
  /\ lastPass \in [Cmds -> Nat \cup {Never}]

\* No command has two entries: the loop stops at the first, so a second one,
\* with another expiry time, would never be consulted.
OneEntryEach == \A i, j \in Index : Used(dups[i]) /\ dups[i].cmd = dups[j].cmd => i = j

\* A command is dropped only as a copy of one let through in the DUP_TIME
\* milliseconds before: copies do not extend the window, so a button that is
\* held down is not silenced for ever, and no other command's entry counts.
DroppedOnlyAsCopy ==
  verdict.dropped =>
    /\ lastPass[verdict.cmd] # Never
    /\ verdict.at <= lastPass[verdict.cmd] + DUP_TIME

\* The commands other than c let through less than DUP_TIME before c was, or
\* since.
PassedAround(c) ==
  {d \in Cmds \ {c} : lastPass[d] # Never /\ lastPass[d] + DUP_TIME >= lastPass[c]}

\* A copy gets through inside the window only when the table was too small:
\* DUP_MAX other commands were let through around the original.
CopiesFiltered ==
  [][\A c \in Cmds :
       lastPass'[c] # lastPass[c] /\ lastPass[c] # Never
         => \/ now > lastPass[c] + DUP_TIME
            \/ Cardinality(PassedAround(c)) >= DUP_MAX]_vars

=============================================================================
