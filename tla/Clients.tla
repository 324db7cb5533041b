------------------------------ MODULE Clients ------------------------------
(***************************************************************************)
(* The socket clients of mochad.c: the three tables of descriptors, the    *)
(* array given to poll, and mydaemon's loop, which accepts clients, reads  *)
(* from them, forgets them, and ends on a signal.                          *)
(*                                                                         *)
(* The daemon listens on three ports: 1099 for text clients, 1100 for      *)
(* Flash XML clients, 1101 for OpenRemote clients, whose connection it     *)
(* closes after one command (cm15a_encode).  Sockets, poll and signals are *)
(* modelled from how mochad.c uses them.                                   *)
(***************************************************************************)
EXTENDS Integers, Sequences, FiniteSets

CONSTANTS
  MAXCLISOCKETS,  \* entries of each table, 32 in the code
  Fds,            \* the descriptors accept may return
  Faults,         \* TRUE in it: accept may fail and signals may be sent
  MAXFAILED,      \* bound on the accept calls that fail and are counted
  FewFds          \* the descriptors where something may fail, a bound too

ASSUME SizeAssumption == MAXCLISOCKETS \in Nat \ {0}
ASSUME FdsAssumption == Fds \subseteq Nat \ {0}
ASSUME FaultsAssumption ==
  Faults \subseteq BOOLEAN /\ FewFds \subseteq Fds
ASSUME FailedAssumption == MAXFAILED \in Nat

VARIABLES
  socks,    \* fd of Clientsocks, Clientxmlsocks, Clientor20socks
  count,    \* NClients, NxmlClients, Nor20Clients
  polled,   \* fd of Clients behind the listen and USB descriptors
  npolled,  \* how many of them poll was given, nsockclients
  stage,    \* where the loop is: "top", in "poll", a kind to accept, or "scan"
  pos,      \* i of the scan
  nready,   \* what poll returned, less what has been handled
  revents,  \* listen entries of Clients whose revents is POLLIN
  inputs,   \* client entries of Clients whose revents is POLLIN or POLLERR
  Do_exit,
  faulty,   \* whether accept may fail and signals may come, fixed
  (* the kernel's *)
  kernel,   \* the port each open descriptor was accepted on, or "free"
  pending,  \* ports with a connection to accept
  (* history *)
  nfailed,  \* accept calls that failed and were counted, for each port
  leaked,   \* accepted descriptors no table had room for
  due       \* what poll reported this round and the loop has not handled:
            \* [listens |-> set of ports, inputs |-> set of entries]

tables == <<socks, count>>
round  == <<polled, npolled>>
outside == <<kernel, pending, leaked, nfailed>>
vars == <<tables, round, stage, pos, nready, revents, inputs, Do_exit, outside, due, faulty>>

Kinds == {"client", "xml", "or20"}
Free == -1               \* an unused entry of a table
Index == 0 .. MAXCLISOCKETS - 1
Room == 3 * (MAXCLISOCKETS + 1)  \* entries of Clients for clients

NextStage_no_or20(k) ==
  CASE k = "client" -> "xml" [] k = "xml" -> "scan" [] k = "or20" -> "scan"

NextStage(k) == CASE k = "client" -> "xml" [] k = "xml" -> "or20"
                  [] k = "or20" -> "scan"

-----------------------------------------------------------------------------

Entry == Kinds \X Index
Unused(k) == {i \in Index : socks[k][i] = Free}

\* add_client, add_xmlclient, add_or20client.  fd is -1 if accept failed.
add_client_uncounted(k, fd) ==
  IF Unused(k) = {}
  THEN UNCHANGED tables
  ELSE LET i == CHOOSE i \in Unused(k) : \A j \in Unused(k) : i <= j
       IN  /\ socks' = [socks EXCEPT ![k][i] = fd]
           /\ count' = [count EXCEPT ![k] = IF @ = 0 THEN 1 ELSE @]

add_client(k, fd) ==
  IF Unused(k) = {}
  THEN UNCHANGED tables
  ELSE LET i == CHOOSE i \in Unused(k) : \A j \in Unused(k) : i <= j
       IN  /\ socks' = [socks EXCEPT ![k][i] = fd]
           /\ count' = [count EXCEPT ![k] = @ + 1]

Where(fd) == {w \in Entry : socks[w[1]][w[2]] = fd}

\* The order in which del_client and copy_clients look at the entries.
Rank(w) == 3 * w[2] + (CASE w[1] = "client" -> 0 [] w[1] = "xml" -> 1
                         [] w[1] = "or20" -> 2)

\* del_client: the first entry with this fd.  Only an OpenRemote socket is
\* closed here; the callers close the others.
del_client(fd) ==
  IF Where(fd) = {}
  THEN UNCHANGED tables
  ELSE LET w == CHOOSE w \in Where(fd) : \A v \in Where(fd) : Rank(w) <= Rank(v)
       IN  /\ socks' = [socks EXCEPT ![w[1]][w[2]] = Free]
           /\ count' = [count EXCEPT ![w[1]] = @ - 1]

\* The entries in use, the place of each in their order, and the descriptor
\* in the n-th place.
InUse == {w \in Entry : socks[w[1]][w[2]] # Free}
NInUse == Cardinality(InUse)
Place(w) == Cardinality({v \in InUse : Rank(v) <= Rank(w)})
FdAt(n) == LET w == CHOOSE w \in InUse : Place(w) = n IN socks[w[1]][w[2]]

\* What earlier rounds left behind the entries in use.  Unless an accept has
\* failed poll is given no such entry, and they do not matter.
LeftAt(n) == IF faulty THEN polled[n] ELSE 0
Leftover(entries, n) == IF faulty THEN {m \in entries : m > n} ELSE {}

copy_clients_extra ==
  /\ polled' = [n \in 1 .. Room |-> IF n <= NInUse THEN FdAt(n) ELSE polled[n]]
  /\ npolled' = 1 + count["client"] + count["xml"] + count["or20"]

\* copy_clients writes over the front of the array; what follows it is left
\* from earlier rounds.  The number it returns is the sum of the counters.
copy_clients ==
  /\ polled' = [n \in 1 .. Room |-> IF n <= NInUse THEN FdAt(n) ELSE LeftAt(n)]
  /\ npolled' = count["client"] + count["xml"] + count["or20"]

\* while (!Do_exit): the array for poll is filled.  The entries of clients are
\* copied with revents 0, those behind them and those of the listen sockets
\* keep theirs.  nready and i are not used again before they are assigned.
Top ==
  /\ stage = "top"
  /\ IF Do_exit
     THEN stage' = "done" /\ UNCHANGED <<round, inputs>>
     ELSE /\ stage' = "poll"
          /\ copy_clients
          /\ inputs' = Leftover(inputs, NInUse)
  /\ pos' = 1 /\ nready' = 0
  /\ UNCHANGED <<tables, revents, Do_exit, outside, due>>

\* Each failed accept is one entry more for poll, and nothing in the code bounds
\* them.  What a round does that goes past the end of Clients is undefined: the
\* model ends there.
InArray == npolled <= Room

\* poll reports something, in the entries it was given.  A closed descriptor is
\* always reported, but not as readable; an entry never used asks for nothing.
\* usb says whether a descriptor of libusb is ready as well.
Poll ==
  /\ stage = "poll" /\ InArray
  /\ revents' = pending
  /\ LET Given == {n \in 1 .. npolled : polled[n] \in Fds}
         Open  == {n \in Given : kernel[polled[n]] # "free"}
     IN  \E readable \in SUBSET Open :
         \E hangups \in SUBSET (Open \ readable), usb \in 0 .. 1 :
           /\ nready' = Cardinality(revents') + Cardinality(readable)
                        + Cardinality(hangups) + Cardinality(Given \ Open) + usb
           /\ inputs' = readable \cup Leftover(inputs, npolled)
           /\ due' = [listens |-> revents', inputs |-> readable]
  /\ nready' > 0
  /\ stage' = "client"
  /\ UNCHANGED <<tables, round, pos, Do_exit, outside>>

\* --nready <= 0 starts the next round, otherwise the loop goes on at s.
Handled_two(s) ==
  /\ nready' = nready - 2
  /\ stage' = IF nready' <= 0 THEN "top" ELSE s

Handled(s) ==
  /\ nready' = nready - 1
  /\ stage' = IF nready' <= 0 THEN "top" ELSE s

Usable == IF faulty THEN FewFds ELSE Fds
FreeFds == {fd \in Usable : kernel[fd] = "free"}

NotReady(k) ==
  /\ stage = k /\ k \notin revents
  /\ stage' = NextStage(k)
  /\ UNCHANGED <<tables, round, pos, nready, revents, inputs, Do_exit, outside, due>>

Accept_until_none(k) ==
  /\ stage = k /\ k \in revents /\ k \in pending
  /\ pending' = pending \ {k}
  /\ due' = [due EXCEPT !.listens = @ \ {k}]
  /\ \E fd \in FreeFds :
       /\ \A other \in FreeFds : fd <= other
       /\ add_client(k, fd)
       /\ kernel' = [kernel EXCEPT ![fd] = k]
       /\ leaked' = IF UNCHANGED socks THEN leaked \cup {fd} ELSE leaked
  /\ Handled(k)
  /\ UNCHANGED <<round, pos, revents, inputs, Do_exit, nfailed>>

\* accept blocks while there is no connection.
Accept(k) ==
  /\ stage = k /\ k \in revents /\ k \in pending
  /\ pending' = pending \ {k}
  /\ due' = [due EXCEPT !.listens = @ \ {k}]
  /\ \E fd \in FreeFds :
       /\ \A other \in FreeFds : fd <= other
       /\ add_client(k, fd)
       /\ kernel' = [kernel EXCEPT ![fd] = k]
       /\ leaked' = IF UNCHANGED socks THEN leaked \cup {fd} ELSE leaked
  /\ Handled(NextStage(k))
  /\ UNCHANGED <<round, pos, revents, inputs, Do_exit, nfailed>>

\* The result of accept is not looked at.
AcceptFailed(k) ==
  /\ stage = k /\ k \in revents
  /\ add_client(k, -1)
  /\ due' = [due EXCEPT !.listens = @ \ {k}]
  /\ Handled(NextStage(k))
  /\ UNCHANGED <<round, pos, revents, inputs, kernel, leaked>>

\* The connection was reset before it was accepted, and is gone, or there is no
\* descriptor for it (EMFILE), and it waits on: the next poll reports it again.
AcceptError(k) ==
  /\ faulty /\ k \in pending
  /\ nfailed["client"] + nfailed["xml"] + nfailed["or20"] < MAXFAILED
  /\ nfailed' = [nfailed EXCEPT ![k] = IF Unused(k) = {} THEN @ ELSE @ + 1]
  /\ \/ pending' = pending \ {k}
     \/ FreeFds = {} /\ UNCHANGED pending
  /\ AcceptFailed(k) /\ UNCHANGED Do_exit

or20client(fd) == kernel[fd] = "or20"

Close(fd) == kernel' = [kernel EXCEPT ![fd] = "free"]

ReadData_no_close(fd) ==
  \/ or20client(fd) /\ del_client(fd) /\ UNCHANGED kernel
  \/ UNCHANGED <<tables, kernel>>

\* cm15a_encode with a buffer that ends a line, or does not.  del_client closes
\* an OpenRemote socket that it finds.
ReadData(fd) ==
  \/ /\ or20client(fd)
     /\ del_client(fd)
     /\ IF Where(fd) = {} THEN UNCHANGED kernel ELSE Close(fd)
  \/ UNCHANGED <<tables, kernel>>

\* read returns 0 or an error: close, then del_client, which closes an
\* OpenRemote descriptor a second time.
ReadEnd_open(fd) == Close(fd) /\ UNCHANGED tables

ReadEnd(fd) == Close(fd) /\ del_client(fd)

Read ==
  /\ stage = "scan" /\ pos <= npolled /\ pos \in inputs
  /\ ReadData(polled[pos]) \/ ReadEnd(polled[pos])
  /\ due' = [due EXCEPT !.inputs = @ \ {pos}]
  /\ Handled("scan")
  /\ pos' = pos + 1
  /\ UNCHANGED <<round, revents, inputs, Do_exit, pending, leaked, nfailed>>

\* An entry with other revents, or none, is passed over.
Skip ==
  /\ stage = "scan" /\ pos <= npolled /\ pos \notin inputs
  /\ pos' = pos + 1
  /\ UNCHANGED <<tables, round, stage, nready, revents, inputs, Do_exit, outside, due>>

RoundEnds ==
  /\ stage = "scan" /\ pos > npolled
  /\ stage' = "top"
  /\ UNCHANGED <<tables, round, pos, nready, revents, inputs, Do_exit, outside, due>>

-----------------------------------------------------------------------------
(***************************************************************************)
(* The environment: clients connect and signals arrive.                    *)
(***************************************************************************)

\* As long as nothing fails Fds bounds the connections; otherwise the process may
\* run out of descriptors.
Connect(k) ==
  /\ k \notin pending
  /\ faulty \/ Cardinality(pending) < Cardinality(FreeFds)
  /\ stage # "done"
  /\ pending' = pending \cup {k}
  /\ UNCHANGED <<tables, round, stage, pos, nready, revents, inputs, Do_exit,
                 kernel, leaked, nfailed, due>>

\* sighandler, while the loop is running or about to call poll.
Signal ==
  /\ faulty /\ ~Do_exit
  /\ Do_exit' = TRUE
  /\ UNCHANGED <<tables, round, stage, pos, nready, revents, inputs, outside, due>>

\* sighandler, while poll waits: it returns -1 and writes no revents.
PollInterrupted ==
  /\ faulty /\ stage = "poll" /\ InArray
  /\ Do_exit' = TRUE
  /\ nready' = -1
  /\ stage' = "client"
  /\ UNCHANGED <<tables, round, pos, revents, inputs, outside, due>>

\* sighandler, while accept waits.
AcceptInterrupted(k) ==
  /\ faulty /\ k \notin pending
  /\ Do_exit' = TRUE /\ UNCHANGED <<pending, nfailed>>
  /\ AcceptFailed(k)

Init ==
  /\ socks = [k \in Kinds |-> [i \in Index |-> Free]]
  /\ count = [k \in Kinds |-> 0]
  /\ polled = [n \in 1 .. Room |-> 0] /\ npolled = 0
  /\ stage = "top" /\ pos = 1 /\ nready = 0 /\ Do_exit = FALSE
  /\ revents = {} /\ inputs = {}
  /\ due = [listens |-> {}, inputs |-> {}]
  /\ kernel = [fd \in Fds |-> "free"]
  /\ pending = {} /\ leaked = {} /\ nfailed = [k \in Kinds |-> 0]
  /\ faulty \in Faults

Daemon ==
  /\ UNCHANGED faulty
  /\ \/ Top \/ Read \/ Skip \/ RoundEnds
     \/ \E k \in Kinds : NotReady(k) \/ Accept(k) \/ AcceptError(k)

Reports == Poll /\ UNCHANGED faulty

Outside ==
  /\ UNCHANGED faulty
  /\ \/ PollInterrupted \/ Signal
     \/ \E k \in Kinds : AcceptInterrupted(k) \/ Connect(k)

Next == Daemon \/ Reports \/ Outside

Spec == Init /\ [][Next]_vars

\* The daemon's thread runs on, and poll returns when a connection waits.
FairSpec == Spec /\ WF_vars(Daemon) /\ WF_vars(Reports /\ pending # {})

-----------------------------------------------------------------------------
(***************************************************************************)
(* Properties                                                              *)
(***************************************************************************)

Entries(k) == Cardinality({i \in Index : socks[k][i] # Free})

\* "# of valid entries in Clientsocks" (mochad.c), and so for the other two:
\* copy_clients returns their sum as the number of descriptors to poll.  An
\* accept that fails adds one for good unless the table is full, and nothing else
\* makes a counter drift, neither an overflow of the table nor a client that is
\* forgotten.
CountsDriftByFailures ==
  Do_exit \/ \A k \in Kinds : count[k] = Entries(k) + nfailed[k]

\* A descriptor has one entry, in the table of the port it was accepted on,
\* and a closed one has none: its number may come back for another client.
TablesHoldOpenSockets ==
  \A k \in Kinds, i \in Index :
    LET fd == socks[k][i]
    IN  fd # Free => kernel[fd] = k /\ Where(fd) = {<<k, i>>}

\* A socket the daemon has accepted is in a table until it is closed, unless
\* the table was full when it came.
NoSocketForgotten ==
  \A fd \in Fds : kernel[fd] # "free" => Where(fd) # {} \/ fd \in leaked

\* What poll reported readable is handled in the same round: the early exits
\* on nready pass nobody over, although nready also counts USB descriptors,
\* hangups and closed descriptors.
RoundServesAll == stage = "top" => due = [listens |-> {}, inputs |-> {}]

\* As long as no accept has failed, read is called for open sockets only, and
\* only for those of clients: the array given to poll is a copy, and may be out
\* of date when it is scanned.
ReadsClientsOnly ==
  stage = "scan" /\ pos <= npolled /\ pos \in inputs /\ (\A k \in Kinds : nfailed[k] = 0)
    => kernel[polled[pos]] # "free" /\ Where(polled[pos]) # {}

\* While no signal has come the loop calls accept only when a connection
\* waits: the listen sockets are blocking, and accept would stall every client
\* and the controller.
AcceptNeverWaits ==
  \A k \in Kinds : stage = k /\ k \in revents => k \in pending \/ Do_exit

\* Every connection is accepted or reset, whichever port it is for and whatever
\* goes on at the others, unless the daemon is told to exit or all descriptors
\* are in use: a client that a full table had no room for keeps one for good,
\* and accept then fails, round after round, as long as the connection waits.
EveryoneAccepted ==
  \A k \in Kinds : k \in pending ~> k \notin pending \/ Do_exit \/ FreeFds = {}

=============================================================================
