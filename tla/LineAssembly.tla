---------------------------- MODULE LineAssembly ----------------------------
(***************************************************************************)
(* cm15a_encode of encode.c: what clients send is cut into command lines.  *)
(* TCP delivers the bytes of a client in pieces of any length; a line that *)
(* is not complete stays in remainder until more bytes arrive.  remainder  *)
(* is static: all clients share it.                                        *)
(*                                                                         *)
(* A byte is a record of who sent it and when, and whether it ends a line  *)
(* ('\n', '\r' or '\0').  The 80 bytes of remainder are never exceeded     *)
(* here: MAXBYTES is smaller.                                              *)
(***************************************************************************)
EXTENDS Integers, Sequences, FiniteSets

CONSTANTS
  Clients,    \* the client connections
  Or20,       \* those of them accepted on the OpenRemote port
  Nobody,     \* fd before the first call
  MAXBYTES    \* bound on the bytes sent

ASSUME ClientsAssumption == Or20 \subseteq Clients /\ Nobody \notin Clients
ASSUME BoundAssumption == MAXBYTES \in Nat

VARIABLES
  socket,     \* what each client sent and the daemon has not read
  closed,     \* the connections the daemon has closed
  fd, buf,    \* cm15a_encode's client and the bytes it has left to handle
  remainder,  \* the bytes of the line so far
  (* history *)
  sent,       \* how many bytes were sent
  read,       \* the bytes that read returned, oldest first
  received,   \* those of them handled so far
  lines       \* the calls of processcommandline: client and line

vars == <<socket, closed, fd, buf, remainder, sent, read, received, lines>>

Bytes == [from : Clients, time : Nat, eol : BOOLEAN]
Running == buf # <<>>

-----------------------------------------------------------------------------

Send(c) ==
  /\ sent < MAXBYTES /\ c \notin closed
  /\ sent' = sent + 1
  /\ \E eol \in BOOLEAN :
       socket' = [socket EXCEPT ![c] =
                    Append(@, [from |-> c, time |-> sent', eol |-> eol])]
  /\ UNCHANGED <<closed, fd, buf, remainder, read, received, lines>>

\* mydaemon's read, and the call of cm15a_encode.
Read(c) ==
  /\ ~Running /\ c \notin closed
  /\ \E n \in 1 .. Len(socket[c]) :
       /\ fd' = c /\ buf' = SubSeq(socket[c], 1, n)
       /\ read' = read \o buf'
       /\ socket' = [socket EXCEPT ![c] = SubSeq(@, n + 1, Len(@))]
  /\ UNCHANGED <<closed, remainder, sent, received, lines>>

\* The client has closed its end, or read fails, and what it had sent is lost:
\* the connection is closed.  What remainder holds of it stays there.
ReadEnd(c) ==
  /\ ~Running /\ c \notin closed
  /\ closed' = closed \cup {c}
  /\ socket' = [socket EXCEPT ![c] = <<>>]
  /\ UNCHANGED <<fd, buf, remainder, sent, read, received, lines>>

\* The next byte of buf is part of a line.
Collect ==
  /\ Running /\ ~Head(buf).eol
  /\ remainder' = Append(remainder, Head(buf))
  /\ UNCHANGED <<closed, lines>>

\* The next byte ends a line.  An empty line is no command; after a command
\* an OpenRemote connection is closed, but the rest of buf is still handled.
EndLine ==
  /\ Running /\ Head(buf).eol
  /\ lines' = IF remainder = <<>> THEN lines
              ELSE Append(lines, [client |-> fd, line |-> remainder])
  /\ closed' = IF remainder # <<>> /\ fd \in Or20 THEN closed \cup {fd} ELSE closed
  /\ remainder' = <<>>

cm15a_encode_until_closed ==
  /\ Collect \/ EndLine
  /\ received' = Append(received, Head(buf))
  /\ buf' = IF fd \in closed' THEN <<>> ELSE Tail(buf)
  /\ UNCHANGED <<socket, fd, sent, read>>

cm15a_encode ==
  /\ Collect \/ EndLine
  /\ received' = Append(received, Head(buf))
  /\ buf' = Tail(buf)
  /\ UNCHANGED <<socket, fd, sent, read>>

Init ==
  /\ socket = [c \in Clients |-> <<>>]
  /\ closed = {} /\ fd = Nobody /\ buf = <<>> /\ remainder = <<>>
  /\ sent = 0 /\ read = <<>> /\ received = <<>> /\ lines = <<>>

Next == cm15a_encode \/ \E c \in Clients : Send(c) \/ Read(c) \/ ReadEnd(c)

Spec == Init /\ [][Next]_vars

-----------------------------------------------------------------------------
(***************************************************************************)
(* Properties                                                              *)
(***************************************************************************)

Ends == {k \in 1 .. Len(received) : received[k].eol}

\* Where the lines of received start and end.
LineSpans ==
  {s \in (1 .. Len(received)) \X Ends :
     /\ s[1] < s[2] /\ \A k \in s[1] .. s[2] - 1 : k \notin Ends
     /\ s[1] = 1 \/ s[1] - 1 \in Ends}

LastEnd == IF Ends = {} THEN 0 ELSE CHOOSE k \in Ends : \A j \in Ends : j <= k

\* The how-many-eth line it is.
Rank(span) == Cardinality({s \in LineSpans : s[2] <= span[2]})

\* However the bytes were cut into pieces, the commands are the stretches of
\* what read returned between the ends of lines, in order, each of them once,
\* none of them empty; what follows the last end waits in remainder, whoever's
\* it is and whether it is still connected.  Nothing of a buffer is passed over,
\* not even when a command of it has closed the connection.
LinesAreTheStream ==
  /\ read = received \o buf
  /\ remainder = SubSeq(received, LastEnd + 1, Len(received))
  /\ Len(lines) = Cardinality(LineSpans)
  /\ \A span \in LineSpans :
       lines[Rank(span)].line = SubSeq(received, span[1], span[2] - 1)

\* "Break the input stream into \n or \r terminated lines. The stream is not
\* guaranteed to end on a line boundary so there may be left over input which
\* must be processed the next time around." (cm15a_encode): a command consists
\* of consecutive bytes of the client it is attributed to.
LinesOfOneClient ==
  \A n \in 1 .. Len(lines) :
    LET l == lines[n]
    IN  \A k \in 1 .. Len(l.line) : l.line[k].from = l.client

=============================================================================
