------------------------- MODULE LineAssemblyProofs -------------------------
(***************************************************************************)
(* Theorems about cm15a_encode, for every set of clients and every number  *)
(* of bytes: the commands are the lines of the stream.                     *)
(*                                                                         *)
(* Everything is about the bytes handled so far, so the invariant says how *)
(* its parts move when a byte is appended: the last end of a line          *)
(* (LastEndIs), and the number of lines (LineSpans is finite).             *)
(***************************************************************************)
EXTENDS LineAssembly, SequenceTheorems, FiniteSetTheorems, TLAPS

Line == [client : Clients, line : Seq(Bytes)]

Typed ==
  /\ socket \in [Clients -> Seq(Bytes)]
  /\ closed \subseteq Clients
  /\ fd \in Clients \cup {Nobody} /\ buf \in Seq(Bytes)
  /\ Running => fd \in Clients
  /\ remainder \in Seq(Bytes) /\ read \in Seq(Bytes) /\ received \in Seq(Bytes)
  /\ sent \in Nat /\ lines \in Seq(Line)

\* What the CHOOSE of LastEnd finds.
LastEndIs ==
  /\ LastEnd \in 0 .. Len(received)
  /\ LastEnd # 0 => LastEnd \in Ends
  /\ \A k \in Ends : k <= LastEnd

\* What LinesAreTheStream says of the lines; the rest of it is Whole.
LinesAre ==
  /\ remainder = SubSeq(received, LastEnd + 1, Len(received))
  /\ Len(lines) = Cardinality(LineSpans)
  /\ \A span \in LineSpans :
       lines[Rank(span)].line = SubSeq(received, span[1], span[2] - 1)

Whole == read = received \o buf

Inv == Typed /\ LastEndIs /\ IsFiniteSet(LineSpans) /\ LinesAre /\ Whole

-----------------------------------------------------------------------------
(***************************************************************************)
(* Types                                                                   *)
(***************************************************************************)

\* What cm15a_encode does to the byte it handles.
LEMMA HandleByte ==
  ASSUME Typed, cm15a_encode
  PROVE  /\ Head(buf) \in Bytes /\ fd \in Clients
         /\ received' = Append(received, Head(buf)) /\ received' \in Seq(Bytes)
         /\ buf' \in Seq(Bytes)
<1>1. buf \in Seq(Bytes) /\ buf # <<>> /\ received \in Seq(Bytes) /\ fd \in Clients
  BY DEF Typed, cm15a_encode, Collect, EndLine, Running
<1>2. Head(buf) \in Bytes /\ Tail(buf) \in Seq(Bytes)
  BY <1>1, HeadTailProperties
<1>3. Append(received, Head(buf)) \in Seq(Bytes)
  BY <1>1, <1>2, AppendProperties
<1> QED
  BY <1>1, <1>2, <1>3 DEF cm15a_encode

LEMMA TypedStep ==
  ASSUME Typed, Next
  PROVE  Typed'
<1>1. ASSUME NEW c \in Clients, Send(c) PROVE Typed'
  <2>1. sent \in Nat /\ sent' = sent + 1 /\ sent' \in Nat
    BY <1>1 DEF Send, Typed
  <2>2. socket' \in [Clients -> Seq(Bytes)]
    <3>1. PICK e \in BOOLEAN :
            socket' = [socket EXCEPT ![c] =
                         Append(@, [from |-> c, time |-> sent', eol |-> e])]
      BY <1>1 DEF Send
    <3>2. [from |-> c, time |-> sent', eol |-> e] \in Bytes
      BY <2>1 DEF Bytes
    <3>3. Append(socket[c], [from |-> c, time |-> sent', eol |-> e]) \in Seq(Bytes)
      BY <3>2, AppendProperties DEF Typed
    <3> QED
      BY <3>1, <3>3 DEF Typed
  <2> QED
    BY <1>1, <2>1, <2>2 DEF Send, Typed, Running
<1>2. ASSUME NEW c \in Clients, Read(c) PROVE Typed'
  <2>1. PICK n \in 1 .. Len(socket[c]) :
          /\ fd' = c /\ buf' = SubSeq(socket[c], 1, n) /\ read' = read \o buf'
          /\ socket' = [socket EXCEPT ![c] = SubSeq(@, n + 1, Len(@))]
    BY <1>2 DEF Read
  <2>2. socket[c] \in Seq(Bytes) /\ Len(socket[c]) \in Nat
        /\ \A i \in 1 .. Len(socket[c]) : socket[c][i] \in Bytes
    BY LenProperties, ElementOfSeq DEF Typed
  <2>3. SubSeq(socket[c], 1, n) \in Seq(Bytes)
    <3>1. \A i \in 1 .. n : socket[c][i] \in Bytes
      BY <2>2
    <3> QED
      BY <2>2, <3>1, SubSeqProperties
  <2>4. SubSeq(socket[c], n + 1, Len(socket[c])) \in Seq(Bytes)
    <3>1. \A i \in n + 1 .. Len(socket[c]) : socket[c][i] \in Bytes
      BY <2>2
    <3> QED
      BY <2>2, <3>1, SubSeqProperties
  <2>5. socket' \in [Clients -> Seq(Bytes)]
    BY <2>1, <2>4 DEF Typed
  <2>6. read' \in Seq(Bytes)
    BY <2>1, <2>3, ConcatProperties DEF Typed
  <2> QED
    BY <1>2, <2>1, <2>3, <2>5, <2>6 DEF Read, Typed
<1>4. ASSUME NEW c \in Clients, ReadEnd(c) PROVE Typed'
  <2>1. socket' \in [Clients -> Seq(Bytes)] /\ closed' \subseteq Clients
    BY <1>4, EmptySeq DEF ReadEnd, Typed
  <2> QED
    BY <1>4, <2>1 DEF ReadEnd, Typed, Running
<1>3. CASE cm15a_encode
  <2>1. /\ Head(buf) \in Bytes /\ fd \in Clients
        /\ received' \in Seq(Bytes) /\ buf' \in Seq(Bytes)
    BY <1>3, HandleByte
  <2>2. UNCHANGED <<socket, fd, sent, read>>
    BY <1>3 DEF cm15a_encode
  <2>3. CASE Collect
    <3>1. remainder' \in Seq(Bytes)
      BY <2>1, <2>3, AppendProperties DEF Collect, Typed
    <3> QED
      BY <2>1, <2>2, <2>3, <3>1 DEF Collect, Typed
  <2>4. CASE EndLine
    <3>1. remainder' \in Seq(Bytes)
      BY <2>4, EmptySeq DEF EndLine
    <3>2. closed' \subseteq Clients
      BY <2>1, <2>4 DEF EndLine, Typed
    <3>3. [client |-> fd, line |-> remainder] \in Line
      BY <2>1 DEF Line, Typed
    <3>4. Append(lines, [client |-> fd, line |-> remainder]) \in Seq(Line)
      BY <3>3, AppendProperties DEF Typed
    <3>5. lines' \in Seq(Line)
      BY <2>4, <3>4 DEF EndLine, Typed
    <3> QED
      BY <2>1, <2>2, <3>1, <3>2, <3>5 DEF Typed
  <2> QED
    BY <1>3, <2>3, <2>4 DEF cm15a_encode
<1> QED
  BY <1>1, <1>2, <1>3, <1>4 DEF Next

-----------------------------------------------------------------------------
(***************************************************************************)
(* Nothing of a buffer is passed over.                                     *)
(***************************************************************************)

LEMMA WholeStep ==
  ASSUME Typed, Typed', Whole, Next
  PROVE  Whole'
<1>1. ASSUME NEW c \in Clients, Read(c) PROVE Whole'
  <2>1. buf = <<>> /\ received' = received /\ read' = read \o buf'
    BY <1>1 DEF Read, Running
  <2>2. received \o <<>> = received
    BY ConcatEmptySeq DEF Typed
  <2> QED
    BY <2>1, <2>2 DEF Whole
<1>2. CASE cm15a_encode
  <2>1. buf \in Seq(Bytes) /\ buf # <<>> /\ received \in Seq(Bytes)
    BY <1>2 DEF Typed, cm15a_encode, Collect, EndLine, Running
  <2>2. /\ received' = Append(received, Head(buf)) /\ buf' = Tail(buf) /\ read' = read
    BY <1>2 DEF cm15a_encode
  <2>3. Head(buf) \in Bytes /\ Tail(buf) \in Seq(Bytes)
    BY <2>1, HeadTailProperties
  <2> DEFINE b == Head(buf)
             t == Tail(buf)
  <2>4. buf = <<b>> \o t
    BY <2>1
  <2>5. Append(received, b) = received \o <<b>>
    BY <2>1, <2>3
  <2>6. <<b>> \in Seq(Bytes)
    BY <2>3
  <2> HIDE DEF b, t
  <2>7. (received \o <<b>>) \o t = received \o (<<b>> \o t)
    BY <2>1, <2>3, <2>6, ConcatAssociative DEF t
  <2> QED
    BY <2>2, <2>4, <2>5, <2>7 DEF Whole, b, t
<1>3. CASE UNCHANGED <<read, received, buf>>
  BY <1>3 DEF Whole
<1> QED
  BY <1>1, <1>2, <1>3 DEF Next, Send, ReadEnd

-----------------------------------------------------------------------------
(***************************************************************************)
(* The lines of a stream that grows by a byte.                             *)
(***************************************************************************)

\* The stream after another byte.
LEMMA Longer ==
  ASSUME Typed, NEW b \in Bytes, received' = Append(received, b)
  PROVE  /\ Len(received) \in Nat /\ Len(received') = Len(received) + 1
         /\ received'[Len(received) + 1] = b
         /\ \A k \in 1 .. Len(received) : received'[k] = received[k]
<1>1. received \in Seq(Bytes) /\ Len(received) \in Nat
  BY LenProperties DEF Typed
<1>2. received'[Len(received) + 1] = b
  BY <1>1
<1>3. \A k \in 1 .. Len(received) : received'[k] = received[k]
  BY <1>1
<1> QED
  BY <1>1, <1>2, <1>3

\* A byte that ends no line makes no line (encode.c, cm15a_encode).
LEMMA CollectSpans ==
  ASSUME Typed, NEW b \in Bytes, received' = Append(received, b), ~b.eol
  PROVE  Ends' = Ends /\ LineSpans' = LineSpans /\ LastEnd' = LastEnd
<1>1. /\ Len(received) \in Nat /\ Len(received') = Len(received) + 1
      /\ received'[Len(received) + 1] = b
      /\ \A k \in 1 .. Len(received) : received'[k] = received[k]
  BY Longer
<1>2. \A k : k \in 1 .. Len(received') <=> k \in 1 .. Len(received) \/ k = Len(received) + 1
  BY <1>1
<1>3. Ends' = Ends
  BY <1>1, <1>2 DEF Ends
<1>4. LastEnd' = LastEnd
  BY <1>3 DEF LastEnd
<1>5. \A j \in Ends : j \in 1 .. Len(received)
  BY DEF Ends
<1>6. \A s : s \in (1 .. Len(received')) \X Ends /\ s[1] < s[2]
               <=> s \in (1 .. Len(received)) \X Ends /\ s[1] < s[2]
  BY <1>1, <1>5
<1>7. LineSpans' = LineSpans
  BY <1>3, <1>6 DEF LineSpans
<1> QED
  BY <1>3, <1>4, <1>7

\* A byte that ends a line makes one, unless the line is empty (encode.c,
\* cm15a_encode).
LEMMA EndSpans ==
  ASSUME Typed, LastEndIs, NEW b \in Bytes, received' = Append(received, b), b.eol
  PROVE  /\ Ends' = Ends \cup {Len(received) + 1} /\ LastEnd' = Len(received) + 1
         /\ LineSpans' = LineSpans \cup
              (IF LastEnd = Len(received) THEN {}
               ELSE {<<LastEnd + 1, Len(received) + 1>>})
<1> DEFINE L == Len(received)
<1>1. /\ L \in Nat /\ Len(received') = L + 1
      /\ received'[L + 1] = b
      /\ \A k \in 1 .. L : received'[k] = received[k]
  BY Longer
<1>2. \A k : k \in 1 .. Len(received') <=> k \in 1 .. L \/ k = L + 1
  BY <1>1
<1>3. Ends' = Ends \cup {L + 1}
  BY <1>1, <1>2 DEF Ends
<1>4. Ends \subseteq 1 .. L
  BY DEF Ends
<1>5. LastEnd' = L + 1
  <2>1. L + 1 \in Ends' /\ \A j \in Ends' : j <= L + 1
    BY <1>1, <1>3, <1>4
  <2>2. LastEnd' \in Ends' /\ \A j \in Ends' : j <= LastEnd'
    BY <2>1 DEF LastEnd
  <2> QED
    BY <1>1, <1>3, <1>4, <2>1, <2>2
<1>6. /\ LastEnd \in 0 .. L /\ (LastEnd # 0 => LastEnd \in Ends)
      /\ \A k \in Ends : k <= LastEnd
  BY DEF LastEndIs
<1> HIDE DEF L
<1>7. ASSUME NEW i \in 1 .. L + 1, NEW j \in Ends
      PROVE  <<i, j>> \in LineSpans' <=> <<i, j>> \in LineSpans
  <2>1. j \in 1 .. L
    BY <1>4
  <2>2. i < j => \A k \in i .. j - 1 : k \in Ends' <=> k \in Ends
    BY <1>1, <1>3, <2>1
  <2>3. i < j => (i - 1 \in Ends' <=> i - 1 \in Ends)
    BY <1>1, <1>3, <2>1
  <2>4. i < j => i \in 1 .. L
    BY <1>1, <2>1
  <2> QED
    BY <1>1, <1>3, <2>2, <2>3, <2>4 DEF LineSpans, L
<1>8. ASSUME NEW i \in 1 .. L + 1
      PROVE  <<i, L + 1>> \in LineSpans' <=> i = LastEnd + 1 /\ LastEnd # L
  <2>1. <<i, L + 1>> \in LineSpans'
          <=> /\ i < L + 1 /\ \A k \in i .. L : k \notin Ends'
              /\ i = 1 \/ i - 1 \in Ends'
    BY <1>1, <1>3 DEF LineSpans
  <2>2. i < L + 1 => /\ \A k \in i .. L : k \in Ends' <=> k \in Ends
                     /\ i - 1 \in Ends' <=> i - 1 \in Ends
    BY <1>1, <1>3
  <2>3. ASSUME i < L + 1, \A k \in i .. L : k \notin Ends, i = 1 \/ i - 1 \in Ends
        PROVE  i = LastEnd + 1
    <3>1. ~(LastEnd \in i .. L)
      BY <1>1, <1>6, <2>3
    <3>2. i - 1 <= LastEnd
      BY <1>6, <2>3
    <3> QED
      BY <1>1, <1>6, <3>1, <3>2
  <2>4. ASSUME i = LastEnd + 1, LastEnd # L
        PROVE  i < L + 1 /\ (\A k \in i .. L : k \notin Ends) /\ (i = 1 \/ i - 1 \in Ends)
    BY <1>1, <1>6, <2>4
  <2> QED
    BY <2>1, <2>2, <2>3, <2>4
<1>9. LineSpans' = LineSpans \cup
        (IF LastEnd = L THEN {} ELSE {<<LastEnd + 1, L + 1>>})
  <2>1. ASSUME NEW s \in LineSpans'
        PROVE  s \in LineSpans \/ (LastEnd # L /\ s = <<LastEnd + 1, L + 1>>)
    <3>1. PICK i \in 1 .. L + 1, j \in Ends' : s = <<i, j>>
      BY <1>1 DEF LineSpans
    <3> QED
      BY <1>3, <1>7, <1>8, <3>1
  <2>2. ASSUME NEW s \in LineSpans PROVE s \in LineSpans'
    <3>1. PICK i \in 1 .. L, j \in Ends : s = <<i, j>>
      BY DEF LineSpans, L
    <3> QED
      BY <1>1, <1>7, <3>1
  <2>3. LastEnd # L => <<LastEnd + 1, L + 1>> \in LineSpans'
    BY <1>1, <1>6, <1>8
  <2> QED
    BY <2>1, <2>2, <2>3
<1> QED
  BY <1>3, <1>5, <1>9 DEF L

\* The bytes since the last end of a line.
Rest == SubSeq(received, LastEnd + 1, Len(received))

RestIs ==
  /\ Rest \in Seq(Bytes) /\ Len(Rest) = Len(received) - LastEnd
  /\ \A k \in 1 .. Len(received) - LastEnd : Rest[k] = received[LastEnd + k]

LEMMA RestNow == Typed /\ LastEndIs => RestIs
<1> SUFFICES ASSUME Typed, LastEndIs PROVE RestIs
  OBVIOUS
<1>1. received \in Seq(Bytes) /\ Len(received) \in Nat /\ LastEnd \in 0 .. Len(received)
  BY LenProperties DEF Typed, LastEndIs
<1>2. \A k \in LastEnd + 1 .. Len(received) : received[k] \in Bytes
  BY <1>1, ElementOfSeq
<1>3. /\ Rest \in Seq(Bytes)
      /\ Len(Rest) = IF LastEnd + 1 <= Len(received)
                     THEN Len(received) - (LastEnd + 1) + 1 ELSE 0
      /\ \A k \in 1 .. Len(received) - (LastEnd + 1) + 1 :
           Rest[k] = received[LastEnd + 1 + k - 1]
  BY <1>1, <1>2, SubSeqProperties DEF Rest
<1>4. Len(Rest) = Len(received) - LastEnd
  BY <1>1, <1>3
<1>5. \A k \in 1 .. Len(received) - LastEnd : Rest[k] = received[LastEnd + k]
  BY <1>1, <1>3
<1> QED
  BY <1>3, <1>4, <1>5 DEF RestIs

LEMMA RestNext == Typed' /\ LastEndIs' => RestIs'
BY RestNow, PTL

\* A piece of the stream stays what it is when more bytes come.
LEMMA PieceStays ==
  ASSUME Typed, NEW b \in Bytes, received' = Append(received, b),
         NEW i \in 1 .. Len(received) + 1, NEW j \in 0 .. Len(received)
  PROVE  SubSeq(received', i, j) = SubSeq(received, i, j)
<1>1. /\ received \in Seq(Bytes) /\ Len(received) \in Nat
      /\ \A k \in 1 .. Len(received) : received'[k] = received[k] /\ received[k] \in Bytes
  BY Longer, LenProperties, ElementOfSeq DEF Typed
<1>2. i \in Int /\ j \in Int /\ \A k \in i .. j : k \in 1 .. Len(received)
  BY <1>1
<1>3. /\ SubSeq(received, i, j) \in Seq(Bytes)
      /\ Len(SubSeq(received, i, j)) = IF i <= j THEN j - i + 1 ELSE 0
      /\ \A k \in 1 .. j - i + 1 : SubSeq(received, i, j)[k] = received[i + k - 1]
  BY <1>1, <1>2, SubSeqProperties
<1>4. /\ SubSeq(received', i, j) \in Seq(Bytes)
      /\ Len(SubSeq(received', i, j)) = IF i <= j THEN j - i + 1 ELSE 0
      /\ \A k \in 1 .. j - i + 1 : SubSeq(received', i, j)[k] = received'[i + k - 1]
  BY <1>1, <1>2, SubSeqProperties
<1>5. \A k \in 1 .. Len(SubSeq(received, i, j)) :
        SubSeq(received, i, j)[k] = SubSeq(received', i, j)[k]
  <2>1. \A k \in 1 .. Len(SubSeq(received, i, j)) :
          k \in 1 .. j - i + 1 /\ i + k - 1 \in 1 .. Len(received)
    BY <1>1, <1>3
  <2> QED
    BY <1>1, <1>3, <1>4, <2>1
<1> QED
  BY <1>3, <1>4, <1>5, SeqEqual

\* Where a line starts and ends, and what it is once another byte has come.
LEMMA OldLines ==
  ASSUME Typed, NEW b \in Bytes, received' = Append(received, b), NEW s \in LineSpans
  PROVE  /\ s[1] \in 1 .. Len(received) /\ s[2] \in 1 .. Len(received)
         /\ SubSeq(received', s[1], s[2] - 1) = SubSeq(received, s[1], s[2] - 1)
<1>1. s[1] \in 1 .. Len(received) /\ s[2] \in 1 .. Len(received) /\ Len(received) \in Nat
  BY LenProperties DEF LineSpans, Ends, Typed
<1>2. s[1] \in 1 .. Len(received) + 1 /\ s[2] - 1 \in 0 .. Len(received)
  BY <1>1
<1>3. SubSeq(received', s[1], s[2] - 1) = SubSeq(received, s[1], s[2] - 1)
  BY <1>2, PieceStays
<1> QED
  BY <1>1, <1>3

\* The number of a line is an index of lines.
LEMMA RankOfLine ==
  ASSUME IsFiniteSet(LineSpans), NEW span \in LineSpans, span[2] \in Nat
  PROVE  /\ Rank(span) \in 1 .. Cardinality(LineSpans)
         /\ Cardinality(LineSpans) \in Nat
<1> DEFINE S == {s \in LineSpans : s[2] <= span[2]}
<1>1. S \in SUBSET LineSpans /\ span \in S
  OBVIOUS
<1>2. IsFiniteSet(S) /\ Cardinality(S) <= Cardinality(LineSpans)
  BY <1>1, FS_Subset
<1>3. Cardinality(S) \in Nat /\ Cardinality(LineSpans) \in Nat
  BY <1>2, FS_CardinalityType
<1>4. Cardinality(S) # 0
  BY <1>1, <1>2, FS_EmptySet
<1> QED
  BY <1>2, <1>3, <1>4 DEF Rank

LEMMA CollectStep ==
  ASSUME Inv, Typed', cm15a_encode, Collect
  PROVE  LastEndIs' /\ IsFiniteSet(LineSpans') /\ LinesAre'
<1> DEFINE b == Head(buf)
<1>1. /\ b \in Bytes /\ received' = Append(received, b) /\ ~b.eol
      /\ remainder' = Append(remainder, b) /\ lines' = lines
  BY HandleByte DEF Inv, Collect
<1> HIDE DEF b
<1>2. Ends' = Ends /\ LineSpans' = LineSpans /\ LastEnd' = LastEnd
  BY <1>1, CollectSpans DEF Inv
<1>3. /\ Len(received) \in Nat /\ Len(received') = Len(received) + 1
      /\ received'[Len(received) + 1] = b
      /\ \A k \in 1 .. Len(received) : received'[k] = received[k]
  BY <1>1, Longer DEF Inv
<1>4. LastEnd \in 0 .. Len(received) /\ LastEndIs'
  BY <1>2, <1>3 DEF Inv, LastEndIs
<1>5. remainder' = Rest'
  <2>1. remainder = Rest /\ RestIs /\ RestIs'
    BY <1>4, RestNow, RestNext DEF Inv, LinesAre, Rest
  <2>2. /\ remainder \in Seq(Bytes) /\ Len(remainder) = Len(received) - LastEnd
        /\ \A k \in 1 .. Len(received) - LastEnd : remainder[k] = received[LastEnd + k]
    BY <2>1 DEF RestIs
  <2>3. /\ Rest' \in Seq(Bytes) /\ Len(Rest') = Len(received) + 1 - LastEnd
        /\ \A k \in 1 .. Len(received) + 1 - LastEnd : Rest'[k] = received'[LastEnd + k]
    <3>1. /\ Rest' \in Seq(Bytes) /\ Len(Rest') = Len(received') - LastEnd'
          /\ \A k \in 1 .. Len(received') - LastEnd' : Rest'[k] = received'[LastEnd' + k]
      BY <2>1 DEF RestIs
    <3>2. Len(received') - LastEnd' = Len(received) + 1 - LastEnd
      BY <1>2, <1>3, <1>4
    <3> QED
      BY <1>2, <3>1, <3>2
  <2>4. remainder' \in Seq(Bytes) /\ Len(remainder') = Len(received) + 1 - LastEnd
    <3>1. remainder' \in Seq(Bytes) /\ Len(remainder') = Len(remainder) + 1
      BY <1>1, <2>2, AppendProperties
    <3> QED
      BY <1>3, <1>4, <2>2, <3>1
  <2>5. ASSUME NEW k \in 1 .. Len(received) + 1 - LastEnd PROVE remainder'[k] = Rest'[k]
    <3>1. CASE k \in 1 .. Len(received) - LastEnd
      <4>1. remainder'[k] = remainder[k]
        BY <1>1, <2>2, <3>1
      <4>2. LastEnd + k \in 1 .. Len(received)
        BY <1>3, <1>4, <3>1
      <4> QED
        BY <1>3, <2>2, <2>3, <3>1, <4>1, <4>2
    <3>2. CASE k = Len(received) + 1 - LastEnd
      <4>1. k = Len(remainder) + 1 /\ LastEnd + k = Len(received) + 1
        BY <1>3, <1>4, <2>2, <3>2
      <4>2. remainder'[k] = b
        BY <1>1, <2>2, <4>1
      <4> QED
        BY <1>3, <2>3, <4>1, <4>2
    <3> QED
      BY <1>3, <1>4, <3>1, <3>2
  <2> QED
    BY <2>3, <2>4, <2>5, SeqEqual
<1>6. ASSUME NEW span \in LineSpans
      PROVE  lines[Rank(span)].line = SubSeq(received', span[1], span[2] - 1)
  BY <1>1, OldLines DEF Inv, LinesAre
<1>7. \A span \in LineSpans : Cardinality({s \in LineSpans' : s[2] <= span[2]}) = Rank(span)
  BY <1>2 DEF Rank
<1>8. LinesAre'
  BY <1>1, <1>2, <1>5, <1>6, <1>7 DEF Inv, LinesAre, Rest, Rank
<1> QED
  BY <1>2, <1>4, <1>8 DEF Inv

LEMMA EndLineStep ==
  ASSUME Inv, Typed', cm15a_encode, EndLine
  PROVE  LastEndIs' /\ IsFiniteSet(LineSpans') /\ LinesAre'
<1> DEFINE b == Head(buf)
           L == Len(received)
           new == <<LastEnd + 1, L + 1>>
<1>1. /\ b \in Bytes /\ received' = Append(received, b) /\ b.eol /\ remainder' = <<>>
      /\ lines' = IF remainder = <<>> THEN lines
                  ELSE Append(lines, [client |-> fd, line |-> remainder])
  BY HandleByte DEF Inv, EndLine
<1> HIDE DEF b
<1>2. /\ Ends' = Ends \cup {L + 1} /\ LastEnd' = L + 1
      /\ LineSpans' = LineSpans \cup (IF LastEnd = L THEN {} ELSE {new})
  BY <1>1, EndSpans DEF Inv
<1>3. /\ L \in Nat /\ Len(received') = L + 1
      /\ \A k \in 1 .. L : received'[k] = received[k]
  BY <1>1, Longer DEF Inv
<1>4. LastEnd \in 0 .. L /\ \A k \in Ends : k \in 1 .. L
  BY DEF Inv, LastEndIs, Ends
<1>5. LastEndIs'
  <2>1. LastEnd' \in 0 .. Len(received') /\ LastEnd' \in Ends'
    BY <1>2, <1>3
  <2>2. \A k \in Ends' : k <= LastEnd'
    BY <1>2, <1>3, <1>4
  <2> QED
    BY <2>1, <2>2 DEF LastEndIs
<1>6. Rest' = <<>>
  BY <1>2, <1>3, SubSeqEmpty DEF Rest
<1>7. remainder = Rest /\ RestIs
  BY RestNow DEF Inv, LinesAre, Rest
<1>8. remainder \in Seq(Bytes) /\ (remainder = <<>> <=> LastEnd = L)
  <2>1. remainder \in Seq(Bytes) /\ Len(remainder) = L - LastEnd
    BY <1>7 DEF RestIs
  <2>2. remainder = <<>> <=> Len(remainder) = 0
    BY <2>1, EmptySeq
  <2> QED
    BY <1>3, <1>4, <2>1, <2>2
<1>9. /\ lines \in Seq(Line) /\ Len(lines) = Cardinality(LineSpans)
      /\ IsFiniteSet(LineSpans)
  BY DEF Inv, Typed, LinesAre
<1>10. Cardinality(LineSpans) \in Nat
  BY <1>9, FS_CardinalityType
<1>11. ASSUME NEW s \in LineSpans
       PROVE  /\ s[1] \in 1 .. L /\ s[2] \in 1 .. L /\ s[2] \in Nat
              /\ Rank(s) \in 1 .. Len(lines)
              /\ lines[Rank(s)].line = SubSeq(received', s[1], s[2] - 1)
  <2>1. /\ s[1] \in 1 .. L /\ s[2] \in 1 .. L
        /\ SubSeq(received', s[1], s[2] - 1) = SubSeq(received, s[1], s[2] - 1)
    BY <1>1, OldLines DEF Inv
  <2>2. s[2] \in Nat
    BY <1>3, <2>1
  <2>3. Rank(s) \in 1 .. Cardinality(LineSpans)
    BY <1>9, <2>2, RankOfLine
  <2>4. lines[Rank(s)].line = SubSeq(received, s[1], s[2] - 1)
    BY DEF Inv, LinesAre
  <2> QED
    BY <1>9, <2>1, <2>2, <2>3, <2>4
<1>12. CASE remainder = <<>>
  <2>1. lines' = lines /\ LineSpans' = LineSpans
    BY <1>1, <1>2, <1>8, <1>12
  <2>2. \A s \in LineSpans : Cardinality({t \in LineSpans' : t[2] <= s[2]}) = Rank(s)
    BY <2>1 DEF Rank
  <2>3. LinesAre'
    BY <1>1, <1>6, <1>9, <1>11, <2>1, <2>2 DEF LinesAre, Rest, Rank
  <2> QED
    BY <1>5, <1>9, <2>1, <2>3
<1>13. CASE remainder # <<>>
  <2>1. /\ lines' = Append(lines, [client |-> fd, line |-> remainder])
        /\ LineSpans' = LineSpans \cup {new} /\ LastEnd # L
    BY <1>1, <1>2, <1>8, <1>13
  <2>2. new[1] = LastEnd + 1 /\ new[2] = L + 1
    OBVIOUS
  <2> HIDE DEF new
  <2>3. \A s \in LineSpans : s[2] < new[2]
    BY <1>3, <1>11, <2>2
  <2>4. new \notin LineSpans
    BY <1>3, <1>11, <2>2
  <2>5. IsFiniteSet(LineSpans') /\ Cardinality(LineSpans') = Len(lines) + 1
    BY <1>9, <2>1, <2>4, FS_AddElement
  <2>6. /\ Len(lines) \in Nat /\ Len(lines') = Len(lines) + 1
        /\ lines'[Len(lines) + 1] = [client |-> fd, line |-> remainder]
        /\ \A n \in 1 .. Len(lines) : lines'[n] = lines[n]
    <3>1. lines'[Len(lines) + 1] = [client |-> fd, line |-> remainder]
      BY <1>9, <1>10, <2>1
    <3>2. \A n \in 1 .. Len(lines) : lines'[n] = lines[n]
      BY <1>9, <1>10, <2>1
    <3>3. Len(lines') = Len(lines) + 1
      BY <1>9, <2>1
    <3> QED
      BY <1>9, <1>10, <3>1, <3>2, <3>3
  <2>7. ASSUME NEW s \in LineSpans
        PROVE  lines'[Cardinality({t \in LineSpans' : t[2] <= s[2]})].line
                 = SubSeq(received', s[1], s[2] - 1)
    <3>1. {t \in LineSpans' : t[2] <= s[2]} = {t \in LineSpans : t[2] <= s[2]}
      <4>1. ~(new[2] <= s[2])
        BY <1>3, <1>11, <2>2
      <4> QED
        BY <2>1, <4>1
    <3>2. Cardinality({t \in LineSpans' : t[2] <= s[2]}) = Rank(s)
      BY <3>1 DEF Rank
    <3> QED
      BY <1>11, <2>6, <3>2
  <2>8. lines'[Cardinality({t \in LineSpans' : t[2] <= new[2]})].line
          = SubSeq(received', new[1], new[2] - 1)
    <3>1. \A t \in LineSpans' : t[2] <= new[2]
      BY <1>3, <1>11, <2>1, <2>2
    <3>2. Cardinality({t \in LineSpans' : t[2] <= new[2]}) = Len(lines) + 1
      <4>1. {t \in LineSpans' : t[2] <= new[2]} = LineSpans'
        BY <3>1
      <4> QED
        BY <2>5, <4>1
    <3>3. SubSeq(received', LastEnd + 1, L) = SubSeq(received, LastEnd + 1, L)
      BY <1>1, <1>3, <1>4, PieceStays DEF Inv
    <3>4. new[2] - 1 = L
      BY <1>3, <2>2
    <3>5. lines'[Cardinality({t \in LineSpans' : t[2] <= new[2]})].line = remainder
      BY <2>6, <3>2
    <3>6. SubSeq(received', new[1], new[2] - 1) = SubSeq(received', LastEnd + 1, L)
      BY <2>2, <3>4
    <3>7. remainder = SubSeq(received, LastEnd + 1, L)
      BY <1>7 DEF Rest
    <3> QED
      BY <3>3, <3>5, <3>6, <3>7
  <2>9. \A s \in LineSpans' :
          lines'[Cardinality({t \in LineSpans' : t[2] <= s[2]})].line
            = SubSeq(received', s[1], s[2] - 1)
    BY <2>1, <2>7, <2>8
  <2>10. LinesAre'
    BY <1>1, <1>6, <2>5, <2>6, <2>9 DEF LinesAre, Rest, Rank
  <2> QED
    BY <1>5, <2>5, <2>10
<1> QED
  BY <1>12, <1>13

-----------------------------------------------------------------------------
(***************************************************************************)
(* The whole specification.                                                *)
(***************************************************************************)

LEMMA InvInit == Init => Inv
<1> SUFFICES ASSUME Init PROVE Inv
  OBVIOUS
<1>1. /\ received = <<>> /\ read = <<>> /\ lines = <<>> /\ remainder = <<>>
      /\ closed = {} /\ buf = <<>>
  BY DEF Init
<1>2. Len(received) = 0 /\ Len(lines) = 0
  BY <1>1
<1>3. Typed
  BY <1>1, EmptySeq DEF Init, Typed, Running
<1>4. Ends = {} /\ LineSpans = {} /\ LastEnd = 0
  BY <1>2 DEF Ends, LineSpans, LastEnd
<1>5. LastEndIs
  BY <1>2, <1>4 DEF LastEndIs
<1>6. IsFiniteSet(LineSpans) /\ Cardinality(LineSpans) = 0
  BY <1>4, FS_EmptySet
<1>7. SubSeq(received, LastEnd + 1, Len(received)) = <<>>
  BY <1>2, <1>4, SubSeqEmpty
<1>8. LinesAre
  BY <1>1, <1>2, <1>4, <1>6, <1>7 DEF LinesAre
<1>9. Whole
  <2>1. read = <<>> /\ <<>> \o <<>> = <<>>
    BY DEF Init
  <2> QED
    BY <1>1, <2>1 DEF Whole
<1> QED
  BY <1>3, <1>5, <1>6, <1>8, <1>9 DEF Inv

LEMMA InvStep == Inv /\ [Next]_vars => Inv'
<1> SUFFICES ASSUME Inv, [Next]_vars PROVE Inv'
  OBVIOUS
<1>1. CASE UNCHANGED vars
  <2>1. Typed' /\ Whole'
    BY <1>1 DEF vars, Inv, Typed, Whole, Running
  <2>2. Ends' = Ends /\ LineSpans' = LineSpans /\ LastEnd' = LastEnd
    BY <1>1 DEF vars, Ends, LineSpans, LastEnd
  <2> QED
    BY <1>1, <2>1, <2>2 DEF vars, Inv, LastEndIs, LinesAre, Rank
<1>2. CASE Next
  <2>1. Typed' /\ Whole'
    BY <1>2, TypedStep, WholeStep DEF Inv
  <2>2. CASE cm15a_encode
    <3>1. LastEndIs' /\ IsFiniteSet(LineSpans') /\ LinesAre'
      BY <2>1, <2>2, CollectStep, EndLineStep DEF cm15a_encode
    <3> QED
      BY <2>1, <3>1 DEF Inv
  <2>3. CASE UNCHANGED <<remainder, received, lines>>
    <3>1. Ends' = Ends /\ LineSpans' = LineSpans /\ LastEnd' = LastEnd
      BY <2>3 DEF Ends, LineSpans, LastEnd
    <3> QED
      BY <2>1, <2>3, <3>1 DEF Inv, LastEndIs, LinesAre, Rank
  <2> QED
    BY <1>2, <2>2, <2>3 DEF Next, Send, Read, ReadEnd
<1> QED
  BY <1>1, <1>2

LEMMA InvHolds == Spec => []Inv
BY InvInit, InvStep, PTL DEF Spec

\* However TCP cuts what the clients send, for any number of clients and bytes,
\* the commands are the lines of what was read, in order, each once and none
\* empty, and remainder holds what follows (encode.c, cm15a_encode).
THEOREM LinesStream == Spec => []LinesAreTheStream
<1>1. Inv => LinesAreTheStream
  BY DEF Inv, LinesAre, Whole, LinesAreTheStream
<1> QED
  BY <1>1, InvHolds, PTL

=============================================================================
