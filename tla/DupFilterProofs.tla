--------------------------- MODULE DupFilterProofs ---------------------------
(***************************************************************************)
(* Theorems about dup_filter, for every table size, window and clock.      *)
(*                                                                         *)
(* That a drop has an original needs to know where an entry comes from:    *)
(* its time is DUP_TIME after its command was last let through (Booked),   *)
(* which in turn needs that a command has one entry only.  Which entry a   *)
(* full table gives up does not matter here.                               *)
(*                                                                         *)
(* That copies are filtered needs where a command can be that was let      *)
(* through (Remembered): in the table, out of its window, or pushed out of *)
(* a table that was full of others.  The last case is a count, and it only *)
(* needs that the new command gets a place: what the recursive search of   *)
(* the victim returns is an entry (VictimInTable).                         *)
(***************************************************************************)
EXTENDS DupFilter, WellFoundedInduction, FiniteSetTheorems, TLAPS

\* An entry in use expires DUP_TIME after the dup_filter call that let its
\* command through.
Booked ==
  \A i \in Index :
    Used(dups[i]) => /\ lastPass[dups[i].cmd] # Never
                     /\ dups[i].timems = lastPass[dups[i].cmd] + DUP_TIME

Inv == TypeOK /\ Booked /\ OneEntryEach /\ DroppedOnlyAsCopy

\* The loop of dup_filter marks entries unused and changes nothing else.
LEMMA Sweep ==
  ASSUME TypeOK, NEW n
  PROVE  /\ SweptBefore(n) \in [Index -> [timems : Nat, cmd : Cmds \cup {None}]]
         /\ \A j \in Index : Used(SweptBefore(n)[j]) => SweptBefore(n)[j] = dups[j]
<1> DEFINE old == [timems : Nat, cmd : Cmds \cup {None}]
<1>1. \A j \in Index : dups[j] \in old /\ [dups[j] EXCEPT !.cmd = None] \in old
  BY DEF TypeOK
<1>2. \A j \in Index : ~Used([dups[j] EXCEPT !.cmd = None])
  BY <1>1 DEF Used
<1> QED
  BY <1>1, <1>2 DEF SweptBefore

\* What dup_filter writes into the table.
LEMMA NewEntry ==
  ASSUME NEW t \in Nat, now' = t, NEW cmd \in Cmds
  PROVE  /\ Entry(cmd) \in [timems : Nat, cmd : Cmds \cup {None}]
         /\ Entry(cmd).timems = now' + DUP_TIME /\ Entry(cmd).cmd = cmd
BY TableAssumption DEF Entry

\* Writing the entry of a command that has no other one, and letting the
\* command through, keeps the table in order.
LEMMA WriteEntry ==
  ASSUME Inv, NEW t \in Nat, now' = t, now \in Nat,
         NEW cmd \in Cmds, NEW n, NEW k,
         \A i \in Holding(cmd) : i = k,
         dups' = [SweptBefore(n) EXCEPT ![k] = Entry(cmd)],
         Passes(cmd)
  PROVE  Inv'
<1> DEFINE old == [timems : Nat, cmd : Cmds \cup {None}]
<1> DEFINE swept == SweptBefore(n)
<1>1. /\ swept \in [Index -> old]
      /\ \A j \in Index : Used(swept[j]) => swept[j] = dups[j]
  BY Sweep DEF Inv
<1>2. Entry(cmd) \in old /\ Entry(cmd).timems = now' + DUP_TIME /\ Entry(cmd).cmd = cmd
  BY NewEntry
<1> HIDE DEF swept
<1>3. dups' \in [Index -> old]
  BY <1>1, <1>2 DEF swept
<1>4. \A j \in Index : \/ j = k /\ dups'[j] = Entry(cmd)
                       \/ j # k /\ dups'[j] = swept[j]
  BY <1>1 DEF swept
<1>5. lastPass' = [lastPass EXCEPT ![cmd] = now']
      /\ verdict' = [cmd |-> cmd, dropped |-> FALSE, at |-> now]
  BY DEF Passes
<1>6. TypeOK'
  BY <1>3, <1>5 DEF Inv, TypeOK
<1>7. \A j \in Index : Used(dups'[j]) => \/ j = k /\ dups'[j] = Entry(cmd)
                                         \/ /\ j # k /\ dups'[j] = dups[j]
                                            /\ Used(dups[j]) /\ dups[j].cmd # cmd
  BY <1>1, <1>4 DEF Holding
<1>8. Booked'
  <2> SUFFICES ASSUME NEW j \in Index, Used(dups'[j])
               PROVE  /\ lastPass'[dups'[j].cmd] # Never
                      /\ dups'[j].timems = lastPass'[dups'[j].cmd] + DUP_TIME
    BY DEF Booked, Used
  <2>1. CASE j = k /\ dups'[j] = Entry(cmd)
    <3>1. lastPass'[cmd] = now'
      BY <1>5 DEF Inv, TypeOK
    <3> QED
      BY <1>2, <2>1, <3>1 DEF Never
  <2>2. CASE dups'[j] = dups[j] /\ Used(dups[j]) /\ dups[j].cmd # cmd
    <3>1. dups[j].cmd \in Cmds
      BY <2>2 DEF Inv, TypeOK, Used
    <3>2. lastPass'[dups[j].cmd] = lastPass[dups[j].cmd]
      BY <1>5, <2>2, <3>1 DEF Inv, TypeOK
    <3> QED
      BY <2>2, <3>2 DEF Inv, Booked
  <2> QED
    BY <1>7, <2>1, <2>2
<1>9. OneEntryEach'
  <2> SUFFICES ASSUME NEW i \in Index, NEW j \in Index,
                      Used(dups'[i]), dups'[i].cmd = dups'[j].cmd
               PROVE  i = j
    BY DEF OneEntryEach, Used
  <2>1. Used(dups'[j])
    BY DEF Used
  <2> QED
    BY <1>2, <1>7, <2>1 DEF Inv, OneEntryEach
<1>10. DroppedOnlyAsCopy'
  BY <1>5 DEF DroppedOnlyAsCopy
<1> QED
  BY <1>6, <1>8, <1>9, <1>10 DEF Inv

LEMMA DropStep ==
  ASSUME Inv, NEW t \in Nat, now' = t, NEW cmd \in Cmds, Drop(cmd)
  PROVE  Inv'
<1>1. PICK i \in Holding(cmd) :
        /\ ~Expired(dups[i])
        /\ dups' = SweptBefore(i)
        /\ verdict' = [cmd |-> cmd, dropped |-> TRUE, at |-> now]
        /\ UNCHANGED lastPass
  BY DEF Drop
<1>2. /\ dups' \in [Index -> [timems : Nat, cmd : Cmds \cup {None}]]
      /\ \A j \in Index : Used(dups'[j]) => dups'[j] = dups[j]
  BY <1>1, Sweep DEF Inv
<1>3. i \in Index /\ dups[i].cmd = cmd /\ Used(dups[i])
  BY CmdsAssumption DEF Holding, Used
<1>4. TypeOK'
  BY <1>1, <1>2 DEF Inv, TypeOK
<1>5. Booked'
  BY <1>1, <1>2 DEF Inv, Booked, Used
<1>6. OneEntryEach'
  BY <1>2 DEF Inv, OneEntryEach, Used
<1>7. lastPass[cmd] # Never /\ dups[i].timems = lastPass[cmd] + DUP_TIME
  BY <1>3 DEF Inv, Booked
<1>8. now <= lastPass[cmd] + DUP_TIME
  <2>1. dups[i].timems \in Nat /\ now \in Nat
    BY <1>3 DEF Inv, TypeOK
  <2> QED
    BY <1>1, <1>7, <2>1 DEF Expired
<1>9. DroppedOnlyAsCopy'
  BY <1>1, <1>7, <1>8 DEF DroppedOnlyAsCopy
<1> QED
  BY <1>4, <1>5, <1>6, <1>9 DEF Inv

LEMMA ReuseStep ==
  ASSUME Inv, NEW t \in Nat, now' = t, NEW cmd \in Cmds, Reuse(cmd)
  PROVE  Inv'
<1>1. PICK k \in Holding(cmd) :
        dups' = [SweptBefore(k) EXCEPT ![k] = Entry(cmd)] /\ Passes(cmd)
  BY DEF Reuse
<1>2. \A i \in Holding(cmd) : i = k
  BY CmdsAssumption DEF Inv, OneEntryEach, Holding, Used
<1>3. now \in Nat
  BY DEF Inv, TypeOK
<1> QED
  BY <1>1, <1>2, <1>3, WriteEntry

LEMMA AddStep ==
  ASSUME Inv, NEW t \in Nat, now' = t, NEW cmd \in Cmds, Add(cmd)
  PROVE  Inv'
<1>1. Holding(cmd) = {} /\ Passes(cmd)
  BY DEF Add
<1>2. PICK k : dups' = [SweptBefore(DUP_MAX) EXCEPT ![k] = Entry(cmd)]
  BY DEF Add
<1>3. now \in Nat
  BY DEF Inv, TypeOK
<1> QED
  BY <1>1, <1>2, <1>3, WriteEntry

LEMMA InvInit == Init => Inv
<1> SUFFICES ASSUME Init PROVE Inv
  OBVIOUS
<1>1. TypeOK
  BY ClockAssumption DEF Init, TypeOK, Never
<1>2. Booked /\ OneEntryEach /\ DroppedOnlyAsCopy
  BY DEF Init, Booked, OneEntryEach, DroppedOnlyAsCopy, Used
<1> QED
  BY <1>1, <1>2 DEF Inv

LEMMA InvStep == Inv /\ [Next]_vars => Inv'
<1> SUFFICES ASSUME Inv, [Next]_vars PROVE Inv'
  OBVIOUS
<1>1. now \in Nat
  BY DEF Inv, TypeOK
<1>2. CASE UNCHANGED <<dups, verdict, lastPass>> /\ now' \in Nat
  BY <1>2 DEF Inv, TypeOK, Booked, OneEntryEach, DroppedOnlyAsCopy, Used
<1>3. CASE Tick
  <2>1. now' \in Nat /\ UNCHANGED <<dups, verdict, lastPass>>
    BY <1>1, <1>3, ClockAssumption DEF Tick
  <2> QED
    BY <1>2, <2>1
<1>4. CASE \E cmd \in Cmds : dup_filter(cmd)
  <2>1. PICK cmd \in Cmds : dup_filter(cmd)
    BY <1>4
  <2>2. now' \in Nat /\ (Drop(cmd) \/ Reuse(cmd) \/ Add(cmd))
    BY <1>1, <2>1 DEF dup_filter
  <2> QED
    BY <2>2, DropStep, ReuseStep, AddStep
<1>5. CASE UNCHANGED vars
  BY <1>1, <1>2, <1>5 DEF vars
<1> QED
  BY <1>3, <1>4, <1>5 DEF Next

LEMMA InvariantHolds == Spec => []Inv
<1> QED
  BY InvInit, InvStep, PTL DEF Spec

\* The table of dup_filter keeps its type.
THEOREM TypeCorrect == Spec => []TypeOK
<1>1. Inv => TypeOK
  BY DEF Inv
<1> QED
  BY <1>1, InvariantHolds, PTL

\* No command has a second entry in dups that the loop of dup_filter would
\* never look at.
THEOREM NoSecondEntry == Spec => []OneEntryEach
<1>1. Inv => OneEntryEach
  BY DEF Inv
<1> QED
  BY <1>1, InvariantHolds, PTL

\* dup_filter drops nothing but copies of what it let through in the window.
THEOREM DropsOnlyCopies == Spec => []DroppedOnlyAsCopy
<1>1. Inv => DroppedOnlyAsCopy
  BY DEF Inv
<1> QED
  BY <1>1, InvariantHolds, PTL

-----------------------------------------------------------------------------
(***************************************************************************)
(* The search for a victim.  SearchTo is recursive: that there is a        *)
(* function with its equation, and what it returns, is shown for the least *)
(* entry for which it would be false.                                      *)
(***************************************************************************)

\* A least element, where a definition CHOOSEs one.
LEMMA NatMin ==
  ASSUME NEW T, T \subseteq Nat, T # {}
  PROVE  \E x \in T : \A y \in T : x <= y
<1> DEFINE R == OpToRel(<, Nat)
<1>1. IsWellFoundedOn(R, Nat)
  BY NatLessThanWellFounded
<1>2. \A x, y \in Nat : <<x, y>> \in R <=> x < y
  BY DEF OpToRel
<1> HIDE DEF R
<1>3. PICK x \in T : \A y \in T : ~(<<y, x>> \in R)
  BY <1>1, WFMin
<1>4. ASSUME NEW y \in T PROVE x <= y
  <2>1. x \in Nat /\ y \in Nat /\ ~(<<y, x>> \in R)
    BY <1>3
  <2>2. ~(y < x)
    BY <1>2, <2>1
  <2> QED
    BY <2>1, <2>2
<1> QED
  BY <1>4

\* The search after entry i, from the search s after the one before.
Searched(s, i) ==
  IF i = 0 THEN [min |-> ToInt(dups[0].timems), add_index |-> 0]
  ELSE IF BelowInt(dups[i].timems, s[i - 1].min)
       THEN [min |-> ToInt(dups[i].timems), add_index |-> i] ELSE s[i - 1]

\* The loop is a function: up to any entry there is one that satisfies its equation.
LEMMA SearchExists ==
  ASSUME NEW n \in Index
  PROVE  \E s : s = [i \in 0 .. n |-> Searched(s, i)]
<1> DEFINE Good(m) == \E s : s = [i \in 0 .. m |-> Searched(s, i)]
           Bad == {m \in Nat : ~Good(m)}
<1>1. n \in Nat
  BY TableAssumption DEF Index
<1>2. SUFFICES ASSUME Bad # {} PROVE FALSE
  BY <1>1
<1>3. PICK m \in Bad : \A k \in Bad : m <= k
  BY <1>2, NatMin
<1>4. m \in Nat /\ ~Good(m)
  BY <1>3
<1>5. CASE m = 0
  <2> DEFINE s == [i \in 0 .. 0 |-> [min |-> ToInt(dups[0].timems), add_index |-> 0]]
  <2>1. s = [i \in 0 .. 0 |-> Searched(s, i)]
    BY DEF Searched
  <2> QED
    BY <1>4, <1>5, <2>1
<1>6. CASE m # 0
  <2>1. m - 1 \in Nat /\ ~(m <= m - 1)
    BY <1>4, <1>6
  <2>2. Good(m - 1)
    BY <1>3, <2>1
  <2>3. PICK g : g = [i \in 0 .. m - 1 |-> Searched(g, i)]
    BY <2>2
  <2> DEFINE s == [i \in 0 .. m |-> IF i = m THEN Searched(g, m) ELSE g[i]]
  <2>4. ASSUME NEW i \in 0 .. m PROVE s[i] = Searched(s, i)
    <3>1. CASE i = m
      <4>1. s[i] = Searched(g, i) /\ s[i - 1] = g[i - 1]
        BY <1>4, <1>6, <3>1
      <4> QED
        BY <4>1 DEF Searched
    <3>2. CASE i # m
      <4>1. i \in 0 .. m - 1 /\ s[i] = g[i]
        BY <1>4, <3>2
      <4>2. g[i] = Searched(g, i)
        BY <2>3, <4>1
      <4>3. i # 0 => s[i - 1] = g[i - 1]
        BY <1>4, <4>1
      <4> QED
        BY <4>1, <4>2, <4>3 DEF Searched
    <3> QED
      BY <3>1, <3>2
  <2> HIDE DEF s
  <2>5. s = [i \in 0 .. m |-> Searched(s, i)]
    <3>1. s = [i \in 0 .. m |-> s[i]]
      BY DEF s
    <3> QED
      BY <2>4, <3>1
  <2> QED
    BY <1>4, <2>5
<1> QED
  BY <1>5, <1>6

LEMMA SearchIs == SearchTo = [i \in Index |-> Searched(SearchTo, i)]
<1>1. DUP_MAX - 1 \in Index /\ Index = 0 .. DUP_MAX - 1
  BY TableAssumption DEF Index
<1>2. \E s : s = [i \in Index |-> Searched(s, i)]
  BY <1>1, SearchExists
<1> QED
  BY <1>2 DEF SearchTo, Searched

LEMMA VictimInTable == Victim \in Index
<1> DEFINE Bad == {i \in Index : SearchTo[i].add_index \notin Index}
<1>1. Index \subseteq Nat /\ DUP_MAX - 1 \in Index /\ 0 \in Index
      /\ \A i \in Index : i # 0 => i - 1 \in Index
  BY TableAssumption DEF Index
<1>2. SUFFICES ASSUME Bad # {} PROVE FALSE
  BY <1>1 DEF Victim
<1>3. PICK i \in Bad : \A k \in Bad : i <= k
  BY <1>1, <1>2, NatMin
<1>4. SearchTo[i] = Searched(SearchTo, i)
  BY SearchIs
<1>5. CASE i = 0
  BY <1>1, <1>3, <1>4, <1>5 DEF Searched
<1>6. CASE i # 0
  <2>1. i - 1 \in Index /\ ~(i <= i - 1)
    BY <1>1, <1>6
  <2>2. SearchTo[i - 1].add_index \in Index
    BY <1>3, <2>1
  <2> QED
    BY <1>3, <1>4, <1>6, <2>2 DEF Searched
<1> QED
  BY <1>5, <1>6

-----------------------------------------------------------------------------
(***************************************************************************)
(* Copies that get through                                                 *)
(***************************************************************************)

Heard == {c \in Cmds : lastPass[c] # Never}

\* A command that was let through has its entry, or its window is over, or as
\* many others as there are entries were let through around it.
Remembered ==
  \A c \in Heard :
    /\ lastPass[c] <= now
    /\ \/ Holding(c) # {}
       \/ now > lastPass[c] + DUP_TIME
       \/ Cardinality(PassedAround(c)) >= DUP_MAX

CopyInv == Inv /\ IsFiniteSet(Heard) /\ Remembered

\* What the loop does to an entry.
LEMMA SweptOne ==
  ASSUME Inv, NEW n, NEW i \in Index
  PROVE  \/ SweptBefore(n)[i] = dups[i]
         \/ Used(dups[i]) /\ Expired(dups[i])
BY DEF SweptBefore

\* After the whole loop an entry in use has not expired.
LEMMA SweptAll ==
  ASSUME Inv, NEW i \in Index, Used(SweptBefore(DUP_MAX)[i])
  PROVE  Used(dups[i]) /\ ~Expired(dups[i])
<1>1. i < DUP_MAX
  BY TableAssumption DEF Index
<1>2. dups[i] \in [timems : Nat, cmd : Cmds \cup {None}]
  BY DEF Inv, TypeOK
<1>3. ~Used([dups[i] EXCEPT !.cmd = None])
  BY <1>2 DEF Used
<1> QED
  BY <1>1, <1>3 DEF SweptBefore

\* A full table of entries that have not expired: the command of each but one
\* entry, and the new command, were let through around that one.
LEMMA FullTable ==
  ASSUME CopyInv, NEW t \in Nat, now' = t, t >= now, NEW cmd \in Cmds, Passes(cmd),
         Holding(cmd) = {}, \A i \in Index : Used(dups[i]) /\ ~Expired(dups[i]),
         NEW c \in Heard, c # cmd, Holding(c) # {}
  PROVE  Cardinality(PassedAround(c)') >= DUP_MAX
<1> DEFINE D == {dups[i].cmd : i \in Index}
           N == (D \ {c}) \cup {cmd}
<1>1. /\ lastPass' = [lastPass EXCEPT ![cmd] = t] /\ lastPass \in [Cmds -> Nat \cup {Never}]
      /\ now \in Nat /\ c \in Cmds /\ lastPass[c] \in Nat /\ lastPass[c] <= now
      /\ DUP_TIME \in Nat /\ DUP_MAX \in Nat
  BY TableAssumption DEF Passes, CopyInv, Inv, TypeOK, Remembered, Heard
<1>2. ASSUME NEW i \in Index
      PROVE  /\ dups[i].cmd \in Cmds /\ lastPass[dups[i].cmd] # Never
             /\ lastPass[dups[i].cmd] + DUP_TIME >= now
  <2>1. dups[i].cmd \in Cmds /\ dups[i].timems \in Nat
    BY DEF CopyInv, Inv, TypeOK, Used
  <2>2. lastPass[dups[i].cmd] # Never /\ dups[i].timems = lastPass[dups[i].cmd] + DUP_TIME
    BY DEF CopyInv, Inv, Booked
  <2> QED
    BY <1>1, <2>1, <2>2 DEF Expired
<1>3. cmd \notin D /\ c \in D
  BY DEF Holding
<1>4. IsFiniteSet(D) /\ Cardinality(D) = DUP_MAX
  <2> DEFINE f == [i \in Index |-> dups[i].cmd]
  <2>1. f \in Bijection(Index, D)
    <3>1. f \in [Index -> D] /\ \A d \in D : \E i \in Index : f[i] = d
      OBVIOUS
    <3>2. \A i, j \in Index : f[i] = f[j] => i = j
      BY DEF CopyInv, Inv, OneEntryEach
    <3> QED
      BY <3>1, <3>2 DEF Bijection, Injection, Surjection, IsInjective
  <2>2. IsFiniteSet(Index) /\ Cardinality(Index) = DUP_MAX
    BY TableAssumption, FS_Interval DEF Index
  <2> QED
    BY <2>1, <2>2, FS_Bijection DEF ExistsBijection
<1>5. IsFiniteSet(N) /\ Cardinality(N) = DUP_MAX
  <2>1. IsFiniteSet(D \ {c}) /\ Cardinality(D \ {c}) = DUP_MAX - 1
    BY <1>3, <1>4, FS_RemoveElement
  <2>2. cmd \notin D \ {c}
    BY <1>3
  <2>3. IsFiniteSet(N) /\ Cardinality(N) = Cardinality(D \ {c}) + 1
    BY <2>1, <2>2, FS_AddElement
  <2> QED
    BY <1>1, <2>1, <2>3
<1>6. N \subseteq PassedAround(c)'
  <2>1. lastPass'[c] = lastPass[c] /\ lastPass'[cmd] = t /\ t # Never
    BY <1>1 DEF Never
  <2>2. ASSUME NEW d \in D \ {c} PROVE d \in PassedAround(c)'
    <3>1. /\ d \in Cmds \ {c} /\ d # cmd /\ lastPass[d] # Never
          /\ lastPass[d] + DUP_TIME >= now
      BY <1>2, <1>3
    <3>2. lastPass'[d] = lastPass[d] /\ lastPass[d] \in Nat
      BY <1>1, <3>1
    <3>3. lastPass'[d] + DUP_TIME >= lastPass'[c]
      BY <1>1, <2>1, <3>1, <3>2
    <3> QED
      BY <3>1, <3>2, <3>3 DEF PassedAround
  <2>3. cmd \in PassedAround(c)'
    <3>1. lastPass'[cmd] + DUP_TIME >= lastPass'[c]
      BY <1>1, <2>1
    <3> QED
      BY <2>1, <3>1 DEF PassedAround
  <2> QED
    BY <2>2, <2>3
<1>7. IsFiniteSet(PassedAround(c)')
  <2>1. PassedAround(c)' \in SUBSET (Heard \cup {cmd})
    BY <1>1 DEF PassedAround, Heard
  <2>2. IsFiniteSet(Heard \cup {cmd})
    BY FS_AddElement DEF CopyInv
  <2> QED
    BY <2>1, <2>2, FS_Subset
<1>8. Cardinality(N) <= Cardinality(PassedAround(c)')
  BY <1>6, <1>7, FS_Subset
<1> QED
  BY <1>5, <1>8

\* The commands let through around one only become more.
LEMMA AroundGrows ==
  ASSUME CopyInv, NEW t \in Nat, now' = t, t >= now, NEW cmd \in Cmds, Passes(cmd),
         NEW c \in Heard, c # cmd
  PROVE  /\ lastPass'[c] = lastPass[c] /\ lastPass[c] \in Nat /\ lastPass[c] <= t
         /\ Cardinality(PassedAround(c)') >= Cardinality(PassedAround(c))
         /\ Cardinality(PassedAround(c)) \in Nat /\ Cardinality(PassedAround(c)') \in Nat
<1>1. /\ lastPass' = [lastPass EXCEPT ![cmd] = t] /\ lastPass \in [Cmds -> Nat \cup {Never}]
      /\ now \in Nat /\ c \in Cmds /\ lastPass[c] \in Nat /\ lastPass[c] <= now
      /\ DUP_TIME \in Nat
  BY TableAssumption DEF Passes, CopyInv, Inv, TypeOK, Remembered, Heard
<1>2. lastPass'[c] = lastPass[c] /\ lastPass[c] <= t
  BY <1>1
<1>3. ASSUME NEW d \in PassedAround(c) PROVE d \in PassedAround(c)'
  <2>1. d \in Cmds \ {c} /\ lastPass[d] # Never /\ lastPass[d] + DUP_TIME >= lastPass[c]
    BY DEF PassedAround
  <2>2. CASE d = cmd
    <3>1. lastPass'[d] = t /\ t # Never /\ t + DUP_TIME >= lastPass'[c]
      BY <1>1, <1>2, <2>2 DEF Never
    <3> QED
      BY <2>1, <3>1 DEF PassedAround
  <2>3. CASE d # cmd
    <3>1. lastPass'[d] = lastPass[d]
      BY <1>1, <2>1, <2>3
    <3> QED
      BY <1>2, <2>1, <3>1 DEF PassedAround
  <2> QED
    BY <2>2, <2>3
<1>4. IsFiniteSet(PassedAround(c)')
  <2>1. PassedAround(c)' \in SUBSET (Heard \cup {cmd})
    BY <1>1 DEF PassedAround, Heard
  <2>2. IsFiniteSet(Heard \cup {cmd})
    BY FS_AddElement DEF CopyInv
  <2> QED
    BY <2>1, <2>2, FS_Subset
<1>5. PassedAround(c) \in SUBSET (PassedAround(c)')
  BY <1>3
<1>6. IsFiniteSet(PassedAround(c))
      /\ Cardinality(PassedAround(c)) <= Cardinality(PassedAround(c)')
  BY <1>4, <1>5, FS_Subset
<1>7. Cardinality(PassedAround(c)) \in Nat /\ Cardinality(PassedAround(c)') \in Nat
  BY <1>4, <1>6, FS_CardinalityType
<1> QED
  BY <1>1, <1>2, <1>6, <1>7

\* A command is let through, and its entry takes slot k.
LEMMA PassRemembers ==
  ASSUME CopyInv, NEW t \in Nat, now' = t, t >= now, NEW cmd \in Cmds, Passes(cmd),
         NEW n, NEW k \in Index, dups' = [SweptBefore(n) EXCEPT ![k] = Entry(cmd)],
         \A c \in Heard \ {cmd} :
           k \in Holding(c) => \/ now > lastPass[c] + DUP_TIME
                               \/ Cardinality(PassedAround(c)') >= DUP_MAX
  PROVE  IsFiniteSet(Heard') /\ Remembered'
<1>1. /\ lastPass' = [lastPass EXCEPT ![cmd] = t] /\ lastPass \in [Cmds -> Nat \cup {Never}]
      /\ now \in Nat /\ DUP_TIME \in Nat /\ DUP_MAX \in Nat
  BY TableAssumption DEF Passes, CopyInv, Inv, TypeOK
<1>2. Heard' = Heard \cup {cmd}
  BY <1>1 DEF Heard, Never
<1>3. IsFiniteSet(Heard')
  BY <1>2, FS_AddElement DEF CopyInv
<1>4. /\ dups'[k] = Entry(cmd) /\ Entry(cmd).cmd = cmd
      /\ \A i \in Index \ {k} : dups'[i] = SweptBefore(n)[i]
  BY DEF SweptBefore, Entry
<1>5. lastPass'[cmd] <= now' /\ Holding(cmd)' # {}
  BY <1>1, <1>4 DEF Holding
<1>6. ASSUME NEW c \in Heard, c # cmd
      PROVE  /\ lastPass'[c] <= now'
             /\ \/ Holding(c)' # {}
                \/ now' > lastPass'[c] + DUP_TIME
                \/ Cardinality(PassedAround(c)') >= DUP_MAX
  <2>1. /\ lastPass'[c] = lastPass[c] /\ lastPass[c] \in Nat /\ lastPass[c] <= t
        /\ Cardinality(PassedAround(c)') >= Cardinality(PassedAround(c))
        /\ Cardinality(PassedAround(c)) \in Nat /\ Cardinality(PassedAround(c)') \in Nat
    BY <1>6, AroundGrows
  <2>2. ASSUME now > lastPass[c] + DUP_TIME PROVE now' > lastPass'[c] + DUP_TIME
    BY <1>1, <2>1, <2>2
  <2>3. CASE Holding(c) # {}
    <3>1. PICK i \in Index : i \in Holding(c) /\ dups[i].cmd = c
      BY <2>3 DEF Holding
    <3>2. CASE i = k
      BY <1>6, <2>1, <2>2, <3>1, <3>2
    <3>3. CASE i # k /\ SweptBefore(n)[i] = dups[i]
      BY <1>4, <2>1, <3>1, <3>3 DEF Holding
    <3>4. CASE Used(dups[i]) /\ Expired(dups[i])
      <4>1. dups[i].timems = lastPass[c] + DUP_TIME
        BY <3>1, <3>4 DEF CopyInv, Inv, Booked
      <4> QED
        BY <2>1, <2>2, <3>4, <4>1 DEF Expired
    <3> QED
      BY <3>2, <3>3, <3>4, SweptOne DEF CopyInv
  <2>4. CASE now > lastPass[c] + DUP_TIME
    BY <2>1, <2>2, <2>4
  <2>5. CASE Cardinality(PassedAround(c)) >= DUP_MAX
    BY <1>1, <2>1, <2>5
  <2> QED
    BY <2>3, <2>4, <2>5 DEF CopyInv, Remembered
<1> QED
  BY <1>2, <1>3, <1>5, <1>6 DEF Remembered

\* What a command that is let through says about the one it may be a copy of.
NoCopy(cmd) ==
  lastPass[cmd] # Never => \/ now > lastPass[cmd] + DUP_TIME
                           \/ Cardinality(PassedAround(cmd)) >= DUP_MAX

LEMMA ReuseRemembers ==
  ASSUME CopyInv, NEW t \in Nat, now' = t, t >= now, NEW cmd \in Cmds, Reuse(cmd)
  PROVE  IsFiniteSet(Heard') /\ Remembered' /\ NoCopy(cmd)
<1>1. PICK k \in Holding(cmd) :
        /\ Expired(dups[k]) /\ dups' = [SweptBefore(k) EXCEPT ![k] = Entry(cmd)]
        /\ Passes(cmd)
  BY DEF Reuse
<1>2. k \in Index /\ dups[k].cmd = cmd /\ Used(dups[k])
  BY CmdsAssumption DEF Holding, Used
<1>3. \A c \in Heard \ {cmd} : k \notin Holding(c)
  BY <1>2 DEF Holding
<1>4. IsFiniteSet(Heard') /\ Remembered'
  BY <1>1, <1>2, <1>3, PassRemembers
<1>5. dups[k].timems = lastPass[cmd] + DUP_TIME
  BY <1>2 DEF CopyInv, Inv, Booked
<1> QED
  BY <1>1, <1>4, <1>5 DEF NoCopy, Expired

LEMMA AddRemembers ==
  ASSUME CopyInv, NEW t \in Nat, now' = t, t >= now, NEW cmd \in Cmds, Add(cmd)
  PROVE  IsFiniteSet(Heard') /\ Remembered' /\ NoCopy(cmd)
<1> DEFINE swept == SweptBefore(DUP_MAX)
           unused == {i \in Index : ~Used(swept[i])}
           k == IF unused = {} THEN Victim
                ELSE CHOOSE i \in unused : \A j \in unused : i <= j
<1>1. /\ Holding(cmd) = {} /\ Passes(cmd)
      /\ dups' = [swept EXCEPT ![k] = Entry(cmd)]
  BY DEF Add
<1>2. NoCopy(cmd)
  BY <1>1 DEF CopyInv, Remembered, NoCopy, Heard
<1>3. unused # {} => k \in unused
  <2>1. unused \subseteq Nat
    BY TableAssumption DEF Index
  <2>2. unused # {} => \E i \in unused : \A j \in unused : i <= j
    BY <2>1, NatMin
  <2> QED
    BY <2>2
<1>4. k \in Index
  BY <1>3, VictimInTable
<1>5. ASSUME NEW c \in Heard \ {cmd}, k \in Holding(c)
      PROVE  \/ now > lastPass[c] + DUP_TIME
             \/ Cardinality(PassedAround(c)') >= DUP_MAX
  <2>1. dups[k].cmd = c /\ c \in Cmds /\ Used(dups[k])
    BY <1>5, CmdsAssumption DEF Holding, Heard, Used
  <2>2. CASE unused # {}
    <3>1. swept[k] # dups[k]
      BY <1>3, <2>1, <2>2
    <3>2. Expired(dups[k])
      BY <1>4, <3>1, SweptOne DEF CopyInv
    <3>3. dups[k].timems = lastPass[c] + DUP_TIME
      BY <1>4, <2>1 DEF CopyInv, Inv, Booked
    <3> QED
      BY <3>2, <3>3 DEF Expired
  <2>3. CASE unused = {}
    <3>1. \A i \in Index : Used(dups[i]) /\ ~Expired(dups[i])
      BY <2>3, SweptAll DEF CopyInv
    <3> QED
      BY <1>1, <1>5, <3>1, FullTable
  <2> QED
    BY <2>2, <2>3
<1> HIDE DEF k
<1>6. IsFiniteSet(Heard') /\ Remembered'
  BY <1>1, <1>4, <1>5, PassRemembers
<1> QED
  BY <1>2, <1>6

\* Time goes on and no command is let through.
LEMMA WaitRemembers ==
  ASSUME CopyInv, NEW t \in Nat, now' = t, t >= now, UNCHANGED lastPass,
         \A i \in Index : \/ dups'[i] = dups[i]
                          \/ Used(dups[i]) /\ Expired(dups[i])
  PROVE  IsFiniteSet(Heard') /\ Remembered'
<1>1. Heard' = Heard /\ now \in Nat /\ DUP_TIME \in Nat /\ DUP_MAX \in Nat
  BY TableAssumption DEF Heard, CopyInv, Inv, TypeOK
<1>2. ASSUME NEW c \in Heard
      PROVE  /\ lastPass'[c] <= now'
             /\ \/ Holding(c)' # {}
                \/ now' > lastPass'[c] + DUP_TIME
                \/ Cardinality(PassedAround(c)') >= DUP_MAX
  <2>1. /\ lastPass'[c] = lastPass[c] /\ lastPass[c] \in Nat /\ lastPass[c] <= now
        /\ PassedAround(c)' = PassedAround(c)
    BY DEF Heard, CopyInv, Inv, TypeOK, Remembered, PassedAround
  <2>2. ASSUME now > lastPass[c] + DUP_TIME PROVE now' > lastPass'[c] + DUP_TIME
    BY <1>1, <2>1, <2>2
  <2>3. CASE Holding(c) # {}
    <3>1. PICK i \in Index : i \in Holding(c) /\ dups[i].cmd = c
      BY <2>3 DEF Holding
    <3>2. CASE dups'[i] = dups[i]
      BY <1>1, <2>1, <3>1, <3>2 DEF Holding
    <3>3. CASE Used(dups[i]) /\ Expired(dups[i])
      <4>1. dups[i].timems = lastPass[c] + DUP_TIME
        BY <3>1, <3>3 DEF CopyInv, Inv, Booked
      <4> QED
        BY <1>1, <2>1, <2>2, <3>3, <4>1 DEF Expired
    <3> QED
      BY <3>2, <3>3
  <2> QED
    BY <1>1, <2>1, <2>2, <2>3 DEF CopyInv, Remembered
<1> QED
  BY <1>1, <1>2 DEF CopyInv, Remembered

LEMMA CopyStep ==
  ASSUME CopyInv, [Next]_vars
  PROVE  /\ CopyInv'
         /\ \A c \in Cmds : lastPass'[c] # lastPass[c] => NoCopy(c)
<1>1. Inv' /\ now \in Nat
  BY InvStep DEF CopyInv, Inv, TypeOK
<1>2. CASE UNCHANGED vars
  <2>1. IsFiniteSet(Heard') /\ Remembered'
    BY <1>1, <1>2, WaitRemembers DEF vars
  <2> QED
    BY <1>1, <1>2, <2>1 DEF CopyInv, vars
<1>3. CASE Tick
  <2>1. now' \in Nat /\ now' >= now /\ UNCHANGED <<dups, lastPass>>
    BY <1>1, <1>3, ClockAssumption DEF Tick
  <2>2. IsFiniteSet(Heard') /\ Remembered'
    BY <2>1, WaitRemembers
  <2> QED
    BY <1>1, <2>1, <2>2 DEF CopyInv
<1>4. ASSUME NEW cmd \in Cmds, dup_filter(cmd)
      PROVE  /\ CopyInv'
             /\ \A c \in Cmds : lastPass'[c] # lastPass[c] => NoCopy(c)
  <2>1. now' \in Nat /\ now' >= now /\ (Drop(cmd) \/ Reuse(cmd) \/ Add(cmd))
    BY <1>1, <1>4 DEF dup_filter
  <2>2. CASE Drop(cmd)
    <3>1. PICK i \in Index : dups' = SweptBefore(i) /\ UNCHANGED lastPass
      BY <2>2 DEF Drop, Holding
    <3>2. \A j \in Index : dups'[j] = dups[j] \/ (Used(dups[j]) /\ Expired(dups[j]))
      BY <3>1, SweptOne DEF CopyInv
    <3>3. IsFiniteSet(Heard') /\ Remembered'
      BY <2>1, <3>1, <3>2, WaitRemembers
    <3> QED
      BY <1>1, <3>1, <3>3 DEF CopyInv
  <2>3. CASE Reuse(cmd) \/ Add(cmd)
    <3>1. IsFiniteSet(Heard') /\ Remembered' /\ NoCopy(cmd)
      BY <2>1, <2>3, ReuseRemembers, AddRemembers
    <3>2. \A c \in Cmds : lastPass'[c] # lastPass[c] => c = cmd
      BY <2>3 DEF Reuse, Add, Passes, CopyInv, Inv, TypeOK
    <3> QED
      BY <1>1, <3>1, <3>2 DEF CopyInv
  <2> QED
    BY <2>1, <2>2, <2>3
<1> QED
  BY <1>2, <1>3, <1>4 DEF Next

\* For any table size, clock, window and choice of the entry to give up, a copy
\* gets through inside the window only if as many other commands as the table
\* has entries were let through around the original (decode.c, dup_filter).
THEOREM FiltersCopies == Spec => CopiesFiltered
<1>1. Init => CopyInv
  <2> SUFFICES ASSUME Init PROVE CopyInv
    OBVIOUS
  <2>1. Heard = {}
    BY DEF Init, Heard
  <2>2. IsFiniteSet(Heard)
    BY <2>1, FS_EmptySet
  <2> QED
    BY <2>1, <2>2, InvInit DEF CopyInv, Remembered
<1>2. CopyInv /\ [Next]_vars => CopyInv'
  BY CopyStep
<1>3. CopyInv /\ [Next]_vars =>
        [\A c \in Cmds :
           lastPass'[c] # lastPass[c] /\ lastPass[c] # Never
             => \/ now > lastPass[c] + DUP_TIME
                \/ Cardinality(PassedAround(c)) >= DUP_MAX]_vars
  BY CopyStep DEF NoCopy
<1> QED
  BY <1>1, <1>2, <1>3, PTL DEF Spec, CopiesFiltered

=============================================================================
