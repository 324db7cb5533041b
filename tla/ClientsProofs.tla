--------------------------- MODULE ClientsProofs ---------------------------
(***************************************************************************)
(* Theorems about the socket clients of mochad.c, for tables of any size   *)
(* and any descriptors: what the tables, the counters and the copy given   *)
(* to poll keep.                                                           *)
(***************************************************************************)
EXTENDS Clients, FiniteSetTheorems, WellFoundedInduction, TLAPS

-----------------------------------------------------------------------------

\* A least element, where a definition CHOOSEs one.
LEMMA NatMin ==
  ASSUME NEW T, T \subseteq Nat, T # {}
  PROVE  \E x \in T : \A y \in T : x <= y
<1> DEFINE R == OpToRel(<, Nat)
<1>1. IsWellFoundedOn(R, Nat)
  BY NatLessThanWellFounded
<1>2. \A x, y \in Nat : <<x, y>> \in R <=> x < y
  BY DEF OpToRel
<1> HIDE DEF R
<1>3. PICK x \in T : \A y \in T : ~(<<y, x>> \in R)
  BY <1>1, WFMin
<1>4. ASSUME NEW y \in T PROVE x <= y
  <2>1. x \in Nat /\ y \in Nat /\ ~(<<y, x>> \in R)
    BY <1>3
  <2>2. ~(y < x)
    BY <1>2, <2>1
  <2> QED
    BY <2>1, <2>2
<1> QED
  BY <1>4

LEMMA RankType ==
  ASSUME NEW w \in Entry
  PROVE  /\ Rank(w) \in Nat
         /\ \A v \in Entry : Rank(v) = Rank(w) => v = w
<1>1. Index \subseteq Nat
  BY SizeAssumption DEF Index
<1>2. ASSUME NEW v \in Entry
      PROVE  /\ v = <<v[1], v[2]>> /\ v[2] \in Nat
             /\ \/ v[1] = "client" /\ Rank(v) = 3 * v[2]
                \/ v[1] = "xml" /\ Rank(v) = 3 * v[2] + 1
                \/ v[1] = "or20" /\ Rank(v) = 3 * v[2] + 2
  <2>1. v = <<v[1], v[2]>> /\ v[2] \in Nat /\ v[1] \in Kinds
    <3>1. PICK k \in Kinds, i \in Index : v = <<k, i>>
      BY DEF Entry
    <3> QED
      BY <1>1, <3>1
  <2>2. CASE v[1] = "client"
    BY <2>1, <2>2 DEF Rank
  <2>3. CASE v[1] = "xml"
    BY <2>1, <2>3 DEF Rank
  <2>4. CASE v[1] = "or20"
    BY <2>1, <2>4 DEF Rank
  <2> QED
    BY <2>1, <2>2, <2>3, <2>4 DEF Kinds
<1>3. ASSUME NEW v \in Entry, Rank(v) = Rank(w) PROVE v = w
  <2>1. v[1] = w[1] /\ v[2] = w[2]
    BY <1>2, <1>3
  <2> QED
    BY <1>2, <2>1
<1>4. Rank(w) \in Nat
  BY <1>2
<1> QED
  BY <1>3, <1>4

\* add_client fills an entry that is not in use and counts it, or the table
\* is full.
LEMMA AddClient ==
  ASSUME NEW k \in Kinds, NEW fd, add_client(k, fd)
  PROVE  \/ Unused(k) = {} /\ UNCHANGED tables
         \/ \E i \in Unused(k) : /\ socks' = [socks EXCEPT ![k][i] = fd]
                                 /\ count' = [count EXCEPT ![k] = @ + 1]
<1>1. CASE Unused(k) = {}
  BY <1>1 DEF add_client
<1>2. CASE Unused(k) # {}
  <2>1. Unused(k) \subseteq Nat
    BY SizeAssumption DEF Unused, Index
  <2>2. \E i \in Unused(k) : \A j \in Unused(k) : i <= j
    BY <1>2, <2>1, NatMin
  <2> DEFINE i == CHOOSE i \in Unused(k) : \A j \in Unused(k) : i <= j
  <2>3. i \in Unused(k)
    BY <2>2
  <2>4. /\ socks' = [socks EXCEPT ![k][i] = fd]
        /\ count' = [count EXCEPT ![k] = @ + 1]
    BY <1>2 DEF add_client
  <2> HIDE DEF i
  <2> QED
    BY <2>3, <2>4
<1> QED
  BY <1>1, <1>2

\* del_client frees one entry with the descriptor and counts it, if there is one.
LEMMA DelClient ==
  ASSUME NEW fd, del_client(fd)
  PROVE  \/ Where(fd) = {} /\ UNCHANGED tables
         \/ \E w \in Where(fd) : /\ socks' = [socks EXCEPT ![w[1]][w[2]] = Free]
                                 /\ count' = [count EXCEPT ![w[1]] = @ - 1]
<1>1. CASE Where(fd) = {}
  BY <1>1 DEF del_client
<1>2. CASE Where(fd) # {}
  <2> DEFINE T == {Rank(w) : w \in Where(fd)}
  <2>1. T \subseteq Nat /\ T # {}
    BY <1>2, RankType DEF Where
  <2> HIDE DEF T
  <2>2. \E x \in T : \A y \in T : x <= y
    BY <2>1, NatMin
  <2>3. \E w \in Where(fd) : \A v \in Where(fd) : Rank(w) <= Rank(v)
    BY <2>2 DEF T
  <2> DEFINE w == CHOOSE w \in Where(fd) : \A v \in Where(fd) : Rank(w) <= Rank(v)
  <2>4. w \in Where(fd)
    BY <2>3
  <2>5. /\ socks' = [socks EXCEPT ![w[1]][w[2]] = Free]
        /\ count' = [count EXCEPT ![w[1]] = @ - 1]
    BY <1>2 DEF del_client
  <2> HIDE DEF w
  <2> QED
    BY <2>4, <2>5
<1> QED
  BY <1>1, <1>2

-----------------------------------------------------------------------------
(***************************************************************************)
(* The tables                                                              *)
(***************************************************************************)

TablesTyped ==
  /\ socks \in [Kinds -> [Index -> Fds \cup {Free}]]
  /\ count \in [Kinds -> Int]
  /\ kernel \in [Fds -> Kinds \cup {"free"}]

\* Every way in which an entry and a descriptor may be related.
Sound == TablesHoldOpenSockets /\ NoSocketForgotten

LEMMA FreeIsNoFd == Free \notin Fds /\ "free" \notin Kinds
BY FdsAssumption DEF Free, Kinds

LEMMA EntryPair ==
  /\ \A k \in Kinds, i \in Index : <<k, i>> \in Entry
  /\ \A w \in Entry : w[1] \in Kinds /\ w[2] \in Index /\ w = <<w[1], w[2]>>
<1>1. ASSUME NEW w \in Entry
      PROVE  w[1] \in Kinds /\ w[2] \in Index /\ w = <<w[1], w[2]>>
  <2>1. PICK k \in Kinds, i \in Index : w = <<k, i>>
    BY DEF Entry
  <2> QED
    BY <2>1
<1>2. \A k \in Kinds, i \in Index : <<k, i>> \in Entry
  BY DEF Entry
<1> QED
  BY <1>1, <1>2

\* One entry changes.
LEMMA SetEntry ==
  ASSUME TablesTyped, NEW k \in Kinds, NEW i \in Index, NEW x \in Fds \cup {Free},
         socks' = [socks EXCEPT ![k][i] = x]
  PROVE  /\ socks' \in [Kinds -> [Index -> Fds \cup {Free}]]
         /\ \A j \in Kinds, m \in Index :
              socks'[j][m] = IF j = k /\ m = i THEN x ELSE socks[j][m]
         /\ \A g : Where(g)' = IF g = x THEN Where(g) \cup {<<k, i>>}
                               ELSE Where(g) \ {<<k, i>>}
<1>1. socks \in [Kinds -> [Index -> Fds \cup {Free}]]
  BY DEF TablesTyped
<1>2. /\ socks' \in [Kinds -> [Index -> Fds \cup {Free}]]
      /\ \A j \in Kinds, m \in Index :
           socks'[j][m] = IF j = k /\ m = i THEN x ELSE socks[j][m]
  BY <1>1
<1>3. \A w \in Entry : socks'[w[1]][w[2]] = IF w = <<k, i>> THEN x ELSE socks[w[1]][w[2]]
  BY <1>2, EntryPair
<1>4. ASSUME NEW g
      PROVE  Where(g)' = IF g = x THEN Where(g) \cup {<<k, i>>}
                         ELSE Where(g) \ {<<k, i>>}
  <2>1. <<k, i>> \in Entry
    BY EntryPair
  <2> QED
    BY <1>3, <2>1 DEF Where
<1> QED
  BY <1>2, <1>4

UsedIn(k) == {i \in Index : socks[k][i] # Free}

LEMMA UsedFinite ==
  ASSUME NEW k \in Kinds
  PROVE  /\ IsFiniteSet(UsedIn(k)) /\ Entries(k) = Cardinality(UsedIn(k))
         /\ Entries(k) \in 0 .. MAXCLISOCKETS
<1>1. IsFiniteSet(Index) /\ Cardinality(Index) = MAXCLISOCKETS
  BY SizeAssumption, FS_Interval DEF Index
<1>2. UsedIn(k) \in SUBSET Index /\ Entries(k) = Cardinality(UsedIn(k))
  BY DEF UsedIn, Entries
<1>3. IsFiniteSet(UsedIn(k)) /\ Cardinality(UsedIn(k)) <= MAXCLISOCKETS
  BY <1>1, <1>2, FS_Subset
<1>4. Cardinality(UsedIn(k)) \in Nat
  BY <1>3, FS_CardinalityType
<1> QED
  BY <1>2, <1>3, <1>4, SizeAssumption

\* Putting a descriptor into an unused entry, and taking one out.
LEMMA EntriesStep ==
  ASSUME TablesTyped, NEW k \in Kinds, NEW i \in Index, NEW x \in Fds \cup {Free},
         socks' = [socks EXCEPT ![k][i] = x]
  PROVE  /\ \A j \in Kinds \ {k} : Entries(j)' = Entries(j)
         /\ socks[k][i] = Free /\ x # Free => Entries(k)' = Entries(k) + 1
         /\ socks[k][i] = Free /\ x = Free => Entries(k)' = Entries(k)
         /\ socks[k][i] # Free /\ x = Free => Entries(k)' = Entries(k) - 1
<1>1. \A j \in Kinds, m \in Index :
        socks'[j][m] = IF j = k /\ m = i THEN x ELSE socks[j][m]
  BY SetEntry
<1>2. \A j \in Kinds : Entries(j) = Cardinality(UsedIn(j)) /\ Entries(j)' = Cardinality(UsedIn(j)')
  BY DEF UsedIn, Entries
<1>3. ASSUME NEW j \in Kinds \ {k} PROVE Entries(j)' = Entries(j)
  <2>1. UsedIn(j)' = UsedIn(j)
    BY <1>1 DEF UsedIn
  <2> QED
    BY <1>2, <2>1
<1>4. IsFiniteSet(UsedIn(k))
  BY UsedFinite
<1>5. ASSUME socks[k][i] = Free, x # Free PROVE Entries(k)' = Entries(k) + 1
  <2>1. UsedIn(k)' = UsedIn(k) \cup {i} /\ i \notin UsedIn(k)
    BY <1>1, <1>5 DEF UsedIn
  <2>2. Cardinality(UsedIn(k) \cup {i}) = Cardinality(UsedIn(k)) + 1
    BY <1>4, <2>1, FS_AddElement
  <2> QED
    BY <1>2, <2>1, <2>2
<1>6. ASSUME socks[k][i] = Free, x = Free PROVE Entries(k)' = Entries(k)
  <2>1. UsedIn(k)' = UsedIn(k)
    BY <1>1, <1>6 DEF UsedIn
  <2> QED
    BY <1>2, <2>1
<1>7. ASSUME socks[k][i] # Free, x = Free PROVE Entries(k)' = Entries(k) - 1
  <2>1. UsedIn(k)' = UsedIn(k) \ {i} /\ i \in UsedIn(k)
    BY <1>1, <1>7 DEF UsedIn
  <2>2. Cardinality(UsedIn(k) \ {i}) = Cardinality(UsedIn(k)) - 1
    BY <1>4, <2>1, FS_RemoveElement
  <2> QED
    BY <1>2, <2>1, <2>2
<1> QED
  BY <1>3, <1>5, <1>6, <1>7

\* What a counter is ahead of its table.
Drift(k) == count[k] - Entries(k)

\* TablesHoldOpenSockets after a step, by the descriptor.
LEMMA HoldNext ==
  ASSUME socks' \in [Kinds -> [Index -> Fds \cup {Free}]],
         \A j \in Kinds, m \in Index, g \in Fds :
           socks'[j][m] = g => kernel'[g] = j /\ Where(g)' = {<<j, m>>}
  PROVE  TablesHoldOpenSockets'
<1>1. ASSUME NEW j \in Kinds, NEW m \in Index, socks'[j][m] # Free
      PROVE  kernel'[socks'[j][m]] = j /\ Where(socks[j][m])' = {<<j, m>>}
  <2>1. PICK g \in Fds : g = socks'[j][m]
    BY <1>1
  <2>2. kernel'[g] = j /\ Where(g)' = {<<j, m>>}
    BY <2>1
  <2>3. Where(socks[j][m])' = Where(g)'
    BY <2>1 DEF Where
  <2> QED
    BY <2>1, <2>2, <2>3
<1> QED
  BY <1>1 DEF TablesHoldOpenSockets

\* A socket has been accepted.
LEMMA AcceptTables ==
  ASSUME TablesTyped, Sound, NEW k \in Kinds, NEW fd \in Fds, kernel[fd] = "free",
         add_client(k, fd),
         kernel' = [kernel EXCEPT ![fd] = k],
         leaked' = IF UNCHANGED socks THEN leaked \cup {fd} ELSE leaked
  PROVE  /\ TablesTyped' /\ Sound'
         /\ \A j \in Kinds : Drift(j)' = Drift(j)
         /\ \A g \in Fds : Where(g) \subseteq Where(g)'
<1>1. /\ socks \in [Kinds -> [Index -> Fds \cup {Free}]]
      /\ count \in [Kinds -> Int]
      /\ kernel \in [Fds -> Kinds \cup {"free"}]
  BY DEF TablesTyped
<1>2. /\ \A j \in Kinds, m \in Index :
           socks[j][m] # Free =>
             /\ kernel[socks[j][m]] = j
             /\ Where(socks[j][m]) = {<<j, m>>}
      /\ \A g \in Fds : kernel[g] # "free" => Where(g) # {} \/ g \in leaked
  BY DEF Sound, TablesHoldOpenSockets, NoSocketForgotten
<1>3. kernel' \in [Fds -> Kinds \cup {"free"}]
      /\ \A g \in Fds : kernel'[g] = IF g = fd THEN k ELSE kernel[g]
  BY <1>1
<1>4. \A j \in Kinds, m \in Index : socks[j][m] # fd
  BY <1>2, FreeIsNoFd
<1>5. CASE Unused(k) = {} /\ UNCHANGED tables
  <2>1. UNCHANGED <<socks, count>> /\ leaked' = leaked \cup {fd}
    BY <1>5 DEF tables
  <2>2. \A g : Where(g)' = Where(g)
    BY <2>1 DEF Where
  <2>3. TablesTyped' /\ \A j \in Kinds : Drift(j)' = Drift(j)
    BY <1>1, <1>3, <2>1 DEF TablesTyped, Drift, Entries
  <2>4. TablesHoldOpenSockets'
    BY <1>2, <1>3, <1>4, <2>1, <2>2 DEF TablesHoldOpenSockets
  <2>5. NoSocketForgotten'
    BY <1>2, <1>3, <2>1, <2>2 DEF NoSocketForgotten
  <2> QED
    BY <2>2, <2>3, <2>4, <2>5 DEF Sound
<1>6. ASSUME NEW i \in Unused(k),
             socks' = [socks EXCEPT ![k][i] = fd],
             count' = [count EXCEPT ![k] = @ + 1]
      PROVE  /\ TablesTyped' /\ Sound'
             /\ \A j \in Kinds : Drift(j)' = Drift(j)
             /\ \A g \in Fds : Where(g) \subseteq Where(g)'
  <2>1. i \in Index /\ socks[k][i] = Free
    BY DEF Unused
  <2>2. /\ socks' \in [Kinds -> [Index -> Fds \cup {Free}]]
        /\ \A j \in Kinds, m \in Index :
             socks'[j][m] = IF j = k /\ m = i THEN fd ELSE socks[j][m]
        /\ \A g : Where(g)' = IF g = fd THEN Where(g) \cup {<<k, i>>}
                              ELSE Where(g) \ {<<k, i>>}
    BY <1>6, <2>1, SetEntry
  <2>3. TablesTyped'
    BY <1>1, <1>3, <1>6, <2>2 DEF TablesTyped
  <2>4. Where(fd) = {}
    BY <1>4, EntryPair DEF Where
  <2>5. \A g \in Fds : <<k, i>> \notin Where(g)
    <3>1. <<k, i>>[1] = k /\ <<k, i>>[2] = i
      OBVIOUS
    <3> QED
      BY <2>1, <3>1, FreeIsNoFd DEF Where
  <2>6. ASSUME NEW j \in Kinds, NEW m \in Index, NEW g \in Fds, socks'[j][m] = g
        PROVE  kernel'[g] = j /\ Where(g)' = {<<j, m>>}
    <3>1. CASE j = k /\ m = i
      <4>1. g = fd
        BY <2>2, <2>6, <3>1
      <4> QED
        BY <1>3, <2>2, <2>4, <3>1, <4>1
    <3>2. CASE ~(j = k /\ m = i)
      <4>1. socks[j][m] = g /\ g # fd
        BY <1>4, <2>2, <2>6, <3>2
      <4>2. kernel[g] = j /\ Where(g) = {<<j, m>>}
        BY <1>2, <4>1, FreeIsNoFd
      <4>3. Where(g)' = Where(g) \ {<<k, i>>}
        BY <2>2, <4>1
      <4> QED
        BY <1>3, <2>5, <4>1, <4>2, <4>3
    <3> QED
      BY <3>1, <3>2
  <2>7. TablesHoldOpenSockets'
    BY <2>2, <2>6, HoldNext
  <2>8. \A g \in Fds : Where(g) \subseteq Where(g)'
    BY <2>2, <2>5
  <2>9. NoSocketForgotten'
    <3>1. Where(fd)' # {}
      BY <2>2
    <3>2. \A g \in Fds : g \in leaked => g \in leaked'
      OBVIOUS
    <3> QED
      BY <1>2, <1>3, <2>8, <3>1, <3>2 DEF NoSocketForgotten
  <2>10. ASSUME NEW j \in Kinds PROVE Drift(j)' = Drift(j)
    <3>1. fd # Free /\ Entries(j) \in Int
      BY FreeIsNoFd, UsedFinite
    <3>2. /\ count'[j] = IF j = k THEN count[j] + 1 ELSE count[j]
          /\ count[j] \in Int
      BY <1>1, <1>6
    <3>3. Entries(j)' = IF j = k THEN Entries(j) + 1 ELSE Entries(j)
      BY <1>6, <2>1, <3>1, EntriesStep
    <3> QED
      BY <3>1, <3>2, <3>3 DEF Drift
  <2> QED
    BY <2>3, <2>7, <2>8, <2>9, <2>10 DEF Sound
<1> QED
  BY <1>5, <1>6, AddClient

\* An accept has failed: the entry chosen stays unused, but is counted.
LEMMA FailTables ==
  ASSUME TablesTyped, Sound, NEW k \in Kinds, add_client(k, -1),
         UNCHANGED <<kernel, leaked>>
  PROVE  /\ TablesTyped' /\ Sound'
         /\ \A j \in Kinds :
              Drift(j)' = IF j = k /\ Unused(k) # {} THEN Drift(j) + 1 ELSE Drift(j)
         /\ \A g \in Fds : Where(g)' = Where(g)
<1>1. /\ socks \in [Kinds -> [Index -> Fds \cup {Free}]]
      /\ count \in [Kinds -> Int]
      /\ kernel \in [Fds -> Kinds \cup {"free"}]
  BY DEF TablesTyped
<1>2. socks' = socks
  <2>1. CASE UNCHANGED tables
    BY <2>1 DEF tables
  <2>2. ASSUME NEW i \in Unused(k), socks' = [socks EXCEPT ![k][i] = -1]
        PROVE  socks' = socks
    <3>1. i \in Index /\ socks[k][i] = -1
      BY DEF Unused, Free
    <3> QED
      BY <1>1, <2>2, <3>1
  <2> QED
    BY <2>1, <2>2, AddClient
<1>3. \A g : Where(g)' = Where(g)
  BY <1>2 DEF Where
<1>4. \A j \in Kinds : Entries(j)' = Entries(j) /\ Entries(j) \in Int
  BY <1>2, UsedFinite DEF Entries
<1>5. ASSUME NEW j \in Kinds
      PROVE  count'[j] = IF j = k /\ Unused(k) # {} THEN count[j] + 1 ELSE count[j]
  <2>1. CASE Unused(k) = {} /\ UNCHANGED tables
    BY <2>1 DEF tables
  <2>2. CASE Unused(k) # {} /\ count' = [count EXCEPT ![k] = @ + 1]
    BY <1>1, <2>2
  <2> QED
    BY <2>1, <2>2, AddClient
<1>6. count' \in [Kinds -> Int]
  <2>1. CASE UNCHANGED tables
    BY <1>1, <2>1 DEF tables
  <2>2. CASE count' = [count EXCEPT ![k] = @ + 1]
    BY <1>1, <2>2
  <2> QED
    BY <2>1, <2>2, AddClient
<1>7. ASSUME NEW j \in Kinds
      PROVE  Drift(j)' = IF j = k /\ Unused(k) # {} THEN Drift(j) + 1 ELSE Drift(j)
  <2>1. count[j] \in Int
    BY <1>1
  <2> QED
    BY <1>4, <1>5, <2>1 DEF Drift
<1>8. TablesTyped'
  BY <1>1, <1>2, <1>6 DEF TablesTyped
<1>9. Sound'
  BY <1>2, <1>3 DEF Sound, TablesHoldOpenSockets, NoSocketForgotten
<1> QED
  BY <1>3, <1>7, <1>8, <1>9

\* A client is forgotten and its socket closed.
LEMMA DropTables ==
  ASSUME TablesTyped, Sound, NEW fd \in Fds, del_client(fd), Close(fd), leaked' = leaked
  PROVE  /\ TablesTyped' /\ Sound'
         /\ \A j \in Kinds : Drift(j)' = Drift(j)
         /\ \A g \in Fds \ {fd} : Where(g)' = Where(g)
<1>1. /\ socks \in [Kinds -> [Index -> Fds \cup {Free}]]
      /\ count \in [Kinds -> Int]
      /\ kernel \in [Fds -> Kinds \cup {"free"}]
  BY DEF TablesTyped
<1>2. /\ \A j \in Kinds, m \in Index :
           socks[j][m] # Free =>
             /\ kernel[socks[j][m]] = j
             /\ Where(socks[j][m]) = {<<j, m>>}
      /\ \A g \in Fds : kernel[g] # "free" => Where(g) # {} \/ g \in leaked
  BY DEF Sound, TablesHoldOpenSockets, NoSocketForgotten
<1>3. kernel' \in [Fds -> Kinds \cup {"free"}]
      /\ \A g \in Fds : kernel'[g] = IF g = fd THEN "free" ELSE kernel[g]
  BY <1>1 DEF Close
<1>4. CASE Where(fd) = {} /\ UNCHANGED tables
  <2>1. UNCHANGED <<socks, count>>
    BY <1>4 DEF tables
  <2>2. \A g : Where(g)' = Where(g)
    BY <2>1 DEF Where
  <2>3. TablesTyped' /\ \A j \in Kinds : Drift(j)' = Drift(j)
    BY <1>1, <1>3, <2>1 DEF TablesTyped, Drift, Entries
  <2>4. \A j \in Kinds, m \in Index, g \in Fds :
          socks'[j][m] = g => kernel'[g] = j /\ Where(g)' = {<<j, m>>}
    <3> SUFFICES ASSUME NEW j \in Kinds, NEW m \in Index, NEW g \in Fds, socks'[j][m] = g
                 PROVE  kernel'[g] = j /\ Where(g)' = {<<j, m>>}
      OBVIOUS
    <3>1. socks[j][m] = g
      BY <2>1
    <3>2. kernel[g] = j /\ Where(g) = {<<j, m>>}
      BY <1>2, <3>1, FreeIsNoFd
    <3> QED
      BY <1>3, <1>4, <2>2, <3>2
  <2>5. TablesHoldOpenSockets'
    BY <1>1, <2>1, <2>4, HoldNext
  <2>6. NoSocketForgotten'
    BY <1>2, <1>3, <2>2 DEF NoSocketForgotten
  <2> QED
    BY <2>2, <2>3, <2>5, <2>6 DEF Sound
<1>5. ASSUME NEW w \in Where(fd),
             socks' = [socks EXCEPT ![w[1]][w[2]] = Free],
             count' = [count EXCEPT ![w[1]] = @ - 1]
      PROVE  /\ TablesTyped' /\ Sound'
             /\ \A j \in Kinds : Drift(j)' = Drift(j)
             /\ \A g \in Fds \ {fd} : Where(g)' = Where(g)
  <2> DEFINE k == w[1]
             i == w[2]
  <2>1. k \in Kinds /\ i \in Index /\ socks[k][i] = fd /\ w = <<k, i>>
    BY EntryPair DEF Where
  <2>2. socks' = [socks EXCEPT ![k][i] = Free] /\ count' = [count EXCEPT ![k] = @ - 1]
    BY <1>5
  <2> HIDE DEF k, i
  <2>3. fd # Free
    BY FreeIsNoFd
  <2>4. /\ socks' \in [Kinds -> [Index -> Fds \cup {Free}]]
        /\ \A j \in Kinds, m \in Index :
             socks'[j][m] = IF j = k /\ m = i THEN Free ELSE socks[j][m]
        /\ \A g : Where(g)' = IF g = Free THEN Where(g) \cup {<<k, i>>}
                              ELSE Where(g) \ {<<k, i>>}
    BY <2>1, <2>2, SetEntry
  <2>5. TablesTyped'
    BY <1>1, <1>3, <2>2, <2>4 DEF TablesTyped
  <2>6. Where(fd) = {<<k, i>>}
    BY <1>2, <2>1, <2>3
  <2>7. \A g \in Fds \ {fd} : <<k, i>> \notin Where(g)
    <3>1. <<k, i>>[1] = k /\ <<k, i>>[2] = i
      OBVIOUS
    <3> QED
      BY <2>1, <3>1 DEF Where
  <2>8. \A g \in Fds \ {fd} : Where(g)' = Where(g)
    BY <2>4, <2>7, FreeIsNoFd
  <2>9. \A j \in Kinds, m \in Index, g \in Fds :
          socks'[j][m] = g => kernel'[g] = j /\ Where(g)' = {<<j, m>>}
    <3> SUFFICES ASSUME NEW j \in Kinds, NEW m \in Index, NEW g \in Fds, socks'[j][m] = g
                 PROVE  kernel'[g] = j /\ Where(g)' = {<<j, m>>}
      OBVIOUS
    <3>1. socks[j][m] = g
      BY <2>4, FreeIsNoFd
    <3>2. kernel[g] = j /\ Where(g) = {<<j, m>>}
      BY <1>2, <3>1, FreeIsNoFd
    <3>3. g # fd
      <4>1. ASSUME g = fd PROVE j = k /\ m = i
        BY <2>6, <3>2, <4>1
      <4> QED
        BY <2>4, <4>1, FreeIsNoFd
    <3> QED
      BY <1>3, <2>8, <3>2, <3>3
  <2>10. TablesHoldOpenSockets'
    BY <2>4, <2>9, HoldNext
  <2>11. NoSocketForgotten'
    BY <1>2, <1>3, <2>8 DEF NoSocketForgotten
  <2>12. ASSUME NEW j \in Kinds PROVE Drift(j)' = Drift(j)
    <3>1. Entries(j) \in Int /\ count[j] \in Int
      BY <1>1, UsedFinite
    <3>2. count'[j] = IF j = k THEN count[j] - 1 ELSE count[j]
      BY <1>1, <2>2
    <3>3. Entries(j)' = IF j = k THEN Entries(j) - 1 ELSE Entries(j)
      BY <2>1, <2>2, <2>3, EntriesStep
    <3> QED
      BY <3>1, <3>2, <3>3 DEF Drift
  <2> QED
    BY <2>5, <2>8, <2>10, <2>11, <2>12 DEF Sound
<1> QED
  BY <1>4, <1>5, DelClient

\* A line was read, or the end: either nothing happens, or the client goes.
LEMMA ReadTables ==
  ASSUME TablesTyped, Sound, NEW fd \in Fds, ReadData(fd) \/ ReadEnd(fd), leaked' = leaked
  PROVE  /\ TablesTyped' /\ Sound'
         /\ \A j \in Kinds : Drift(j)' = Drift(j)
         /\ \A g \in Fds \ {fd} : Where(g)' = Where(g)
<1>1. CASE del_client(fd) /\ Close(fd)
  BY <1>1, DropTables
<1>2. CASE UNCHANGED <<tables, kernel>>
  <2>1. UNCHANGED <<socks, count, kernel, leaked>>
    BY <1>2 DEF tables
  <2>2. \A g : Where(g)' = Where(g)
    BY <2>1 DEF Where
  <2> QED
    BY <2>1, <2>2 DEF TablesTyped, Drift, Entries, Sound, TablesHoldOpenSockets,
                      NoSocketForgotten
<1>3. CASE del_client(fd) /\ Where(fd) = {} /\ UNCHANGED kernel
  BY <1>2, <1>3 DEF del_client
<1> QED
  BY <1>1, <1>2, <1>3 DEF ReadData, ReadEnd
-----------------------------------------------------------------------------
(***************************************************************************)
(* copy_clients                                                            *)
(***************************************************************************)

Total == Entries("client") + Entries("xml") + Entries("or20")

\* The entries in use are those of the three tables.
LEMMA InUseTotal ==
  IsFiniteSet(InUse) /\ NInUse = Total /\ Total \in 0 .. 3 * MAXCLISOCKETS
<1> DEFINE P(k) == {k} \X UsedIn(k)
<1>1. ASSUME NEW k \in Kinds PROVE IsFiniteSet(P(k)) /\ Cardinality(P(k)) = Entries(k)
  <2>1. IsFiniteSet({k}) /\ Cardinality({k}) = 1
    BY FS_Singleton
  <2>2. IsFiniteSet(P(k)) /\ Cardinality(P(k)) = 1 * Cardinality(UsedIn(k))
    BY <2>1, UsedFinite, FS_Product
  <2> QED
    BY <2>2, UsedFinite
<1>2. InUse = (P("client") \cup P("xml")) \cup P("or20")
  <2>1. ASSUME NEW w \in InUse PROVE w \in (P("client") \cup P("xml")) \cup P("or20")
    BY EntryPair DEF InUse, UsedIn, Kinds
  <2>2. ASSUME NEW k \in Kinds, NEW w \in P(k) PROVE w \in InUse
    <3>1. PICK i \in UsedIn(k) : w = <<k, i>>
      OBVIOUS
    <3> QED
      BY <3>1, EntryPair DEF InUse, UsedIn
  <2>3. P("client") \subseteq InUse /\ P("xml") \subseteq InUse /\ P("or20") \subseteq InUse
    BY <2>2 DEF Kinds
  <2> QED
    BY <2>1, <2>3
<1>3. ASSUME NEW k \in Kinds, NEW w \in P(k) PROVE w[1] = k
  OBVIOUS
<1>4. P("client") \cap P("xml") = {} /\ (P("client") \cup P("xml")) \cap P("or20") = {}
  BY <1>3 DEF Kinds
<1> HIDE DEF P
<1>5. /\ IsFiniteSet(P("client")) /\ IsFiniteSet(P("xml")) /\ IsFiniteSet(P("or20"))
      /\ Cardinality(P("client")) = Entries("client")
      /\ Cardinality(P("xml")) = Entries("xml")
      /\ Cardinality(P("or20")) = Entries("or20")
  BY <1>1 DEF Kinds
<1>6. /\ Entries("client") \in 0 .. MAXCLISOCKETS
      /\ Entries("xml") \in 0 .. MAXCLISOCKETS
      /\ Entries("or20") \in 0 .. MAXCLISOCKETS
  BY UsedFinite DEF Kinds
<1>7. Cardinality({}) = 0
  BY FS_EmptySet
<1>8. ASSUME NEW S, NEW T, IsFiniteSet(S), IsFiniteSet(T), S \cap T = {},
             Cardinality(S) \in Nat, Cardinality(T) \in Nat
      PROVE  IsFiniteSet(S \cup T) /\ Cardinality(S \cup T) = Cardinality(S) + Cardinality(T)
  <2>1. /\ IsFiniteSet(S \cup T)
        /\ Cardinality(S \cup T) = Cardinality(S) + Cardinality(T) - Cardinality(S \cap T)
    BY <1>8, FS_Union
  <2>2. Cardinality(S \cap T) = 0
    BY <1>7, <1>8
  <2> QED
    BY <1>8, <2>1, <2>2
<1>9. /\ IsFiniteSet(P("client") \cup P("xml"))
      /\ Cardinality(P("client") \cup P("xml")) = Entries("client") + Entries("xml")
  BY <1>4, <1>5, <1>6, <1>8
<1>10. /\ IsFiniteSet(InUse)
       /\ Cardinality(InUse) = Entries("client") + Entries("xml") + Entries("or20")
  <2> DEFINE S == P("client") \cup P("xml")
  <2>1. /\ IsFiniteSet(S) /\ Cardinality(S) = Entries("client") + Entries("xml")
        /\ Cardinality(S) \in Nat /\ S \cap P("or20") = {} /\ InUse = S \cup P("or20")
    BY <1>2, <1>4, <1>6, <1>9
  <2>2. IsFiniteSet(P("or20")) /\ Cardinality(P("or20")) = Entries("or20")
        /\ Cardinality(P("or20")) \in Nat
    BY <1>5, <1>6
  <2> HIDE DEF S
  <2>3. /\ IsFiniteSet(S \cup P("or20"))
        /\ Cardinality(S \cup P("or20")) = Cardinality(S) + Cardinality(P("or20"))
    BY <1>8, <2>1, <2>2
  <2> QED
    BY <2>1, <2>2, <2>3
<1> QED
  BY <1>6, <1>10, SizeAssumption DEF NInUse, Total

\* The places of the entries in use run from 1, without a gap.
LEMMA Places ==
  \A n \in 1 .. NInUse : \E w \in InUse : Place(w) = n
<1> DEFINE U(w) == {v \in InUse : Rank(v) <= Rank(w)}
           N == NInUse
<1>1. IsFiniteSet(InUse) /\ N \in Nat /\ N = Cardinality(InUse)
  BY InUseTotal, FS_CardinalityType DEF NInUse
<1>2. ASSUME NEW w \in InUse
      PROVE  IsFiniteSet(U(w)) /\ w \in U(w) /\ Place(w) = Cardinality(U(w)) /\ Place(w) \in 1 .. N
  <2>1. Rank(w) \in Nat
    BY RankType DEF InUse
  <2>2. w \in U(w) /\ U(w) \in SUBSET InUse
    BY <2>1
  <2>3. IsFiniteSet(U(w)) /\ Cardinality(U(w)) <= N
    BY <1>1, <2>2, FS_Subset
  <2>4. Cardinality(U(w)) \in Nat /\ Cardinality(U(w)) # 0
    BY <2>2, <2>3, FS_CardinalityType, FS_EmptySet
  <2> QED
    BY <1>1, <2>2, <2>3, <2>4 DEF Place
<1>3. ASSUME NEW v \in InUse, NEW w \in InUse, Place(v) = Place(w) PROVE v = w
  <2>1. ASSUME NEW x \in InUse, NEW y \in InUse, Place(x) = Place(y), Rank(x) < Rank(y)
        PROVE  FALSE
    <3>1. Rank(x) \in Nat /\ Rank(y) \in Nat /\ \A z \in InUse : Rank(z) \in Nat
      BY RankType DEF InUse
    <3>2. U(x) \in SUBSET U(y) /\ y \notin U(x)
      BY <2>1, <3>1
    <3>3. U(x) = U(y)
      BY <1>2, <2>1, <3>2, FS_Subset
    <3> QED
      BY <1>2, <3>2, <3>3
  <2>2. Rank(v) \in Nat /\ Rank(w) \in Nat /\ (Rank(v) = Rank(w) => v = w)
    BY RankType DEF InUse
  <2> QED
    BY <1>3, <2>1, <2>2
<1> SUFFICES ASSUME NEW n \in 1 .. N, \A w \in InUse : Place(w) # n
             PROVE  FALSE
  OBVIOUS
<1> DEFINE T == (1 .. N) \ {n}
           f == [w \in InUse |-> Place(w)]
<1>4. f \in [InUse -> T]
  BY <1>2
<1>5. IsFiniteSet(1 .. N) /\ Cardinality(1 .. N) = N
  BY <1>1, FS_Interval
<1>6. IsFiniteSet(T) /\ Cardinality(T) = N - 1
  BY <1>5, FS_RemoveElement
<1>7. Cardinality(T) < Cardinality(InUse)
  BY <1>1, <1>6
<1> HIDE DEF T, f
<1>8. \E v, w \in InUse : v # w /\ f[v] = f[w]
  BY <1>1, <1>4, <1>6, <1>7, FS_PigeonHole
<1> QED
  BY <1>3, <1>8 DEF f

\* The copy holds each client once.
LEMMA CopyOnce ==
  ASSUME TablesTyped, Sound
  PROVE  /\ \A n \in 1 .. NInUse : FdAt(n) \in Fds /\ Where(FdAt(n)) # {}
         /\ \A m, n \in 1 .. NInUse : FdAt(m) = FdAt(n) => m = n
<1>1. /\ socks \in [Kinds -> [Index -> Fds \cup {Free}]]
      /\ \A j \in Kinds, m \in Index :
           socks[j][m] # Free => Where(socks[j][m]) = {<<j, m>>}
  BY DEF TablesTyped, Sound, TablesHoldOpenSockets
<1>2. ASSUME NEW n \in 1 .. NInUse
      PROVE  \E w \in InUse : Place(w) = n /\ FdAt(n) = socks[w[1]][w[2]]
  <2> DEFINE w == CHOOSE w \in InUse : Place(w) = n
  <2>1. w \in InUse /\ Place(w) = n
    BY Places
  <2>2. FdAt(n) = socks[w[1]][w[2]]
    BY DEF FdAt
  <2> HIDE DEF w
  <2> QED
    BY <2>1, <2>2
<1>3. ASSUME NEW w \in InUse
      PROVE  /\ socks[w[1]][w[2]] \in Fds
             /\ Where(socks[w[1]][w[2]]) = {w}
  <2>1. w[1] \in Kinds /\ w[2] \in Index /\ w = <<w[1], w[2]>> /\ socks[w[1]][w[2]] # Free
    BY EntryPair DEF InUse
  <2> QED
    BY <1>1, <2>1
<1>4. \A n \in 1 .. NInUse : FdAt(n) \in Fds /\ Where(FdAt(n)) # {}
  BY <1>2, <1>3
<1>5. ASSUME NEW m \in 1 .. NInUse, NEW n \in 1 .. NInUse, FdAt(m) = FdAt(n)
      PROVE  m = n
  <2>1. PICK v \in InUse : Place(v) = m /\ FdAt(m) = socks[v[1]][v[2]]
    BY <1>2
  <2>2. PICK w \in InUse : Place(w) = n /\ FdAt(n) = socks[w[1]][w[2]]
    BY <1>2
  <2>3. {v} = {w}
    BY <1>3, <1>5, <2>1, <2>2
  <2>4. v = w
    BY <2>3
  <2> QED
    BY <2>1, <2>2, <2>4
<1> QED
  BY <1>4, <1>5
-----------------------------------------------------------------------------
(***************************************************************************)
(* The loop                                                                *)
(***************************************************************************)

\* The listen sockets the round still comes to.
ToCome(s) == CASE s = "client" -> Kinds [] s = "xml" -> {"xml", "or20"}
               [] s = "or20" -> {"or20"} [] OTHER -> {}
Stages == {"top", "poll", "scan", "done"} \cup Kinds
Failed == nfailed["client"] + nfailed["xml"] + nfailed["or20"]
Nothing == [listens |-> {}, inputs |-> {}]

Typed ==
  /\ TablesTyped
  /\ nfailed \in [Kinds -> Nat] /\ Failed <= MAXFAILED
  /\ pending \subseteq Kinds /\ revents \subseteq Kinds
  /\ stage \in Stages /\ pos \in Nat \ {0} /\ nready \in Int /\ npolled \in Int
  /\ stage = "poll" => pos = 1

\* What is reported as readable is a descriptor.
InputsOK ==
  /\ inputs \subseteq 1 .. Room /\ \A n \in inputs : polled[n] \in Fds

\* A connection that poll reported is there until its accept.
Waiting ==
  stage \in Kinds => \A k \in ToCome(stage) \cap revents : k \in pending \/ Do_exit

\* nready covers everything that is still to be handled.
Dues ==
  \/ due = Nothing
  \/ /\ stage \in Kinds \cup {"scan"}
     /\ due = [listens |-> revents \cap ToCome(stage), inputs |-> inputs \cap (pos .. npolled)]
     /\ Cardinality(due.listens) + Cardinality(due.inputs) <= nready

\* The part of the copy that is still to be read holds clients, each once.
Copied ==
  stage \in {"poll", "scan"} \cup Kinds /\ (\A k \in Kinds : nfailed[k] = 0) =>
    /\ \A n \in pos .. npolled : polled[n] \in Fds /\ Where(polled[n]) # {}
    /\ \A m, n \in pos .. npolled : polled[m] = polled[n] => m = n

Inv == /\ Typed /\ Sound /\ CountsDriftByFailures
       /\ InputsOK /\ Waiting /\ Dues /\ Copied

LEMMA StageStep ==
  ASSUME NEW k \in Kinds
  PROVE  /\ NextStage(k) \in {"xml", "or20", "scan"}
         /\ k \in ToCome(k) /\ ToCome(NextStage(k)) = ToCome(k) \ {k}
         /\ ToCome(k) \subseteq Kinds /\ k \in Stages \ {"top", "poll", "scan", "done"}
<1>1. CASE k = "client"
  BY <1>1 DEF NextStage, ToCome, Kinds, Stages
<1>2. CASE k = "xml"
  BY <1>2 DEF NextStage, ToCome, Kinds, Stages
<1>3. CASE k = "or20"
  BY <1>3 DEF NextStage, ToCome, Kinds, Stages
<1> QED
  BY <1>1, <1>2, <1>3 DEF Kinds

LEMMA Initially == ASSUME Init PROVE Inv
<1>1. TablesTyped
  BY FreeIsNoFd DEF Init, TablesTyped
<1>2. \A k \in Kinds, i \in Index : socks[k][i] = Free
  BY DEF Init
<1>3. Sound
  BY <1>2 DEF Init, Sound, TablesHoldOpenSockets, NoSocketForgotten
<1>4. Typed
  BY <1>1, FailedAssumption DEF Init, Typed, Failed, Stages, Kinds
<1>5. \A k \in Kinds : Entries(k) = 0
  <2>1. \A k \in Kinds : UsedIn(k) = {}
    BY <1>2 DEF UsedIn
  <2> QED
    BY <2>1, UsedFinite, FS_EmptySet
<1>6. CountsDriftByFailures
  BY <1>5 DEF Init, CountsDriftByFailures
<1>7. InputsOK /\ Waiting /\ Dues /\ Copied
  BY SizeAssumption DEF Init, InputsOK, Room, Waiting, Dues, Nothing, Copied, Kinds
<1> QED
  BY <1>3, <1>4, <1>6, <1>7 DEF Inv

\* A counter drifts by what nfailed counts.
LEMMA CountsNext ==
  ASSUME TablesTyped, TablesTyped', CountsDriftByFailures,
         Do_exit' \/ /\ Do_exit' = Do_exit
                     /\ nfailed \in [Kinds -> Nat]
                     /\ \A k \in Kinds : Drift(k)' - Drift(k) = nfailed'[k] - nfailed[k]
                     /\ nfailed' \in [Kinds -> Nat]
  PROVE  CountsDriftByFailures'
<1>1. CASE Do_exit'
  BY <1>1 DEF CountsDriftByFailures
<1>2. CASE /\ ~Do_exit /\ Do_exit' = Do_exit
           /\ nfailed \in [Kinds -> Nat]
           /\ \A k \in Kinds : Drift(k)' - Drift(k) = nfailed'[k] - nfailed[k]
           /\ nfailed' \in [Kinds -> Nat]
  <2>1. ASSUME NEW k \in Kinds PROVE count'[k] = Entries(k)' + nfailed'[k]
    <3>1. count[k] \in Int /\ count'[k] \in Int
      BY DEF TablesTyped
    <3>2. Entries(k) \in Int /\ Entries(k)' \in Int
      <4>1. Entries(k)' = Cardinality(UsedIn(k)')
        BY DEF Entries, UsedIn
      <4>2. UsedIn(k)' \in SUBSET Index
        BY DEF UsedIn
      <4>3. IsFiniteSet(Index)
        BY SizeAssumption, FS_Interval DEF Index
      <4> QED
        BY UsedFinite, <4>1, <4>2, <4>3, FS_Subset, FS_CardinalityType
    <3>3. count[k] = Entries(k) + nfailed[k]
      BY <1>2 DEF CountsDriftByFailures
    <3>4. (count'[k] - Entries(k)') - (count[k] - Entries(k)) = nfailed'[k] - nfailed[k]
      BY <1>2 DEF Drift
    <3>5. nfailed[k] \in Int /\ nfailed'[k] \in Int
      BY <1>2
    <3> QED
      BY <3>1, <3>2, <3>3, <3>4, <3>5
  <2> QED
    BY <2>1 DEF CountsDriftByFailures
<1> QED
  BY <1>1, <1>2

\* The tables stay as they are.
LEMMA SameTables ==
  ASSUME TablesTyped, Sound, CountsDriftByFailures, nfailed \in [Kinds -> Nat],
         UNCHANGED <<tables, kernel, leaked, nfailed>>, Do_exit' \/ Do_exit' = Do_exit
  PROVE  /\ TablesTyped' /\ Sound' /\ CountsDriftByFailures'
         /\ \A g : Where(g)' = Where(g)
<1>1. UNCHANGED <<socks, count, kernel, leaked, nfailed>>
  BY DEF tables
<1>2. \A g : Where(g)' = Where(g)
  BY <1>1 DEF Where
<1>3. TablesTyped' /\ Sound'
  BY <1>1, <1>2 DEF TablesTyped, Sound, TablesHoldOpenSockets, NoSocketForgotten
<1>4. CountsDriftByFailures'
  BY <1>1 DEF CountsDriftByFailures, Entries
<1> QED
  BY <1>2, <1>3, <1>4

\* The copy stays as good as it was as long as nobody in it is forgotten.
LEMMA CopiedNext ==
  ASSUME Copied, UNCHANGED round, pos \in Nat, pos' \in Nat, pos <= pos', npolled \in Int,
         stage' \in {"poll", "scan"} \cup Kinds => stage \in {"poll", "scan"} \cup Kinds,
         (\A k \in Kinds : nfailed'[k] = 0) => \A k \in Kinds : nfailed[k] = 0,
         \A n \in pos' .. npolled, g \in Fds :
           g = polled[n] /\ Where(g) # {}
             /\ (\A m \in pos .. npolled : polled[m] = polled[n] => m = n) => Where(g)' # {}
  PROVE  Copied'
<1> SUFFICES ASSUME stage' \in {"poll", "scan"} \cup Kinds,
                    \A k \in Kinds : nfailed'[k] = 0
             PROVE  /\ \A n \in pos' .. npolled' : polled'[n] \in Fds /\ Where(polled[n])' # {}
                    /\ \A m, n \in pos' .. npolled' : polled'[m] = polled'[n] => m = n
  BY DEF Copied
<1>1. polled' = polled /\ npolled' = npolled
  BY DEF round
<1>2. /\ \A n \in pos .. npolled : polled[n] \in Fds /\ Where(polled[n]) # {}
      /\ \A m, n \in pos .. npolled : polled[m] = polled[n] => m = n
  BY DEF Copied
<1>3. \A n \in pos' .. npolled : n \in pos .. npolled
  OBVIOUS
<1>4. ASSUME NEW n \in pos' .. npolled PROVE polled[n] \in Fds /\ Where(polled[n])' # {}
  <2>1. PICK g \in Fds : g = polled[n]
    BY <1>2, <1>3
  <2>2. Where(g) # {}
    BY <1>2, <1>3, <2>1
  <2>3. Where(g)' # {}
    BY <1>2, <1>3, <2>1, <2>2
  <2>4. Where(polled[n])' = Where(g)'
    BY <1>1, <2>1 DEF Where
  <2> QED
    BY <2>1, <2>3, <2>4
<1> QED
  BY <1>1, <1>2, <1>3, <1>4
\* What every accept does to the round.
LEMMA AcceptRound ==
  ASSUME Inv, NEW k \in Kinds, stage = k, k \in revents,
         due' = [due EXCEPT !.listens = @ \ {k}],
         Handled(NextStage(k)), UNCHANGED <<round, pos, revents, inputs>>,
         pending \ {k} \subseteq pending', Do_exit => Do_exit'
  PROVE  /\ InputsOK' /\ Waiting' /\ Dues'
         /\ stage' \in Stages \ {"poll", "done"} /\ nready' \in Int
<1>1. /\ revents' = revents /\ inputs' = inputs /\ pos' = pos
      /\ polled' = polled /\ npolled' = npolled
  BY DEF round
<1>2. /\ nready' = nready - 1 /\ nready \in Int
      /\ stage' = IF nready' <= 0 THEN "top" ELSE NextStage(k)
  BY DEF Handled, Inv, Typed
<1>3. /\ NextStage(k) \in {"xml", "or20", "scan"}
      /\ k \in ToCome(k) /\ ToCome(NextStage(k)) = ToCome(k) \ {k}
      /\ ToCome(k) \subseteq Kinds /\ k \in Stages \ {"top", "poll", "scan", "done"}
  BY StageStep
<1>4. InputsOK'
  BY <1>1 DEF Inv, InputsOK
<1>5. Waiting'
  <2>1. \A j \in ToCome(k) \cap revents : j \in pending \/ Do_exit
    BY DEF Inv, Waiting
  <2>2. stage' \in Kinds => ToCome(stage') = ToCome(k) \ {k}
    BY <1>2, <1>3 DEF Kinds
  <2> QED
    BY <1>1, <2>1, <2>2 DEF Waiting
<1>6. Dues'
  <2>1. CASE due = Nothing
    <3>1. due' = Nothing
      BY <2>1 DEF Nothing
    <3> QED
      BY <3>1 DEF Dues
  <2>2. CASE /\ due = [listens |-> revents \cap ToCome(k), inputs |-> inputs \cap (pos .. npolled)]
             /\ Cardinality(due.listens) + Cardinality(due.inputs) <= nready
    <3> DEFINE L == revents \cap ToCome(k)
               N == inputs \cap (pos .. npolled)
    <3>1. due = [listens |-> L, inputs |-> N] /\ due' = [listens |-> L \ {k}, inputs |-> N]
      BY <2>2
    <3>2. IsFiniteSet(L)
      <4>1. Kinds = {"client"} \cup {"xml"} \cup {"or20"}
        BY DEF Kinds
      <4>2. IsFiniteSet(Kinds)
        BY <4>1, FS_Singleton, FS_Union
      <4> QED
        BY <1>3, <4>2, FS_Subset
    <3>3. IsFiniteSet(N)
      <4>1. pos \in Int /\ npolled \in Int
        BY DEF Inv, Typed
      <4> QED
        BY <4>1, FS_Interval, FS_Subset
    <3>4. Cardinality(L \ {k}) = Cardinality(L) - 1 /\ IsFiniteSet(L \ {k})
      <4>1. k \in L
        BY <1>3
      <4> QED
        BY <3>2, <4>1, FS_RemoveElement
    <3>5. Cardinality(L) \in Nat /\ Cardinality(N) \in Nat /\ Cardinality(L \ {k}) \in Nat
      BY <3>2, <3>3, <3>4, FS_CardinalityType
    <3>6. Cardinality(L) + Cardinality(N) <= nready
      BY <2>2, <3>1
    <3>7. Cardinality(L \ {k}) + Cardinality(N) <= nready'
      BY <1>2, <3>4, <3>5, <3>6
    <3>8. CASE nready' <= 0
      <4>1. Cardinality(L \ {k}) = 0 /\ Cardinality(N) = 0
        BY <1>2, <3>5, <3>7, <3>8
      <4>2. L \ {k} = {} /\ N = {}
        BY <3>3, <3>4, <4>1, FS_EmptySet
      <4> QED
        BY <3>1, <4>2 DEF Dues, Nothing
    <3>9. CASE stage' = NextStage(k)
      <4>1. L \ {k} = revents' \cap ToCome(stage') /\ N = inputs' \cap (pos' .. npolled')
        BY <1>1, <1>3, <3>9
      <4>2. stage' \in Kinds \cup {"scan"}
        BY <1>3, <3>9 DEF Kinds
      <4>3. due'.listens = L \ {k} /\ due'.inputs = N
        BY <3>1
      <4>4. due' = [listens |-> revents' \cap ToCome(stage'),
                    inputs |-> inputs' \cap (pos' .. npolled')]
        BY <3>1, <4>1
      <4>5. Cardinality(due'.listens) + Cardinality(due'.inputs) <= nready'
        BY <3>7, <4>3
      <4> QED
        BY <4>2, <4>4, <4>5 DEF Dues
    <3> QED
      BY <1>2, <3>8, <3>9
  <2> QED
    BY <2>1, <2>2 DEF Inv, Dues
<1> QED
  BY <1>2, <1>3, <1>4, <1>5, <1>6 DEF Stages, Kinds

LEMMA AcceptStep ==
  ASSUME Inv, NEW k \in Kinds, Accept(k)
  PROVE  Inv'
<1>1. /\ stage = k /\ k \in revents /\ pending' = pending \ {k}
      /\ due' = [due EXCEPT !.listens = @ \ {k}]
      /\ Handled(NextStage(k)) /\ UNCHANGED <<round, pos, revents, inputs>>
      /\ Do_exit' = Do_exit /\ nfailed' = nfailed
  BY DEF Accept
<1>2. /\ InputsOK' /\ Waiting' /\ Dues'
      /\ stage' \in Stages \ {"poll", "done"} /\ nready' \in Int
  BY <1>1, AcceptRound
<1>3. PICK fd \in FreeFds :
        /\ add_client(k, fd)
        /\ kernel' = [kernel EXCEPT ![fd] = k]
        /\ leaked' = IF UNCHANGED socks THEN leaked \cup {fd} ELSE leaked
  BY DEF Accept
<1>4. fd \in Fds /\ kernel[fd] = "free"
  BY FaultsAssumption DEF FreeFds, Usable
<1>5. TablesTyped /\ Sound /\ CountsDriftByFailures /\ Copied
  BY DEF Inv, Typed
<1>6. /\ TablesTyped' /\ Sound'
      /\ \A j \in Kinds : Drift(j)' = Drift(j)
      /\ \A g \in Fds : Where(g) \subseteq Where(g)'
  BY <1>3, <1>4, <1>5, AcceptTables
<1>7. Typed'
  BY <1>1, <1>2, <1>6 DEF Inv, Typed, Failed, round
<1>8. CountsDriftByFailures'
  <2>1. nfailed \in [Kinds -> Nat]
    BY DEF Inv, Typed
  <2>2. \A j \in Kinds : Drift(j)' - Drift(j) = nfailed'[j] - nfailed[j]
    <3>1. ASSUME NEW j \in Kinds PROVE Drift(j) \in Int /\ nfailed[j] \in Int
      BY <1>5, <2>1, UsedFinite DEF TablesTyped, Drift
    <3> QED
      BY <1>1, <1>6, <3>1
  <2> QED
    BY <1>1, <1>5, <1>6, <2>1, <2>2, CountsNext
<1>9. Copied'
  <2>1. pos \in Nat /\ pos' = pos /\ npolled \in Int /\ stage \in Kinds
    BY <1>1 DEF Inv, Typed
  <2>2. \A g \in Fds : Where(g) # {} => Where(g)' # {}
    BY <1>6
  <2> QED
    BY <1>1, <1>5, <2>1, <2>2, CopiedNext
<1> QED
  BY <1>2, <1>6, <1>7, <1>8, <1>9 DEF Inv

\* Of both kinds.
LEMMA FailStep ==
  ASSUME Inv, NEW k \in Kinds, AcceptError(k) \/ AcceptInterrupted(k)
  PROVE  Inv'
<1>1. /\ stage = k /\ k \in revents /\ add_client(k, -1)
      /\ due' = [due EXCEPT !.listens = @ \ {k}]
      /\ Handled(NextStage(k)) /\ UNCHANGED <<round, pos, revents, inputs>>
      /\ UNCHANGED <<kernel, leaked>>
      /\ pending' \subseteq pending /\ pending \ {k} \subseteq pending'
      /\ Do_exit => Do_exit'
  BY DEF AcceptError, AcceptInterrupted, AcceptFailed
<1>2. /\ InputsOK' /\ Waiting' /\ Dues'
      /\ stage' \in Stages \ {"poll", "done"} /\ nready' \in Int
  BY <1>1, AcceptRound
<1>3. TablesTyped /\ Sound /\ CountsDriftByFailures /\ Copied
      /\ nfailed \in [Kinds -> Nat] /\ Failed <= MAXFAILED
  BY DEF Inv, Typed
<1>4. /\ TablesTyped' /\ Sound'
      /\ \A j \in Kinds :
           Drift(j)' = IF j = k /\ Unused(k) # {} THEN Drift(j) + 1 ELSE Drift(j)
      /\ \A g \in Fds : Where(g)' = Where(g)
  BY <1>1, <1>3, FailTables
<1>5. CASE Do_exit' /\ nfailed' = nfailed
  <2>1. Typed'
    BY <1>1, <1>2, <1>4, <1>5 DEF Inv, Typed, Failed, round
  <2>2. CountsDriftByFailures'
    BY <1>5 DEF CountsDriftByFailures
  <2>3. Copied'
    <3>1. pos \in Nat /\ pos' = pos /\ npolled \in Int /\ stage \in Kinds
      BY <1>1 DEF Inv, Typed
    <3> QED
      BY <1>1, <1>3, <1>4, <1>5, <3>1, CopiedNext
  <2> QED
    BY <1>2, <1>4, <2>1, <2>2, <2>3 DEF Inv
<1>6. CASE /\ Failed < MAXFAILED /\ Do_exit' = Do_exit
           /\ nfailed' = [nfailed EXCEPT ![k] = IF Unused(k) = {} THEN @ ELSE @ + 1]
  <2>1. /\ nfailed' \in [Kinds -> Nat]
        /\ \A j \in Kinds :
             nfailed'[j] = IF j = k /\ Unused(k) # {} THEN nfailed[j] + 1 ELSE nfailed[j]
    BY <1>3, <1>6
  <2>2. Failed' <= MAXFAILED
    <3>1. /\ nfailed["client"] \in Nat /\ nfailed["xml"] \in Nat /\ nfailed["or20"] \in Nat
          /\ nfailed'["client"] \in Nat /\ nfailed'["xml"] \in Nat /\ nfailed'["or20"] \in Nat
      BY <1>3, <2>1 DEF Kinds
    <3>2. Failed' <= Failed + 1
      <4>1. "client" \in Kinds /\ "xml" \in Kinds /\ "or20" \in Kinds
        BY DEF Kinds
      <4>2. CASE k = "client"
        BY <2>1, <3>1, <4>1, <4>2 DEF Failed
      <4>3. CASE k = "xml"
        BY <2>1, <3>1, <4>1, <4>3 DEF Failed
      <4>4. CASE k = "or20"
        BY <2>1, <3>1, <4>1, <4>4 DEF Failed
      <4> QED
        BY <4>2, <4>3, <4>4 DEF Kinds
    <3>3. Failed \in Nat /\ Failed' \in Nat
      BY <3>1 DEF Failed
    <3> QED
      BY <1>6, <3>2, <3>3, FailedAssumption
  <2>3. Typed'
    BY <1>1, <1>2, <1>4, <2>1, <2>2 DEF Inv, Typed, round
  <2>4. CountsDriftByFailures'
    <3>1. \A j \in Kinds : Drift(j)' - Drift(j) = nfailed'[j] - nfailed[j]
      <4>1. ASSUME NEW j \in Kinds PROVE Drift(j) \in Int /\ nfailed[j] \in Int
        BY <1>3, UsedFinite DEF TablesTyped, Drift
      <4> QED
        BY <1>4, <2>1, <4>1
    <3> QED
      BY <1>3, <1>4, <1>6, <2>1, <3>1, CountsNext
  <2>5. Copied'
    <3>1. pos \in Nat /\ pos' = pos /\ npolled \in Int /\ stage \in Kinds
      BY <1>1 DEF Inv, Typed
    <3>2. (\A j \in Kinds : nfailed'[j] = 0) => \A j \in Kinds : nfailed[j] = 0
      BY <1>3, <2>1
    <3> QED
      BY <1>1, <1>3, <1>4, <3>1, <3>2, CopiedNext
  <2> QED
    BY <1>2, <1>4, <2>3, <2>4, <2>5 DEF Inv
<1> QED
  BY <1>5, <1>6 DEF AcceptError, AcceptInterrupted, Failed
LEMMA TopStep ==
  ASSUME Inv, Top
  PROVE  Inv'
<1>1. /\ stage = "top" /\ pos' = 1 /\ nready' = 0
      /\ UNCHANGED <<tables, revents, Do_exit, kernel, pending, leaked, nfailed, due>>
  BY DEF Top, outside
<1>2. TablesTyped /\ Sound /\ CountsDriftByFailures /\ nfailed \in [Kinds -> Nat]
      /\ Failed <= MAXFAILED /\ npolled \in Int /\ InputsOK
  BY DEF Inv, Typed
<1>3. TablesTyped' /\ Sound' /\ CountsDriftByFailures' /\ \A g : Where(g)' = Where(g)
  BY <1>1, <1>2, SameTables
<1>4. Waiting' /\ Dues'
  <2>1. stage' \in {"done", "poll"}
    BY DEF Top
  <2>2. due' = Nothing
    BY <1>1 DEF Inv, Dues, Kinds
  <2> QED
    BY <2>1, <2>2 DEF Waiting, Dues, Kinds
<1>5. CASE Do_exit
  <2>1. stage' = "done" /\ UNCHANGED <<polled, npolled, inputs>>
    BY <1>5 DEF Top, round
  <2>2. Typed' /\ InputsOK' /\ Copied'
    BY <1>1, <1>2, <1>3, <2>1 DEF Inv, Typed, Failed, InputsOK, Copied, Stages, Kinds
  <2> QED
    BY <1>3, <1>4, <2>2 DEF Inv
<1>6. CASE ~Do_exit
  <2>1. /\ stage' = "poll" /\ inputs' = Leftover(inputs, NInUse)
        /\ polled' = [n \in 1 .. Room |-> IF n <= NInUse THEN FdAt(n) ELSE LeftAt(n)]
        /\ npolled' = count["client"] + count["xml"] + count["or20"]
    BY <1>6 DEF Top, copy_clients
  <2>2. /\ NInUse = Total /\ Total \in 0 .. 3 * MAXCLISOCKETS
        /\ \A k \in Kinds : Entries(k) \in Nat
    BY InUseTotal, UsedFinite, SizeAssumption
  <2>3. npolled' = Total + Failed /\ Failed \in Nat
    <3>1. \A k \in {"client", "xml", "or20"} :
            count[k] = Entries(k) + nfailed[k] /\ nfailed[k] \in Nat /\ Entries(k) \in Nat
      BY <1>2, <1>6, <2>2 DEF CountsDriftByFailures, Kinds
    <3>2. /\ count["client"] = Entries("client") + nfailed["client"]
          /\ count["xml"] = Entries("xml") + nfailed["xml"]
          /\ count["or20"] = Entries("or20") + nfailed["or20"]
          /\ nfailed["client"] \in Nat /\ nfailed["xml"] \in Nat /\ nfailed["or20"] \in Nat
          /\ Entries("client") \in Nat /\ Entries("xml") \in Nat /\ Entries("or20") \in Nat
      BY <3>1
    <3>3. \A a, b, c, x, y, z \in Nat : (a + x) + (b + y) + (c + z) = (a + b + c) + (x + y + z)
      OBVIOUS
    <3>4. npolled' = (Entries("client") + nfailed["client"]) + (Entries("xml") + nfailed["xml"])
                       + (Entries("or20") + nfailed["or20"])
      BY <2>1, <3>2
    <3>5. npolled' = (Entries("client") + Entries("xml") + Entries("or20"))
                       + (nfailed["client"] + nfailed["xml"] + nfailed["or20"])
      BY <3>2, <3>3, <3>4
    <3>6. nfailed["client"] + nfailed["xml"] + nfailed["or20"] \in Nat
      BY <3>2
    <3> QED
      BY <3>5, <3>6 DEF Total, Failed
  <2>4. npolled' \in Int /\ 3 * MAXCLISOCKETS <= Room /\ Room \in Nat
    BY <1>2, <2>2, <2>3, SizeAssumption DEF Room
  <2>5. Typed'
    BY <1>1, <1>2, <1>3, <2>1, <2>4 DEF Inv, Typed, Failed, Stages
  <2>6. InputsOK'
    <3>1. inputs' \subseteq inputs /\ \A n \in inputs' : n > NInUse /\ faulty
      BY <2>1 DEF Leftover
    <3>2. ASSUME NEW n \in inputs' PROVE polled'[n] \in Fds
      <4>1. n \in 1 .. Room /\ polled[n] \in Fds /\ n > NInUse /\ faulty
        BY <1>2, <3>1 DEF InputsOK
      <4>2. ~(n <= NInUse)
        BY <2>2, <4>1
      <4> QED
        BY <2>1, <4>1, <4>2 DEF LeftAt
    <3> QED
      BY <1>2, <2>4, <3>1, <3>2 DEF InputsOK, Room
  <2>7. Copied'
    <3> SUFFICES ASSUME \A k \in Kinds : nfailed[k] = 0
                 PROVE  /\ \A n \in 1 .. npolled' : polled'[n] \in Fds /\ Where(polled[n])' # {}
                        /\ \A m, n \in 1 .. npolled' : polled'[m] = polled'[n] => m = n
      BY <1>1, <2>1 DEF Copied
    <3>1. npolled' = NInUse
      <4>1. Failed = 0
        BY DEF Failed, Kinds
      <4> QED
        BY <2>2, <2>3, <4>1
    <3>2. \A n \in 1 .. NInUse : n \in 1 .. Room /\ polled'[n] = FdAt(n)
      <4>1. NInUse \in Nat /\ NInUse <= Room
        BY <2>2, <2>4, SizeAssumption
      <4> QED
        BY <2>1, <2>4, <4>1
    <3>3. /\ \A n \in 1 .. NInUse : FdAt(n) \in Fds /\ Where(FdAt(n)) # {}
          /\ \A m, n \in 1 .. NInUse : FdAt(m) = FdAt(n) => m = n
      BY <1>2, CopyOnce
    <3>4. ASSUME NEW n \in 1 .. NInUse PROVE polled'[n] \in Fds /\ Where(polled[n])' # {}
      <4>1. PICK g \in Fds : g = polled'[n] /\ Where(g) # {}
        BY <3>2, <3>3
      <4>2. Where(g)' # {}
        BY <1>3, <4>1
      <4>3. Where(polled[n])' = Where(g)'
        BY <4>1 DEF Where
      <4> QED
        BY <4>1, <4>2, <4>3
    <3> QED
      BY <3>1, <3>2, <3>3, <3>4
  <2> QED
    BY <1>3, <1>4, <2>5, <2>6, <2>7 DEF Inv
<1> QED
  BY <1>5, <1>6

LEMMA PollStep ==
  ASSUME Inv, Poll
  PROVE  Inv'
<1> DEFINE Given == {n \in 1 .. npolled : polled[n] \in Fds}
           Open  == {n \in Given : kernel[polled[n]] # "free"}
<1>1. /\ stage = "poll" /\ stage' = "client" /\ revents' = pending
      /\ UNCHANGED <<tables, round, pos, Do_exit, kernel, pending, leaked, nfailed>>
  BY DEF Poll, outside
<1>2. PICK readable \in SUBSET Open :
        \E hangups \in SUBSET (Open \ readable), usb \in 0 .. 1 :
          /\ nready' = Cardinality(revents') + Cardinality(readable)
                       + Cardinality(hangups) + Cardinality(Given \ Open) + usb
          /\ inputs' = readable \cup Leftover(inputs, npolled)
          /\ due' = [listens |-> revents', inputs |-> readable]
  BY DEF Poll
<1>3. PICK hangups \in SUBSET (Open \ readable), usb \in 0 .. 1 :
        /\ nready' = Cardinality(revents') + Cardinality(readable)
                     + Cardinality(hangups) + Cardinality(Given \ Open) + usb
        /\ inputs' = readable \cup Leftover(inputs, npolled)
        /\ due' = [listens |-> revents', inputs |-> readable]
  BY <1>2
<1>4. TablesTyped /\ Sound /\ CountsDriftByFailures /\ nfailed \in [Kinds -> Nat]
      /\ npolled \in Int /\ InputsOK /\ pos = 1 /\ pending \subseteq Kinds
  BY <1>1 DEF Inv, Typed
<1>5. /\ polled' = polled /\ npolled' = npolled /\ pos' = 1
  BY <1>1, <1>4 DEF round
<1>6. TablesTyped' /\ Sound' /\ CountsDriftByFailures' /\ \A g : Where(g)' = Where(g)
  BY <1>1, <1>4, SameTables
<1>7. /\ Cardinality(revents') \in Nat /\ Cardinality(readable) \in Nat
      /\ Cardinality(hangups) \in Nat /\ Cardinality(Given \ Open) \in Nat
  <2>1. IsFiniteSet(1 .. npolled)
    BY <1>4, FS_Interval
  <2>2. \A S \in SUBSET (1 .. npolled) : IsFiniteSet(S)
    BY <2>1, FS_Subset
  <2>3. readable \in SUBSET (1 .. npolled) /\ hangups \in SUBSET (1 .. npolled)
        /\ Given \ Open \in SUBSET (1 .. npolled)
    OBVIOUS
  <2>4. Kinds = {"client"} \cup {"xml"} \cup {"or20"}
    BY DEF Kinds
  <2>5. IsFiniteSet(Kinds)
    BY <2>4, FS_Singleton, FS_Union
  <2>6. IsFiniteSet(revents')
    BY <1>1, <1>4, <2>5, FS_Subset
  <2> QED
    BY <2>2, <2>3, <2>6, FS_CardinalityType
<1>8. /\ nready' \in Int
      /\ Cardinality(revents') + Cardinality(readable) <= nready'
  BY <1>3, <1>7
<1>9. Leftover(inputs, npolled) \subseteq inputs
      /\ \A n \in Leftover(inputs, npolled) : n > npolled
  BY DEF Leftover
<1>10. Typed'
  BY <1>1, <1>4, <1>5, <1>6, <1>8 DEF Inv, Typed, Failed, Stages, Kinds
<1>11. InputsOK'
  <2>1. readable \subseteq 1 .. Room /\ \A n \in readable : polled[n] \in Fds
    <3>1. npolled <= Room
      BY DEF Poll, InArray
    <3> QED
      BY <1>4, <3>1, SizeAssumption DEF Room
  <2> QED
    BY <1>3, <1>4, <1>5, <1>9, <2>1 DEF InputsOK
<1>12. Waiting'
  BY <1>1 DEF Waiting
<1>13. Dues'
  <2>1. readable = inputs' \cap (1 .. npolled)
    <3>1. readable \subseteq 1 .. npolled
      OBVIOUS
    <3>2. \A n \in Leftover(inputs, npolled) : n \notin 1 .. npolled
      BY <1>4, <1>9
    <3> QED
      BY <1>3, <3>1, <3>2
  <2>2. revents' = revents' \cap ToCome("client")
    BY <1>1, <1>4 DEF ToCome
  <2>3. due'.listens = revents' /\ due'.inputs = readable
    BY <1>3
  <2>4. due' = [listens |-> revents' \cap ToCome(stage'),
                inputs |-> inputs' \cap (pos' .. npolled')]
    BY <1>1, <1>3, <1>5, <2>1, <2>2
  <2> QED
    BY <1>1, <1>8, <2>3, <2>4 DEF Dues, Kinds
<1>14. Copied'
  BY <1>1, <1>4, <1>5, <1>6, CopiedNext DEF Inv
<1> QED
  BY <1>6, <1>10, <1>11, <1>12, <1>13, <1>14 DEF Inv

LEMMA ReadStep ==
  ASSUME Inv, Read
  PROVE  Inv'
<1> DEFINE fd == polled[pos]
           N == inputs \cap (pos .. npolled)
<1>1. /\ stage = "scan" /\ pos <= npolled /\ pos \in inputs
      /\ due' = [due EXCEPT !.inputs = @ \ {pos}]
      /\ Handled("scan") /\ pos' = pos + 1
      /\ UNCHANGED <<round, revents, inputs, Do_exit, pending, leaked, nfailed>>
      /\ ReadData(fd) \/ ReadEnd(fd)
  BY DEF Read
<1>2. /\ TablesTyped /\ Sound /\ CountsDriftByFailures /\ nfailed \in [Kinds -> Nat]
      /\ npolled \in Int /\ InputsOK /\ pos \in Nat \ {0} /\ nready \in Int /\ Copied
  BY DEF Inv, Typed
<1>3. fd \in Fds
  BY <1>1, <1>2 DEF InputsOK
<1>4. PICK f \in Fds : f = fd
  BY <1>3
<1>5. /\ TablesTyped' /\ Sound'
      /\ \A j \in Kinds : Drift(j)' = Drift(j)
      /\ \A g \in Fds \ {f} : Where(g)' = Where(g)
  <2>1. ReadData(f) \/ ReadEnd(f)
    BY <1>1, <1>4 DEF ReadData, ReadEnd, or20client, del_client, Close, Where
  <2> QED
    BY <1>1, <1>2, <2>1, ReadTables
<1>6. /\ polled' = polled /\ npolled' = npolled /\ revents' = revents /\ inputs' = inputs
      /\ nready' = nready - 1 /\ stage' = IF nready' <= 0 THEN "top" ELSE "scan"
  BY <1>1 DEF round, Handled
<1>7. Typed'
  BY <1>1, <1>2, <1>5, <1>6 DEF Inv, Typed, Failed, Stages
<1>8. CountsDriftByFailures'
  <2>1. \A j \in Kinds : Drift(j)' - Drift(j) = nfailed'[j] - nfailed[j]
    <3>1. ASSUME NEW j \in Kinds PROVE Drift(j) \in Int /\ nfailed[j] \in Int
      BY <1>2, UsedFinite DEF TablesTyped, Drift
    <3> QED
      BY <1>1, <1>5, <3>1
  <2> QED
    BY <1>1, <1>2, <1>5, <2>1, CountsNext
<1>9. InputsOK' /\ Waiting'
  BY <1>1, <1>2, <1>6 DEF InputsOK, Waiting, Kinds
<1>10. Copied'
  <2>1. ASSUME NEW n \in pos' .. npolled, NEW g \in Fds, g = polled[n], Where(g) # {},
               \A m \in pos .. npolled : polled[m] = polled[n] => m = n
        PROVE  Where(g)' # {}
    <3>1. pos \in pos .. npolled /\ pos # n
      BY <1>1, <1>2, <2>1
    <3>2. g # f
      BY <1>4, <2>1, <3>1
    <3> QED
      BY <1>5, <2>1, <3>2
  <2> QED
    BY <1>1, <1>2, <2>1, CopiedNext
<1>11. Dues'
  <2>1. CASE due = Nothing
    <3>1. due' = Nothing
      BY <1>1, <2>1 DEF Nothing
    <3> QED
      BY <3>1 DEF Dues
  <2>2. CASE /\ due = [listens |-> revents \cap ToCome("scan"), inputs |-> N]
             /\ Cardinality(due.listens) + Cardinality(due.inputs) <= nready
    <3>1. revents \cap ToCome("scan") = {}
      BY DEF ToCome
    <3>2. due = [listens |-> {}, inputs |-> N] /\ due' = [listens |-> {}, inputs |-> N \ {pos}]
      BY <1>1, <2>2, <3>1
    <3>3. IsFiniteSet(N)
      <4>1. N \in SUBSET (pos .. npolled) /\ pos \in Int /\ npolled \in Int
        BY <1>2
      <4> QED
        BY <4>1, FS_Interval, FS_Subset
    <3>4. IsFiniteSet(N \ {pos}) /\ Cardinality(N \ {pos}) = Cardinality(N) - 1
      <4>1. pos \in N
        BY <1>1, <1>2
      <4> QED
        BY <3>3, <4>1, FS_RemoveElement
    <3>5. Cardinality(N) \in Nat /\ Cardinality(N \ {pos}) \in Nat /\ Cardinality({}) = 0
      BY <3>3, <3>4, FS_CardinalityType, FS_EmptySet
    <3>6. Cardinality({}) + Cardinality(N) <= nready
      <4>1. due.listens = {} /\ due.inputs = N
        BY <3>2
      <4> QED
        BY <2>2, <4>1
    <3>7. Cardinality(N \ {pos}) <= nready'
      BY <1>2, <1>6, <3>4, <3>5, <3>6
    <3>8. CASE nready' <= 0
      <4>1. Cardinality(N \ {pos}) = 0
        BY <1>2, <1>6, <3>5, <3>7, <3>8
      <4>2. N \ {pos} = {}
        BY <3>4, <4>1, FS_EmptySet
      <4> QED
        BY <3>2, <4>2 DEF Dues, Nothing
    <3>9. CASE stage' = "scan"
      <4>1. N \ {pos} = inputs' \cap (pos' .. npolled')
        BY <1>1, <1>2, <1>6
      <4>2. revents' \cap ToCome(stage') = {}
        BY <3>9 DEF ToCome
      <4>3. due'.listens = {} /\ due'.inputs = N \ {pos}
        BY <3>2
      <4>4. due' = [listens |-> revents' \cap ToCome(stage'),
                    inputs |-> inputs' \cap (pos' .. npolled')]
        BY <3>2, <4>1, <4>2
      <4>5. Cardinality(due'.listens) + Cardinality(due'.inputs) <= nready'
        BY <1>2, <1>6, <3>5, <3>7, <4>3
      <4> QED
        BY <3>9, <4>4, <4>5 DEF Dues
    <3> QED
      BY <1>6, <3>8, <3>9
  <2> QED
    BY <1>1, <2>1, <2>2 DEF Inv, Dues
<1> QED
  BY <1>5, <1>7, <1>8, <1>9, <1>10, <1>11 DEF Inv
\* The steps that look at no table.
LEMMA PassStep ==
  ASSUME Inv, UNCHANGED <<tables, round, inputs, revents, kernel, leaked, nfailed, due>>,
         pos' \in Nat \ {0}, pos <= pos', nready' \in Int, stage' \in Stages,
         pending \subseteq pending', pending' \subseteq Kinds,
         Do_exit' \/ Do_exit' = Do_exit, stage' = "poll" => pos' = 1,
         stage' \in {"poll", "scan"} \cup Kinds => stage \in {"poll", "scan"} \cup Kinds,
         Waiting', Dues'
  PROVE  Inv'
<1>1. TablesTyped /\ Sound /\ CountsDriftByFailures /\ nfailed \in [Kinds -> Nat]
      /\ npolled \in Int /\ pos \in Nat /\ Copied
  BY DEF Inv, Typed
<1>2. TablesTyped' /\ Sound' /\ CountsDriftByFailures' /\ \A g : Where(g)' = Where(g)
  BY <1>1, SameTables
<1>3. Typed'
  BY <1>2 DEF Inv, Typed, Failed, round
<1>4. InputsOK'
  BY DEF Inv, InputsOK, round
<1>5. Copied'
  BY <1>1, <1>2, CopiedNext
<1> QED
  BY <1>2, <1>3, <1>4, <1>5 DEF Inv

LEMMA NotReadyStep ==
  ASSUME Inv, NEW k \in Kinds, NotReady(k)
  PROVE  Inv'
<1>1. /\ stage = k /\ k \notin revents /\ stage' = NextStage(k)
      /\ UNCHANGED <<tables, round, pos, nready, revents, inputs, Do_exit, kernel,
                     pending, leaked, nfailed, due>>
  BY DEF NotReady, outside
<1>2. /\ NextStage(k) \in {"xml", "or20", "scan"}
      /\ k \in ToCome(k) /\ ToCome(NextStage(k)) = ToCome(k) \ {k}
  BY StageStep
<1>3. revents' \cap ToCome(stage') = revents \cap ToCome(stage)
  BY <1>1, <1>2
<1>4. Waiting'
  BY <1>1, <1>3 DEF Inv, Waiting
<1>5. Dues'
  BY <1>1, <1>2, <1>3 DEF Inv, Dues, Kinds, round
<1>6. pos \in Nat \ {0} /\ nready \in Int /\ pending \subseteq Kinds /\ stage' \in Stages
      /\ stage' # "poll" /\ stage \in Kinds
  BY <1>1, <1>2 DEF Inv, Typed, Stages, Kinds
<1> QED
  BY <1>1, <1>4, <1>5, <1>6, PassStep

LEMMA ScanStep ==
  ASSUME Inv, Skip \/ RoundEnds
  PROVE  Inv'
<1>1. /\ stage = "scan" /\ stage' \in {"scan", "top"}
      /\ UNCHANGED <<tables, round, nready, revents, inputs, Do_exit, kernel,
                     pending, leaked, nfailed, due>>
  BY DEF Skip, RoundEnds, outside
<1>2. pos \in Nat \ {0} /\ nready \in Int /\ pending \subseteq Kinds /\ npolled \in Int
  BY DEF Inv, Typed
<1>3. pos' \in Nat \ {0} /\ pos <= pos'
  BY <1>2 DEF Skip, RoundEnds
<1>4. Dues'
  <2>1. CASE due = Nothing
    BY <1>1, <2>1 DEF Dues, Nothing
  <2>2. CASE /\ due = [listens |-> revents \cap ToCome(stage),
                       inputs |-> inputs \cap (pos .. npolled)]
             /\ Cardinality(due.listens) + Cardinality(due.inputs) <= nready
    <3>1. CASE pos <= npolled /\ pos \notin inputs /\ pos' = pos + 1 /\ stage' = stage
      <4>1. inputs \cap (pos .. npolled) = inputs' \cap (pos' .. npolled')
        BY <1>1, <1>2, <3>1 DEF round
      <4> QED
        BY <1>1, <2>2, <3>1, <4>1 DEF Dues
    <3>2. CASE pos > npolled
      <4>1. inputs \cap (pos .. npolled) = {} /\ ToCome(stage) = {}
        BY <1>1, <1>2, <3>2 DEF ToCome
      <4> QED
        BY <1>1, <2>2, <4>1 DEF Dues, Nothing
    <3> QED
      BY <1>1, <3>1, <3>2 DEF Skip, RoundEnds
  <2> QED
    BY <2>1, <2>2 DEF Inv, Dues
<1>5. Waiting' /\ stage' \in Stages
  BY <1>1 DEF Waiting, Stages, Kinds
<1> QED
  BY <1>1, <1>2, <1>3, <1>4, <1>5, PassStep

LEMMA OutsideStep ==
  ASSUME Inv, PollInterrupted \/ Signal \/ (\E k \in Kinds : Connect(k))
  PROVE  Inv'
<1>1. pos \in Nat \ {0} /\ nready \in Int /\ pending \subseteq Kinds /\ stage \in Stages
      /\ (stage = "poll" => pos = 1)
  BY DEF Inv, Typed
<1>2. CASE PollInterrupted
  <2>1. /\ stage = "poll" /\ Do_exit' = TRUE /\ nready' = -1 /\ stage' = "client"
        /\ UNCHANGED <<tables, round, pos, revents, inputs, kernel, pending, leaked,
                       nfailed, due>>
    BY <1>2 DEF PollInterrupted, outside
  <2>2. Dues' /\ Waiting'
    BY <2>1 DEF Inv, Dues, Waiting, Nothing, Kinds
  <2>3. stage' \in Stages /\ nready' \in Int
    BY <2>1 DEF Stages, Kinds
  <2> QED
    BY <1>1, <2>1, <2>2, <2>3, PassStep
<1>3. CASE Signal
  <2>1. /\ Do_exit' = TRUE
        /\ UNCHANGED <<tables, round, stage, pos, nready, revents, inputs, kernel, pending,
                       leaked, nfailed, due>>
    BY <1>3 DEF Signal, outside
  <2>2. Dues' /\ Waiting'
    BY <2>1 DEF Inv, Dues, Waiting, round
  <2> QED
    BY <1>1, <2>1, <2>2, PassStep
<1>4. ASSUME NEW k \in Kinds, Connect(k) PROVE Inv'
  <2>1. /\ pending' = pending \cup {k}
        /\ UNCHANGED <<tables, round, stage, pos, nready, revents, inputs, Do_exit, kernel,
                       leaked, nfailed, due>>
    BY <1>4 DEF Connect
  <2>2. Dues' /\ Waiting'
    BY <2>1 DEF Inv, Dues, Waiting, round
  <2> QED
    BY <1>1, <2>1, <2>2, PassStep
<1> QED
  BY <1>2, <1>3, <1>4

LEMMA Stays ==
  ASSUME Inv, [Next]_vars
  PROVE  Inv'
<1>1. CASE Daemon
  BY <1>1, TopStep, ReadStep, ScanStep, NotReadyStep, AcceptStep, FailStep DEF Daemon
<1>2. CASE Reports
  BY <1>2, PollStep DEF Reports
<1>3. CASE Outside
  BY <1>3, OutsideStep, FailStep DEF Outside
<1>4. CASE UNCHANGED vars
  <2>1. UNCHANGED <<tables, round, stage, pos, nready, revents, inputs, Do_exit, kernel,
                    pending, leaked, nfailed, due>>
    BY <1>4 DEF vars, outside
  <2>2. pos \in Nat \ {0} /\ nready \in Int /\ pending \subseteq Kinds /\ stage \in Stages
        /\ (stage = "poll" => pos = 1)
    BY DEF Inv, Typed
  <2>3. Dues' /\ Waiting'
    BY <2>1 DEF Inv, Dues, Waiting, round
  <2> QED
    BY <2>1, <2>2, <2>3, PassStep
<1> QED
  BY <1>1, <1>2, <1>3, <1>4 DEF Next

LEMMA Always == Spec => []Inv
BY Initially, Stays, PTL DEF Spec

-----------------------------------------------------------------------------
(***************************************************************************)
(* The theorems                                                            *)
(***************************************************************************)

\* A descriptor is in one entry, of the table of its port, and a closed one in
\* none, however accepts, overflows, failures and hangups follow each other: the
\* double close of an OpenRemote client and the reuse of its number by the next
\* accept do no harm.
THEOREM HoldOpenSockets == Spec => []TablesHoldOpenSockets
<1>1. Inv => TablesHoldOpenSockets
  BY DEF Inv, Sound
<1> QED
  BY <1>1, Always, PTL

\* Whoever was accepted is in a table until his socket is closed, unless the
\* table was full when he came.
THEOREM NoneForgotten == Spec => []NoSocketForgotten
<1>1. Inv => NoSocketForgotten
  BY DEF Inv, Sound
<1> QED
  BY <1>1, Always, PTL

\* Only accepts that fail while the table has room make a counter drift, by one
\* for good; del_client always counts down the table it has cleared.
THEOREM CountsDrift == Spec => []CountsDriftByFailures
<1>1. Inv => CountsDriftByFailures
  BY DEF Inv
<1> QED
  BY <1>1, Always, PTL

\* Whatever poll reported is handled before the next poll: nready, which also
\* counts descriptors of libusb, hangups and closed descriptors, never reaches
\* zero too early.
THEOREM RoundServes == Spec => []RoundServesAll
<1>1. Inv => RoundServesAll
  BY DEF Inv, Dues, RoundServesAll, Nothing, Kinds
<1> QED
  BY <1>1, Always, PTL

\* The loop never waits in accept unless it has been told to exit.
THEOREM AcceptPrompt == Spec => []AcceptNeverWaits
<1>1. Inv => AcceptNeverWaits
  BY StageStep DEF Inv, Waiting, AcceptNeverWaits
<1> QED
  BY <1>1, Always, PTL

\* While no accept has failed the copy that poll was given names, from where the
\* scan stands, clients that are still there.
THEOREM ReadsClients == Spec => []ReadsClientsOnly
<1>1. ASSUME Inv PROVE ReadsClientsOnly
  <2> SUFFICES ASSUME stage = "scan", pos <= npolled, pos \in inputs,
                      \A k \in Kinds : nfailed[k] = 0
               PROVE  kernel[polled[pos]] # "free" /\ Where(polled[pos]) # {}
    BY DEF ReadsClientsOnly
  <2>1. pos \in pos .. npolled
    BY <1>1 DEF Inv, Typed
  <2>2. polled[pos] \in Fds /\ Where(polled[pos]) # {}
    BY <1>1, <2>1 DEF Inv, Copied
  <2>3. PICK w \in Entry : socks[w[1]][w[2]] = polled[pos]
    BY <2>2 DEF Where
  <2>4. w[1] \in Kinds /\ w[2] \in Index
    BY EntryPair
  <2>5. kernel[polled[pos]] = w[1]
    BY <1>1, <2>2, <2>3, <2>4, FreeIsNoFd DEF Inv, Sound, TablesHoldOpenSockets
  <2> QED
    BY <2>2, <2>4, <2>5, FreeIsNoFd
<1>2. Inv => ReadsClientsOnly
  BY <1>1
<1> QED
  BY <1>2, Always, PTL

=============================================================================
