---------------------------- MODULE CodecProofs -----------------------------
(***************************************************************************)
(* Theorems about the frames of encode.c and decode.c, for every house and *)
(* unit, every amount a client may ask for and every security address.     *)
(* A state of Codec is one command, so the work is in the operators: one   *)
(* lemma per kind of frame says what the daemon that sends it and the      *)
(* daemon that receives it decode.                                         *)
(***************************************************************************)
EXTENDS Codec, TLAPS

(***************************************************************************)
(* Bytes and tables                                                        *)
(***************************************************************************)

\* A byte of two nibbles, and what the masks of encode.c make of it.
LEMMA Nibbles ==
  ASSUME NEW a \in 0 .. 15, NEW b \in 0 .. 15
  PROVE  High(16 * a + b) = a /\ Low(16 * a + b) = b
BY DEF High, Low

\* b ^ 0x0f and b ^ 0xff differ for every byte: the two kinds of RF frame
\* that start alike (standard and 8 bit security) are told apart.
LEMMA ChecksDiffer ==
  ASSUME NEW b \in Int
  PROVE  Inv4(b) # Inv8(b)
<1>1. b \div 16 \in Int
  OBVIOUS
<1>2. b % 16 \in 0 .. 15
  OBVIOUS
<1>3. b = 16 * (b \div 16) + (b % 16)
  OBVIOUS
<1>4. ASSUME NEW q \in Int, NEW r \in 0 .. 15, b = 16 * q + r
      PROVE  16 * q + (15 - r) # 255 - b
  BY <1>4
<1> QED
  BY <1>1, <1>2, <1>3, <1>4 DEF Inv4, Inv8, High, Low

LEMMA BitIsBit ==
  ASSUME NEW b \in Int
  PROVE  /\ Bit(b, 0) \in {0, 1} /\ Bit(b, 1) \in {0, 1}
         /\ Bit(b, 2) \in {0, 1} /\ Bit(b, 3) \in {0, 1}
BY DEF Bit

\* The four low bits of a unit.
LEMMA UnitBits ==
  ASSUME NEW u \in 0 .. 15
  PROVE  u = 8 * Bit(u, 3) + 4 * Bit(u, 2) + 2 * Bit(u, 1) + Bit(u, 0)
BY DEF Bit

\* The tables of decode.c undo those of encode.c.
LEMMA TablesInverse ==
  ASSUME NEW i \in 0 .. 15
  PROVE  /\ x10housecode[i] \in 0 .. 15 /\ HouseUnitTable[x10housecode[i]] = i
         /\ x10housecoderf[i] \in 0 .. 15
         /\ HouseUnitTableRF[x10housecoderf[i]] = i
<1>1. x10housecode[i] \in 0 .. 15 /\ HouseUnitTable[x10housecode[i]] = i
  BY DEF x10housecode, HouseUnitTable, From0
<1>2. x10housecoderf[i] \in 0 .. 15 /\ HouseUnitTableRF[x10housecoderf[i]] = i
  BY DEF x10housecoderf, HouseUnitTableRF, From0
<1> QED
  BY <1>1, <1>2

\* A table that gives each code one name finds it.
LEMMA NameFound ==
  ASSUME NEW table, NEW e \in table, \A f \in table : f[1] = e[1] => f = e
  PROVE  NameIn(table, e[1]) = e[2]
BY DEF NameIn

LEMMA EventNames ==
  ASSUME NEW e \in SecEventNameslongaddr
  PROVE  NameIn(SecEventNames, e[1]) = e[2]
<1>1. e \in SecEventNames
  BY DEF SecEventNames, SecEventNameslongaddr
<1>2. \A f \in SecEventNames : f[1] = e[1] => f = e
  BY DEF SecEventNames, SecEventNameslongaddr
<1> QED
  BY <1>1, <1>2, NameFound

\* encode.c knows ARM under the code of ARM_AWAY_MIN; decode.c does not.
LEMMA KeyNames ==
  ASSUME NEW k \in SecRemoteKeyNames8bitaddr
  PROVE  NameIn(SecRemoteKeyNames, k[1])
           = IF k[2] = "ARM" THEN "ARM_AWAY_MIN" ELSE k[2]
<1> DEFINE e == IF k[2] = "ARM" THEN <<6, "ARM_AWAY_MIN">> ELSE k
<1>1. e \in SecRemoteKeyNames /\ e[1] = k[1]
  BY DEF SecRemoteKeyNames, SecRemoteKeyNames8bitaddr
<1>2. \A f \in SecRemoteKeyNames : f[1] = e[1] => f = e
  BY DEF SecRemoteKeyNames, SecRemoteKeyNames8bitaddr
<1>3. e[2] = IF k[2] = "ARM" THEN "ARM_AWAY_MIN" ELSE k[2]
  OBVIOUS
<1> HIDE DEF e
<1>4. NameIn(SecRemoteKeyNames, e[1]) = e[2]
  BY <1>1, <1>2, NameFound
<1> QED
  BY <1>1, <1>3, <1>4

-----------------------------------------------------------------------------
(***************************************************************************)
(* Frames.  Own means what the sender decodes, and every form in which     *)
(* another mochad may receive the frame is decoded to the same.            *)
(***************************************************************************)

PeerDecodesTheSame(b) == \A r \in Received(b) : cm15a_decode(r) = Decode(b)

LEMMA HouseUnitFrame ==
  ASSUME NEW h \in 0 .. 15, NEW u \in 0 .. 15
  PROVE  /\ Decode(pl_tx_houseunit(h, u)) = [what |-> "addr", house |-> h, unit |-> u]
         /\ PeerDecodesTheSame(pl_tx_houseunit(h, u))
<1> DEFINE x == 16 * x10housecode[h] + x10housecode[u]
<1>1. huc_decode(x) = <<h, u>>
  BY TablesInverse, Nibbles DEF huc_decode
<1> HIDE DEF x
<1>2. pl_tx_houseunit(h, u) = <<0, 2, 0, x>>
  BY DEF pl_tx_houseunit, x
<1>3. Decode(<<0, 2, 0, x>>) = [what |-> "addr", house |-> h, unit |-> u]
  BY <1>1 DEF Decode, IsRf, At, cm15a_decode_plc
<1>4. Received(<<0, 2, 0, x>>) = {<<90, 2, 0, x>>}
  BY DEF Received, IsRf, At
<1>5. cm15a_decode(<<90, 2, 0, x>>) = [what |-> "addr", house |-> h, unit |-> u]
  BY <1>1 DEF cm15a_decode, IsRfIn, At, cm15a_decode_plc
<1> QED
  BY <1>2, <1>3, <1>4, <1>5 DEF PeerDecodesTheSame

LEMMA FuncFrame ==
  ASSUME NEW h \in 0 .. 15, NEW f \in HouseFuncs \ Dims, NEW p
  PROVE  /\ Decode(pl_tx_housefunc(h, f, p)) = [what |-> "func", house |-> h, func |-> f]
         /\ PeerDecodesTheSame(pl_tx_housefunc(h, f, p))
<1> DEFINE x == 16 * x10housecode[h] + f
<1>1. hfc_decode(x) = <<h, f>>
  BY TablesInverse, Nibbles DEF hfc_decode, HouseFuncs
<1> HIDE DEF x
<1>2. pl_tx_housefunc(h, f, p) = <<0, 2, 1, x>>
  BY DEF pl_tx_housefunc, x
<1>3. Decode(<<0, 2, 1, x>>) = [what |-> "func", house |-> h, func |-> f]
  BY <1>1 DEF Decode, IsRf, At, cm15a_decode_plc
<1>4. Received(<<0, 2, 1, x>>) = {<<90, 2, 1, x>>}
  BY DEF Received, IsRf, At
<1>5. cm15a_decode(<<90, 2, 1, x>>) = [what |-> "func", house |-> h, func |-> f]
  BY <1>1 DEF cm15a_decode, IsRfIn, At, cm15a_decode_plc
<1> QED
  BY <1>2, <1>3, <1>4, <1>5 DEF PeerDecodesTheSame

\* The number of dims is sent in the five high bits of a byte, the low three
\* of which are 1 when it is sent and 6 when it is received.
LEMMA DimFrame ==
  ASSUME NEW h \in 0 .. 15, NEW f \in Dims, NEW p \in Nat
  PROVE  /\ Decode(pl_tx_housefunc(h, f, p))
              = [what |-> "dim", house |-> h, func |-> f, dims |-> p % 32]
         /\ PeerDecodesTheSame(pl_tx_housefunc(h, f, p))
<1> DEFINE x == 16 * x10housecode[h] + f
           y == 8 * (p % 32) + 1
           z == 8 * (y \div 8) + 6
           d == [what |-> "dim", house |-> h, func |-> f, dims |-> p % 32]
<1>1. hfc_decode(x) = <<h, f>>
  BY TablesInverse, Nibbles DEF hfc_decode, Dims, DIM, BRIGHT
<1>2. y \div 8 = p % 32 /\ z \div 8 = p % 32
  <2>1. p % 32 \in 0 .. 31
    OBVIOUS
  <2>2. y \div 8 = p % 32
    BY <2>1
  <2> QED
    BY <2>1, <2>2
<1>3. pl_tx_housefunc(h, f, p) = <<0, 3, 2, y, x>>
  BY DEF pl_tx_housefunc
<1> HIDE DEF x, y
<1>4. Decode(<<0, 3, 2, y, x>>) = d
  BY <1>1, <1>2 DEF Decode, IsRf, At, cm15a_decode_plc
<1>5. Received(<<0, 3, 2, y, x>>) = {<<90, 3, 2, z, x>>}
  BY DEF Received, IsRf, At
<1> HIDE DEF z
<1>6. cm15a_decode(<<90, 3, 2, z, x>>) = d
  BY <1>1, <1>2 DEF cm15a_decode, IsRfIn, At, cm15a_decode_plc
<1> QED
  BY <1>3, <1>4, <1>5, <1>6 DEF PeerDecodesTheSame

\* An extended code is received with its last four bytes reversed.
LEMMA ExtendedFrame ==
  ASSUME NEW h \in 0 .. 15, NEW u \in 0 .. 15, NEW p \in Nat
  PROVE  /\ Decode(pl_tx_extended_code_1(h, u, p))
              = [what |-> "ext", house |-> h, unit |-> u,
                 data |-> Byte(p), command |-> 49]
         /\ PeerDecodesTheSame(pl_tx_extended_code_1(h, u, p))
<1> DEFINE x == 16 * x10housecode[h] + 7
           y == x10housecode[u]
           z == Byte(p)
           d == [what |-> "ext", house |-> h, unit |-> u, data |-> z, command |-> 49]
<1>1. hfc_decode(x)[1] = h
  BY TablesInverse, Nibbles DEF hfc_decode
<1>2. uc_decode(y) = u
  BY TablesInverse DEF uc_decode, Low
<1>3. pl_tx_extended_code_1(h, u, p) = <<0, 5, 7, x, y, z, 49>>
  BY DEF pl_tx_extended_code_1
<1> HIDE DEF x, y, z
<1>4. Decode(<<0, 5, 7, x, y, z, 49>>) = d
  BY <1>1, <1>2 DEF Decode, IsRf, At, cm15a_decode_plc
<1>5. Received(<<0, 5, 7, x, y, z, 49>>) = {<<90, 5, 8, 49, z, y, x>>}
  BY DEF Received, IsRf, At
<1>6. cm15a_decode(<<90, 5, 8, 49, z, y, x>>) = d
  BY <1>1, <1>2 DEF cm15a_decode, IsRfIn, At, cm15a_decode_plc
<1> QED
  BY <1>3, <1>4, <1>5, <1>6 DEF PeerDecodesTheSame, z

\* What is at the start of a received frame makes no other difference.
LEMMA RfStart ==
  ASSUME NEW b \in Seq(Int), NEW r \in Seq(Int),
         r[2] = b[2], r[3] = b[3], r[4] = b[4], r[5] = b[5], r[6] = b[6],
         r[7] = b[7], r[8] = b[8]
  PROVE  cm15a_decode_rf(r) = cm15a_decode_rf(b)
<1>1. /\ At(r, 1) = At(b, 1) /\ At(r, 2) = At(b, 2) /\ At(r, 3) = At(b, 3)
      /\ At(r, 4) = At(b, 4) /\ At(r, 5) = At(b, 5) /\ At(r, 6) = At(b, 6)
      /\ At(r, 7) = At(b, 7)
  BY DEF At
<1> QED
  BY <1>1 DEF cm15a_decode_rf

\* A frame that is no standard RF code has one received form.
LEMMA OnlyStart ==
  ASSUME NEW b \in Seq(Int), Len(b) \in 5 .. 8, b[1] = 235,
         Len(b) # 6 \/ b[4] # Inv8(b[3])
  PROVE  PeerDecodesTheSame(b)
<1> DEFINE r == [b EXCEPT ![1] = 93]
<1>1. Received(b) = {r}
  BY DEF Received, IsRf, At
<1>2. r \in Seq(Int) /\ r[1] = 93 /\ r[2] = b[2] /\ r[3] = b[3] /\ r[4] = b[4]
      /\ r[5] = b[5] /\ r[6] = b[6] /\ r[7] = b[7] /\ r[8] = b[8]
  OBVIOUS
<1> HIDE DEF r
<1>3. cm15a_decode(r) = cm15a_decode_rf(r)
  BY <1>2 DEF cm15a_decode, IsRfIn, At
<1>4. cm15a_decode_rf(r) = cm15a_decode_rf(b)
  BY <1>2, RfStart
<1>5. Decode(b) = cm15a_decode_rf(b)
  BY DEF Decode, IsRf, At
<1> QED
  BY <1>1, <1>3, <1>4, <1>5 DEF PeerDecodesTheSame

LEMMA SecurityFrame8 ==
  ASSUME NEW a \in Int, NEW k \in SecRemoteKeyNames8bitaddr
  PROVE  /\ Decode(rfsec_tx_8(a, k[1]))
              = [what |-> "sec8", addr |-> a, func |-> k[1],
                 name |-> IF k[2] = "ARM" THEN "ARM_AWAY_MIN" ELSE k[2]]
         /\ PeerDecodesTheSame(rfsec_tx_8(a, k[1]))
<1> DEFINE f == k[1]
           b == <<235, 32, a, Inv4(a), f, Inv8(f)>>
<1>1. rfsec_tx_8(a, f) = b
  BY DEF rfsec_tx_8
<1>2. f \in Int /\ Inv4(a) \in Int /\ Inv8(f) \in Int
  BY DEF SecRemoteKeyNames8bitaddr, Inv4, Inv8, High, Low
<1>3. Inv4(a) # Inv8(a)
  BY ChecksDiffer
<1>4. NameIn(SecRemoteKeyNames, f) = IF k[2] = "ARM" THEN "ARM_AWAY_MIN" ELSE k[2]
  BY KeyNames
<1> HIDE DEF f
<1>5. Decode(b) = [what |-> "sec8", addr |-> a, func |-> f,
                   name |-> NameIn(SecRemoteKeyNames, f)]
  BY <1>3 DEF Decode, IsRf, At, cm15a_decode_rf
<1>6. PeerDecodesTheSame(b)
  <2>1. b \in Seq(Int) /\ Len(b) = 6 /\ b[1] = 235 /\ b[3] = a /\ b[4] = Inv4(a)
    BY <1>2
  <2> HIDE DEF b
  <2> QED
    BY <1>3, <2>1, OnlyStart
<1> QED
  BY <1>1, <1>4, <1>5, <1>6 DEF f

LEMMA SecurityFrame17 ==
  ASSUME NEW a \in 0 .. 2^24 - 1, NEW k \in SecEventNameslongaddr
  PROVE  /\ Decode(rfsec_tx_17(a, k[1]))
              = IF OddParity(Byte(a \div 256), Byte(a)) THEN Nothing
                ELSE [what |-> "sec17", func |-> k[1], name |-> k[2],
                      addr |-> <<a \div 2^16, Byte(a \div 256), Byte(a)>>]
         /\ PeerDecodesTheSame(rfsec_tx_17(a, k[1]))
<1> DEFINE f == k[1]
           t == Byte(a \div 2^16)
           m == Byte(a \div 256)
           n == Byte(a)
           b == <<235, 41, t, Inv4(t), f, Inv8(f), m, n>>
<1>1. rfsec_tx_17(a, f) = b
  BY DEF rfsec_tx_17
<1>2. t = a \div 2^16
  BY DEF Byte
<1>3. t \in Int /\ m \in Int /\ n \in Int
  BY DEF Byte
<1>4. f \in Int /\ Inv4(t) \in Int /\ Inv8(f) \in Int
  BY <1>3 DEF SecEventNameslongaddr, Inv4, Inv8, High, Low
<1>5. NameIn(SecEventNames, f) = k[2]
  BY EventNames
<1> HIDE DEF f, t, m, n
<1>6. Decode(b) = IF OddParity(m, n) THEN Nothing
                  ELSE [what |-> "sec17", addr |-> <<t, m, n>>, func |-> f,
                        name |-> NameIn(SecEventNames, f)]
  BY DEF Decode, IsRf, At, cm15a_decode_rf
<1>7. PeerDecodesTheSame(b)
  <2>1. b \in Seq(Int) /\ Len(b) = 8 /\ Len(b) # 6 /\ Len(b) \in 5 .. 8 /\ b[1] = 235
    BY <1>3, <1>4
  <2> HIDE DEF b
  <2> QED
    BY <2>1, OnlyStart
<1> QED
  BY <1>1, <1>2, <1>5, <1>6, <1>7 DEF f, m, n

LEMMA CameraFrame ==
  ASSUME NEW h \in 0 .. 15, NEW k \in CamKeys
  PROVE  /\ Decode(rfcam_tx(h, k)) = [what |-> "cam", house |-> h, key |-> k]
         /\ PeerDecodesTheSame(rfcam_tx(h, k))
<1> DEFINE x == x10housecoderf[h]
           y == 16 * x
           c == Byte(y + (k - 43))
           b == <<235, 20, c, k, y>>
<1>1. x \in 0 .. 15 /\ HouseUnitTableRF[x] = h
  BY TablesInverse
<1>2. rfcam_tx(h, k) = b
  BY DEF rfcam_tx
<1>3. High(y) = x /\ k \in Int /\ y \in Int
  BY <1>1 DEF High, CamKeys
<1>4. c \in Int
  BY <1>1, <1>3 DEF Byte
<1>5. c = Byte(16 * High(y) + (k - 43))
  BY <1>3
<1> HIDE DEF x, y, c
<1>6. Decode(b) = [what |-> "cam", house |-> HouseUnitTableRF[High(y)], key |-> k]
  BY <1>5 DEF Decode, IsRf, At, cm15a_decode_rf
<1>7. PeerDecodesTheSame(b)
  <2>1. b \in Seq(Int) /\ Len(b) = 5 /\ Len(b) # 6 /\ Len(b) \in 5 .. 8 /\ b[1] = 235
    BY <1>3, <1>4
  <2> HIDE DEF b
  <2> QED
    BY <2>1, OnlyStart
<1> QED
  BY <1>1, <1>2, <1>3, <1>6, <1>7

\* A standard RF frame carries its unit in scattered bits.  A controller may
\* have altered its check byte, which is all the difference between its two
\* received forms.
LEMMA StandardBytes ==
  ASSUME NEW x \in Int, NEW y \in Int, NEW d,
         d = hufc_decode(x, y)
  PROVE  LET b == <<235, 32, x, Inv8(x), y, Inv8(y)>>
         IN  /\ Decode(b) = [what |-> "rf", house |-> d.house, unit |-> d.unit - 1,
                             func |-> d.funcint + 2]
             /\ PeerDecodesTheSame(b)
<1> DEFINE b == <<235, 32, x, Inv8(x), y, Inv8(y)>>
           r == <<93, 32, x, Inv8(x), y, Inv8(y)>>
           a == <<93, 32, x, Inv8(x), y, InvFb(y)>>
           v == [what |-> "rf", house |-> d.house, unit |-> d.unit - 1,
                 func |-> d.funcint + 2]
<1>1. Inv4(x) # Inv8(x)
  BY ChecksDiffer
<1>2. Decode(b) = v
  BY <1>1 DEF Decode, IsRf, At, cm15a_decode_rf, CheckOk
<1>3. cm15a_decode(r) = v /\ cm15a_decode(a) = v
  <2>1. cm15a_decode(r) = v
    BY <1>1 DEF cm15a_decode, IsRfIn, At, cm15a_decode_rf, CheckOk
  <2>2. cm15a_decode(a) = v
    BY <1>1 DEF cm15a_decode, IsRfIn, At, cm15a_decode_rf, CheckOk
  <2> QED
    BY <2>1, <2>2
<1>4. Received(b) = {r, a}
  BY DEF Received, IsRf, At
<1> QED
  BY <1>2, <1>3, <1>4 DEF PeerDecodesTheSame

LEMMA StandardFrame ==
  ASSUME NEW h \in 0 .. 15, NEW u \in -1 .. 15, NEW f \in {ON, OFF} \cup Dims,
         f \in Dims \/ u # -1
  PROVE  /\ Decode(rf_tx_houseunitfunc(h, u, f))
              = [what |-> "rf", house |-> h, func |-> f,
                 unit |-> IF f \in Dims THEN -1 ELSE u]
         /\ PeerDecodesTheSame(rf_tx_houseunitfunc(h, u, f))
<1> DEFINE R == x10housecoderf[h]
           x == 16 * R + 4 * Bit(u, 3)
           y == CASE f \in {ON, OFF} ->
                       (IF f = OFF THEN 32 ELSE 0)
                       + 64 * Bit(u, 2) + 8 * Bit(u, 1) + 16 * Bit(u, 0)
                  [] f = DIM -> 152
                  [] f = BRIGHT -> 136
<1>1. rf_tx_houseunitfunc(h, u, f) = <<235, 32, x, Inv8(x), y, Inv8(y)>>
  BY DEF rf_tx_houseunitfunc
<1>2. R \in 0 .. 15 /\ HouseUnitTableRF[R] = h
  BY TablesInverse
<1>3. /\ Bit(u, 0) \in {0, 1} /\ Bit(u, 1) \in {0, 1}
      /\ Bit(u, 2) \in {0, 1} /\ Bit(u, 3) \in {0, 1}
  BY BitIsBit
<1> HIDE DEF R
<1>4. x \in Int /\ High(x) = R /\ Bit(x, 2) = Bit(u, 3)
  <2> DEFINE k == Bit(u, 3)
  <2>1. k \in {0, 1}
    BY <1>3
  <2> HIDE DEF k
  <2>2. ASSUME NEW j \in {0, 1}
        PROVE  /\ 16 * R + 4 * j \in Int /\ High(16 * R + 4 * j) = R
               /\ Bit(16 * R + 4 * j, 2) = j
    BY <1>2 DEF High, Bit
  <2> QED
    BY <2>1, <2>2 DEF k
<1>5. CASE f \in Dims
  <2>1. (f = DIM /\ y = 152) \/ (f = BRIGHT /\ y = 136)
    BY <1>5 DEF Dims, DIM, BRIGHT, ON, OFF
  <2> HIDE DEF x, y
  <2>2. hufc_decode(x, y) = [house |-> h, unit |-> 0, funcint |-> f - 2]
    BY <1>2, <1>4, <2>1 DEF hufc_decode, DIM, BRIGHT
  <2>3. y \in Int
    BY <2>1
  <2> QED
    BY <1>1, <1>4, <1>5, <2>1, <2>2, <2>3, StandardBytes DEF DIM, BRIGHT
<1>6. CASE f \notin Dims
  <2> DEFINE o == IF f = OFF THEN 1 ELSE 0
  <2>1. /\ f \in {ON, OFF} /\ o \in {0, 1} /\ f = o + 2 /\ u \in 0 .. 15
    BY <1>6 DEF ON, OFF, Dims, DIM, BRIGHT
  <2>2. y = 32 * o + 64 * Bit(u, 2) + 8 * Bit(u, 1) + 16 * Bit(u, 0)
    BY <1>3, <2>1 DEF ON, OFF, DIM, BRIGHT
  <2> HIDE DEF x, y, o
  <2>3. ASSUME NEW p \in {0, 1}, NEW i \in {0, 1}, NEW j \in {0, 1}, NEW k \in {0, 1},
               NEW z, z = 32 * p + 64 * k + 8 * j + 16 * i
        PROVE  /\ z \in Int /\ z # 136 /\ z # 152
               /\ Bit(z, 6) = k /\ Bit(z, 3) = j /\ Bit(z, 4) = i /\ Bit(z, 5) = p
    BY <2>3 DEF Bit
  <2>4. /\ y \in Int /\ y # 136 /\ y # 152
        /\ Bit(y, 6) = Bit(u, 2) /\ Bit(y, 3) = Bit(u, 1)
        /\ Bit(y, 4) = Bit(u, 0) /\ Bit(y, 5) = o
    BY <1>3, <2>1, <2>2, <2>3
  <2>5. hufc_decode(x, y)
          = [house |-> h,
             unit |-> 8 * Bit(u, 3) + 4 * Bit(u, 2) + 2 * Bit(u, 1) + Bit(u, 0) + 1,
             funcint |-> o]
    BY <1>2, <1>4, <2>4 DEF hufc_decode
  <2>6. u = 8 * Bit(u, 3) + 4 * Bit(u, 2) + 2 * Bit(u, 1) + Bit(u, 0)
    BY <2>1, UnitBits
  <2>7. hufc_decode(x, y) = [house |-> h, unit |-> u + 1, funcint |-> o]
    BY <2>5, <2>6
  <2> QED
    BY <1>1, <1>4, <1>6, <2>1, <2>4, <2>7, StandardBytes
<1> QED
  BY <1>5, <1>6

-----------------------------------------------------------------------------
(***************************************************************************)
(* Commands                                                                *)
(***************************************************************************)

\* Any command but a text is one of the kinds of frame.
LEMMA CommandFields ==
  ASSUME NEW c \in Commands
  PROVE  \/ c.op = "text" /\ c.parm \in Parms
         \/ c.op = "houseunit" /\ c.house \in 0 .. 15 /\ c.unit \in 0 .. 15
         \/ c.op = "func" /\ c.house \in 0 .. 15 /\ c.func \in HouseFuncs \ Dims
         \/ c.op = "dim" /\ c.house \in 0 .. 15 /\ c.func \in Dims /\ c.param \in Nat
         \/ c.op = "xdim" /\ c.house \in 0 .. 15 /\ c.unit \in 0 .. 15 /\ c.param \in Nat
         \/ /\ c.op = "rf" /\ c.house \in 0 .. 15 /\ c.unit \in -1 .. 15
            /\ c.func \in {ON, OFF} \cup Dims /\ (c.func \in Dims \/ c.unit # -1)
         \/ c.op = "rfsec8" /\ c.addr \in Int /\ c.key \in SecRemoteKeyNames8bitaddr
         \/ c.op = "rfsec17" /\ c.addr \in 0 .. 2^24 - 1 /\ c.key \in SecEventNameslongaddr
         \/ c.op = "rfcam" /\ c.house \in 0 .. 15 /\ c.key \in CamKeys
<1>1. CASE c \in [op : {"text"}, parm : Parms]
  BY <1>1
<1>2. CASE c \in [op : {"houseunit"}, house : Houses, unit : Units]
  BY <1>2, HousesAssumption
<1>3. CASE c \in [op : {"func"}, house : Houses, func : HouseFuncs \ Dims]
  BY <1>3, HousesAssumption
<1>4. CASE c \in [op : {"dim"}, house : Houses, func : Dims, param : Params]
  BY <1>4, HousesAssumption, ParamsAssumption
<1>5. CASE c \in [op : {"xdim"}, house : Houses, unit : Units, param : Params]
  BY <1>5, HousesAssumption, ParamsAssumption
<1>6. CASE c \in [op : {"rf"}, house : Houses, unit : Units, func : {ON, OFF} \cup Dims]
  <2>1. /\ c.op = "rf" /\ c.house \in Houses /\ c.unit \in Units
        /\ c.func \in {ON, OFF} \cup Dims
    BY <1>6
  <2>2. c.house \in 0 .. 15 /\ c.unit \in 0 .. 15
    BY <2>1, HousesAssumption
  <2> QED
    BY <2>1, <2>2
<1>7. CASE c \in [op : {"rf"}, house : Houses, unit : {-1}, func : Dims]
  <2>1. c.op = "rf" /\ c.house \in Houses /\ c.unit = -1 /\ c.func \in Dims
    BY <1>7
  <2>2. c.house \in 0 .. 15
    BY <2>1, HousesAssumption
  <2> QED
    BY <2>1, <2>2
<1>8. CASE c \in [op : {"rfsec8"}, addr : Addrs8, key : SecRemoteKeyNames8bitaddr]
  <2>1. c.op = "rfsec8" /\ c.addr \in Addrs8 /\ c.key \in SecRemoteKeyNames8bitaddr
    BY <1>8
  <2>2. c.addr \in 0 .. 255
    BY <2>1, AddrsAssumption, Zenon
  <2>3. c.addr \in Int
    BY <2>2
  <2> QED
    BY <2>1, <2>3
<1>9. CASE c \in [op : {"rfsec17"}, addr : Addrs17, key : SecEventNameslongaddr]
  <2>1. c.op = "rfsec17" /\ c.addr \in Addrs17 /\ c.key \in SecEventNameslongaddr
    BY <1>9
  <2>2. c.addr \in 0 .. 2^24 - 1
    BY <2>1, AddrsAssumption, Zenon
  <2> QED
    BY <2>1, <2>2
<1>10. CASE c \in [op : {"rfcam"}, house : Houses, key : CamKeys]
  <2>1. c.op = "rfcam" /\ c.house \in Houses /\ c.key \in CamKeys
    BY <1>10
  <2>2. c.house \in 0 .. 15
    BY <2>1, HousesAssumption
  <2> QED
    BY <2>1, <2>2
<1> QED
  BY <1>1, <1>2, <1>3, <1>4, <1>5, <1>6, <1>7, <1>8, <1>9, <1>10 DEF Commands

\* What the daemon decodes from its own frame is what the command says, and
\* every peer decodes the same, documented amount or not.
LEMMA CommandFrame ==
  ASSUME NEW c \in Commands, c.op # "text"
  PROVE  /\ Documented(c) => Decode(Encode(c)) = Meaning(c)
         /\ PeerDecodesTheSame(Encode(c))
<1>1. CASE c.op = "houseunit" /\ c.house \in 0 .. 15 /\ c.unit \in 0 .. 15
  <2>1. /\ Encode(c) = pl_tx_houseunit(c.house, c.unit)
        /\ Meaning(c) = [what |-> "addr", house |-> c.house, unit |-> c.unit]
    BY <1>1 DEF Encode, Meaning
  <2> QED
    BY <1>1, <2>1, HouseUnitFrame
<1>2. CASE c.op = "func" /\ c.house \in 0 .. 15 /\ c.func \in HouseFuncs \ Dims
  <2>1. /\ Encode(c) = pl_tx_housefunc(c.house, c.func, 0)
        /\ Meaning(c) = [what |-> "func", house |-> c.house, func |-> c.func]
    BY <1>2 DEF Encode, Meaning
  <2> QED
    BY <1>2, <2>1, FuncFrame
<1>3. CASE /\ c.op = "dim" /\ c.house \in 0 .. 15 /\ c.func \in Dims
           /\ c.param \in Nat
  <2>1. /\ Encode(c) = pl_tx_housefunc(c.house, c.func, c.param)
        /\ Meaning(c) = [what |-> "dim", house |-> c.house, func |-> c.func,
                         dims |-> c.param]
    BY <1>3 DEF Encode, Meaning
  <2>2. Documented(c) => c.param % 32 = c.param
    BY <1>3 DEF Documented
  <2> QED
    BY <1>3, <2>1, <2>2, DimFrame
<1>4. CASE /\ c.op = "xdim" /\ c.house \in 0 .. 15 /\ c.unit \in 0 .. 15
           /\ c.param \in Nat
  <2>1. /\ Encode(c) = pl_tx_extended_code_1(c.house, c.unit, c.param)
        /\ Meaning(c) = [what |-> "ext", house |-> c.house, unit |-> c.unit,
                         data |-> c.param, command |-> 49]
    BY <1>4 DEF Encode, Meaning
  <2>2. Documented(c) => Byte(c.param) = c.param
    BY <1>4 DEF Documented, Byte
  <2> QED
    BY <1>4, <2>1, <2>2, ExtendedFrame
<1>5. CASE /\ c.op = "rf" /\ c.house \in 0 .. 15 /\ c.unit \in -1 .. 15
           /\ c.func \in {ON, OFF} \cup Dims /\ (c.func \in Dims \/ c.unit # -1)
  <2>1. /\ Encode(c) = rf_tx_houseunitfunc(c.house, c.unit, c.func)
        /\ Meaning(c) = [what |-> "rf", house |-> c.house, func |-> c.func,
                         unit |-> IF c.func \in Dims THEN -1 ELSE c.unit]
    BY <1>5 DEF Encode, Meaning
  <2> QED
    BY <1>5, <2>1, StandardFrame
<1>6. CASE c.op = "rfsec8" /\ c.addr \in Int /\ c.key \in SecRemoteKeyNames8bitaddr
  <2>1. /\ Encode(c) = rfsec_tx_8(c.addr, c.key[1])
        /\ Meaning(c) = [what |-> "sec8", addr |-> c.addr, func |-> c.key[1],
                         name |-> IF c.key[2] = "ARM" THEN "ARM_AWAY_MIN"
                                  ELSE c.key[2]]
    BY <1>6 DEF Encode, Meaning
  <2> QED
    BY <1>6, <2>1, SecurityFrame8
<1>7. CASE c.op = "rfsec17" /\ c.addr \in 0 .. 2^24 - 1 /\ c.key \in SecEventNameslongaddr
  <2>1. /\ Encode(c) = rfsec_tx_17(c.addr, c.key[1])
        /\ Meaning(c)
             = IF OddParity(Byte(c.addr \div 256), Byte(c.addr)) THEN Nothing
               ELSE [what |-> "sec17", func |-> c.key[1], name |-> c.key[2],
                     addr |-> <<c.addr \div 2^16, Byte(c.addr \div 256), Byte(c.addr)>>]
    BY <1>7 DEF Encode, Meaning
  <2>2. /\ Decode(rfsec_tx_17(c.addr, c.key[1]))
             = IF OddParity(Byte(c.addr \div 256), Byte(c.addr)) THEN Nothing
               ELSE [what |-> "sec17", func |-> c.key[1], name |-> c.key[2],
                     addr |-> <<c.addr \div 2^16, Byte(c.addr \div 256), Byte(c.addr)>>]
        /\ PeerDecodesTheSame(rfsec_tx_17(c.addr, c.key[1]))
    BY <1>7, SecurityFrame17, Zenon
  <2> QED
    BY <2>1, <2>2, Zenon
<1>8. CASE c.op = "rfcam" /\ c.house \in 0 .. 15 /\ c.key \in CamKeys
  <2>1. /\ Encode(c) = rfcam_tx(c.house, c.key)
        /\ Meaning(c) = [what |-> "cam", house |-> c.house, key |-> c.key]
    BY <1>8 DEF Encode, Meaning
  <2> QED
    BY <1>8, <2>1, CameraFrame
<1> QED
  BY <1>1, <1>2, <1>3, <1>4, <1>5, <1>6, <1>7, <1>8, CommandFields

\* getdeviceaddr reads a house, and a unit of one digit or two.
LEMMA AddressRead ==
  ASSUME NEW p
  PROVE  AddressMeans(p, getdeviceaddr(p))
<1> SUFFICES ASSUME NEW h \in Houses
             PROVE  /\ p = <<h>> => getdeviceaddr(p) = <<h, -1>>
                    /\ \A n \in 1 .. 16 :
                         p \in {<<h, n \div 10, n % 10>>} \cup {q \in {<<h, n>>} : n < 10}
                           => getdeviceaddr(p) = <<h, n - 1>>
  BY DEF AddressMeans
<1>1. h \in 0 .. 15
  BY HousesAssumption
<1>2. ASSUME p = <<h>> PROVE getdeviceaddr(p) = <<h, -1>>
  BY <1>1, <1>2 DEF getdeviceaddr
<1>3. ASSUME NEW n \in 1 .. 16, p = <<h, n \div 10, n % 10>>
      PROVE  getdeviceaddr(p) = <<h, n - 1>>
  <2>1. Len(p) = 3 /\ p[1] = h /\ p[2] = n \div 10 /\ p[3] = n % 10
    BY <1>3
  <2>2. /\ n \div 10 \in {0, 1} /\ n % 10 \in 0 .. 9
        /\ 10 * (n \div 10) + (n % 10) = n
    OBVIOUS
  <2> QED
    BY <1>1, <2>1, <2>2 DEF getdeviceaddr
<1>4. ASSUME NEW n \in 1 .. 9, p = <<h, n>>
      PROVE  getdeviceaddr(p) = <<h, n - 1>>
  BY <1>1, <1>4 DEF getdeviceaddr
<1> QED
  BY <1>2, <1>3, <1>4

LEMMA NeverText ==
  ASSUME NEW b
  PROVE  Decode(b).what # "text"
<1>1. cm15a_decode_plc(b).what # "text"
  BY DEF cm15a_decode_plc, Nothing
<1>2. cm15a_decode_rf(b).what # "text"
  BY DEF cm15a_decode_rf, Nothing
<1> QED
  BY <1>1, <1>2 DEF Decode

-----------------------------------------------------------------------------
(***************************************************************************)
(* Neither property is inductive: own says nothing of the frame it was     *)
(* decoded from, which is all that peer depends on.  Inv keeps the frame   *)
(* that of the command, and what both sides decoded that of the frame.     *)
(***************************************************************************)

Sent == cmd.op # "text" /\ frame = Encode(cmd) /\ own = Decode(frame)

Inv ==
  /\ cmd \in Commands
  /\ \/ frame = <<>> /\ own = Unset
     \/ /\ cmd.op = "text" /\ frame = <<>>
        /\ own = [what |-> "text", addr |-> getdeviceaddr(cmd.parm)]
     \/ Sent
  /\ peer = Unset \/ (Sent /\ peer = own)

LEMMA InvInit == Init => Inv
BY DEF Init, Inv

LEMMA InvStep == Inv /\ [Next]_vars => Inv'
<1> SUFFICES ASSUME Inv, [Next]_vars PROVE Inv'
  OBVIOUS
<1>1. CASE Parse
  BY <1>1 DEF Parse, Inv, Sent
<1>2. CASE Transmit
  BY <1>2 DEF Transmit, Inv, Sent
<1>3. CASE Receive
  <2>1. Sent
    BY <1>3 DEF Receive, Inv
  <2>2. PICK b \in Received(frame) : peer' = cm15a_decode(b)
    BY <1>3 DEF Receive
  <2>3. cm15a_decode(b) = Decode(frame)
    BY <2>1, CommandFrame DEF Sent, Inv, PeerDecodesTheSame
  <2> QED
    BY <1>3, <2>1, <2>2, <2>3 DEF Receive, Inv, Sent
<1>4. CASE UNCHANGED vars
  BY <1>4 DEF vars, Inv, Sent
<1> QED
  BY <1>1, <1>2, <1>3, <1>4 DEF Next

LEMMA InvariantHolds == Spec => []Inv
<1> QED
  BY InvInit, InvStep, PTL DEF Spec

\* For every house, unit, key and 24 bit address, and every amount the
\* documentation allows, the daemon tells its clients (and enters in its
\* tables) what the command said: encode.c and decode.c are inverse to each
\* other and no two commands share a frame; getdeviceaddr reads the unit the
\* client wrote.
THEOREM CommandsEchoed == Spec => []EchoMeansCommand
<1>1. ASSUME Inv PROVE EchoMeansCommand
  <2>1. frame # <<>> /\ Documented(cmd) => own = Meaning(cmd)
    BY <1>1, CommandFrame DEF Inv, Sent
  <2>2. own.what = "text" => AddressMeans(cmd.parm, own.addr)
    <3>1. CASE own = Unset
      BY <3>1 DEF Unset
    <3>2. CASE own = [what |-> "text", addr |-> getdeviceaddr(cmd.parm)]
      BY <3>2, AddressRead
    <3>3. CASE Sent
      BY <3>3, NeverText DEF Sent
    <3> QED
      BY <1>1, <3>1, <3>2, <3>3 DEF Inv
  <2> QED
    BY <2>1, <2>2 DEF EchoMeansCommand
<1> QED
  BY <1>1, InvariantHolds, PTL

\* Another mochad makes of a frame what its sender made of it, in each form a
\* controller hands it over and for any amount, beyond the documented ones
\* too: the lists of device states of both agree.
THEOREM PeersAgree == Spec => []PeerAgrees
<1>1. Inv => PeerAgrees
  BY DEF Inv, PeerAgrees
<1> QED
  BY <1>1, InvariantHolds, PTL

\* No two commands with documented amounts share a frame unless they say the
\* same (ARM is short for ARM_AWAY_MIN, a dim over RF has no unit) or are
\* 17 bit security commands that decode.c refuses: on the air and on the line
\* the tables of encode.c lose nothing.
THEOREM FramesDiffer ==
  ASSUME NEW c \in Commands, NEW d \in Commands, c.op # "text", d.op # "text",
         Documented(c), Documented(d), Encode(c) = Encode(d)
  PROVE  Meaning(c) = Meaning(d)
BY CommandFrame

\* What the daemon tells of an amount beyond the documented ones: only five bits
\* of a dim (encode.c, pl_tx_housefunc) and eight of an extended dim
\* (pl_tx_extended_code_1) are sent, so it wraps around, and nothing refuses it.
AmountSent(c) ==
  CASE c.op = "dim"  -> [Meaning(c) EXCEPT !.dims = c.param % 32]
    [] c.op = "xdim" -> [Meaning(c) EXCEPT !.data = Byte(c.param)]
    [] OTHER         -> Meaning(c)

THEOREM AmountsWrap == Spec => [](frame # <<>> => own = AmountSent(cmd))
<1>1. ASSUME NEW c \in Commands, c.op # "text"
      PROVE  Decode(Encode(c)) = AmountSent(c)
  <2>1. CASE /\ c.op = "dim" /\ c.house \in 0 .. 15 /\ c.func \in Dims
             /\ c.param \in Nat
    <3>1. /\ Encode(c) = pl_tx_housefunc(c.house, c.func, c.param)
          /\ AmountSent(c) = [what |-> "dim", house |-> c.house, func |-> c.func,
                              dims |-> c.param % 32]
      BY <2>1 DEF Encode, AmountSent, Meaning
    <3> QED
      BY <2>1, <3>1, DimFrame
  <2>2. CASE /\ c.op = "xdim" /\ c.house \in 0 .. 15 /\ c.unit \in 0 .. 15
             /\ c.param \in Nat
    <3>1. /\ Encode(c) = pl_tx_extended_code_1(c.house, c.unit, c.param)
          /\ AmountSent(c) = [what |-> "ext", house |-> c.house, unit |-> c.unit,
                              data |-> Byte(c.param), command |-> 49]
      BY <2>2 DEF Encode, AmountSent, Meaning
    <3> QED
      BY <2>2, <3>1, ExtendedFrame
  <2>3. CASE c.op \notin {"dim", "xdim"}
    <3>1. AmountSent(c) = Meaning(c) /\ Documented(c)
      BY <2>3 DEF AmountSent, Documented
    <3> QED
      BY <1>1, <3>1, CommandFrame
  <2> QED
    BY <1>1, <2>1, <2>2, <2>3, CommandFields
<1>2. Inv => (frame # <<>> => own = AmountSent(cmd))
  BY <1>1 DEF Inv, Sent
<1> QED
  BY <1>2, InvariantHolds, PTL

=============================================================================
