-------------------------- MODULE PointTimesProofs ---------------------------
(***************************************************************************)
(* The parsers and the times of points, for every lidar_type, every packet *)
(* and every echo byte: the tables, the formats of the packets, and the order in  *)
(* which the points are computed.                                          *)
(***************************************************************************)
EXTENDS PointTimes, WellFoundedInduction, TLAPS

\* The offset of a laser stays below the 55560 ns from one firing to the next; that
\* of a QT, below its 166660 ns.
OneFiring(offset) == offset \in Nat /\ 3620 <= offset /\ offset <= 54670
OneFiringQT(offset) == offset \in Nat /\ 12310 <= offset /\ offset <= 146450

-----------------------------------------------------------------------------
(* The tables of the lasers. *)

\* The later assignment to a laser is one of the list's.
LEMMA AssignedIs ==
  ASSUME NEW list, NEW n \in Nat, DOMAIN list = 1 .. n, NEW i,
         \E k \in 1 .. n : i \in list[k][1]
  PROVE  i \in DOMAIN Assigned(list) /\ \E k \in 1 .. n : Assigned(list)[i] = list[k][2]
<1>. DEFINE Less == {pair \in Nat \X Nat : pair[1] < pair[2]}
            FromEnd == {j \in Nat : j < n /\ i \in list[n - j][1]}
            Last(k) == i \in list[k][1] /\ \A j \in DOMAIN list : i \in list[j][1] => j <= k
<1>1. IsWellFoundedOn(Less, Nat)
  BY NatLessThanWellFounded DEF OpToRel
<1>2. FromEnd # {}
  <2>1. PICK k \in 1 .. n : i \in list[k][1]
    OBVIOUS
  <2>2. n - k \in Nat /\ n - k < n /\ n - (n - k) = k
    BY <2>1
  <2>3. n - k \in FromEnd
    BY <2>1, <2>2
  <2>. QED
    BY <2>3
<1>3. PICK first \in FromEnd : \A j \in FromEnd : <<j, first>> \notin Less
  <2>. HIDE DEF Less, FromEnd
  <2>1. FromEnd \subseteq Nat
    BY DEF FromEnd
  <2>. QED
    BY <1>1, <1>2, <2>1, WFMin, Zenon
<1>4. n - first \in DOMAIN list /\ i \in list[n - first][1]
  OBVIOUS
<1>5. ASSUME NEW k \in DOMAIN list, i \in list[k][1]
      PROVE  k <= n - first
  <2>1. n - k \in Nat /\ n - k < n /\ n - (n - k) = k
    BY <1>5
  <2>2. n - k \in FromEnd
    BY <1>5, <2>1
  <2>3. <<n - k, first>> \notin Less /\ <<n - k, first>> \in Nat \X Nat
    BY <1>3, <2>2
  <2>4. ~(n - k < first)
    BY <2>3
  <2>. QED
    BY <2>1, <2>4
<1>6. \E k \in DOMAIN list : Last(k)
  BY <1>4, <1>5
<1>7. i \in UNION {list[k][1] : k \in DOMAIN list}
  BY <1>4
<1>8. Assigned(list)[i] = list[CHOOSE k \in DOMAIN list : Last(k)][2]
  BY <1>7 DEF Assigned
<1>9. (CHOOSE k \in DOMAIN list : Last(k)) \in DOMAIN list
  <2>. HIDE DEF Last
  <2>. QED
    BY <1>6
<1>10. i \in DOMAIN Assigned(list)
  BY <1>7 DEF Assigned
<1>. QED
  BY <1>8, <1>9, <1>10

\* A list that names every laser, and offsets of one firing only.
LEMMA AssignedTable ==
  ASSUME NEW list, NEW n \in Nat, DOMAIN list = 1 .. n, NEW lasers,
         \A i \in lasers : \E k \in 1 .. n : i \in list[k][1],
         \A k \in 1 .. n : OneFiring(list[k][2])
  PROVE  \A i \in lasers : i \in DOMAIN Assigned(list) /\ OneFiring(Assigned(list)[i])
<1>. TAKE i \in lasers
<1>1. i \in DOMAIN Assigned(list) /\ \E k \in 1 .. n : Assigned(list)[i] = list[k][2]
  <2>1. \E k \in 1 .. n : i \in list[k][1]
    OBVIOUS
  <2>. QED
    BY <2>1, AssignedIs
<1>. QED
  BY <1>1

\* Pandar40P: every laser but 7 has an offset.
LEMMA Table40 ==
  \A i \in (0 .. 39) \ {7} : i \in DOMAIN Laser40Offset /\ OneFiring(Laser40Offset[i])
<1>1. DOMAIN Shots40 = 1 .. 33
  BY DEF Shots40
<1>2. \A i \in (0 .. 39) \ {7} : \E k \in 1 .. 33 : i \in Shots40[k][1]
  BY DEF Shots40
<1>3. \A k \in 1 .. 33 : OneFiring(Shots40[k][2])
  <2>1.
    /\ OneFiring(Shots40[1][2]) /\ OneFiring(Shots40[2][2]) /\ OneFiring(Shots40[3][2])
    /\ OneFiring(Shots40[4][2]) /\ OneFiring(Shots40[5][2]) /\ OneFiring(Shots40[6][2])
    /\ OneFiring(Shots40[7][2]) /\ OneFiring(Shots40[8][2]) /\ OneFiring(Shots40[9][2])
    /\ OneFiring(Shots40[10][2]) /\ OneFiring(Shots40[11][2]) /\ OneFiring(Shots40[12][2])
    BY DEF Shots40, OneFiring
  <2>2.
    /\ OneFiring(Shots40[13][2]) /\ OneFiring(Shots40[14][2]) /\ OneFiring(Shots40[15][2])
    /\ OneFiring(Shots40[16][2]) /\ OneFiring(Shots40[17][2]) /\ OneFiring(Shots40[18][2])
    /\ OneFiring(Shots40[19][2]) /\ OneFiring(Shots40[20][2]) /\ OneFiring(Shots40[21][2])
    /\ OneFiring(Shots40[22][2]) /\ OneFiring(Shots40[23][2]) /\ OneFiring(Shots40[24][2])
    BY DEF Shots40, OneFiring
  <2>3.
    /\ OneFiring(Shots40[25][2]) /\ OneFiring(Shots40[26][2]) /\ OneFiring(Shots40[27][2])
    /\ OneFiring(Shots40[28][2]) /\ OneFiring(Shots40[29][2]) /\ OneFiring(Shots40[30][2])
    /\ OneFiring(Shots40[31][2]) /\ OneFiring(Shots40[32][2]) /\ OneFiring(Shots40[33][2])
    BY DEF Shots40, OneFiring
  <2>. QED
    BY <2>1, <2>2, <2>3
<1>. QED
  BY <1>1, <1>2, <1>3, AssignedTable DEF Laser40Offset

LEMMA Table40Misses == 7 \notin DOMAIN Laser40Offset
<1>1. DOMAIN Shots40 = 1 .. 33
  BY DEF Shots40
<1>2. \A k \in 1 .. 33 : 7 \notin Shots40[k][1]
  <2>. DEFINE Misses(lasers) == 7 \notin lasers
  <2>1.
    /\ Misses(Shots40[1][1]) /\ Misses(Shots40[2][1]) /\ Misses(Shots40[3][1])
    /\ Misses(Shots40[4][1]) /\ Misses(Shots40[5][1]) /\ Misses(Shots40[6][1])
    /\ Misses(Shots40[7][1]) /\ Misses(Shots40[8][1]) /\ Misses(Shots40[9][1])
    /\ Misses(Shots40[10][1]) /\ Misses(Shots40[11][1]) /\ Misses(Shots40[12][1])
    /\ Misses(Shots40[13][1]) /\ Misses(Shots40[14][1]) /\ Misses(Shots40[15][1])
    /\ Misses(Shots40[16][1]) /\ Misses(Shots40[17][1]) /\ Misses(Shots40[18][1])
    /\ Misses(Shots40[19][1]) /\ Misses(Shots40[20][1]) /\ Misses(Shots40[21][1])
    /\ Misses(Shots40[22][1]) /\ Misses(Shots40[23][1]) /\ Misses(Shots40[24][1])
    /\ Misses(Shots40[25][1]) /\ Misses(Shots40[26][1]) /\ Misses(Shots40[27][1])
    /\ Misses(Shots40[28][1]) /\ Misses(Shots40[29][1]) /\ Misses(Shots40[30][1])
    /\ Misses(Shots40[31][1]) /\ Misses(Shots40[32][1]) /\ Misses(Shots40[33][1])
    BY DEF Shots40
  <2>2. \A k \in 1 .. 33 : Misses(Shots40[k][1])
    <3>. HIDE DEF Misses
    <3>. QED
      BY <2>1
  <2>. QED
    BY <2>2, Zenon
<1>. QED
  BY <1>1, <1>2 DEF Laser40Offset, Assigned

\* Pandar20A.
LEMMA Table20A ==
  \A i \in 0 .. 19 : i \in DOMAIN Laser20AOffset /\ OneFiring(Laser20AOffset[i])
<1>1. DOMAIN Shots20A = 1 .. 17
  BY DEF Shots20A
<1>2. \A i \in 0 .. 19 : \E k \in 1 .. 17 : i \in Shots20A[k][1]
  BY DEF Shots20A
<1>3. \A k \in 1 .. 17 : OneFiring(Shots20A[k][2])
  <2>1.
    /\ OneFiring(Shots20A[1][2]) /\ OneFiring(Shots20A[2][2]) /\ OneFiring(Shots20A[3][2])
    /\ OneFiring(Shots20A[4][2]) /\ OneFiring(Shots20A[5][2]) /\ OneFiring(Shots20A[6][2])
    /\ OneFiring(Shots20A[7][2]) /\ OneFiring(Shots20A[8][2]) /\ OneFiring(Shots20A[9][2])
    /\ OneFiring(Shots20A[10][2]) /\ OneFiring(Shots20A[11][2]) /\ OneFiring(Shots20A[12][2])
    BY DEF Shots20A, OneFiring
  <2>2.
    /\ OneFiring(Shots20A[13][2]) /\ OneFiring(Shots20A[14][2]) /\ OneFiring(Shots20A[15][2])
    /\ OneFiring(Shots20A[16][2]) /\ OneFiring(Shots20A[17][2])
    BY DEF Shots20A, OneFiring
  <2>. QED
    BY <2>1, <2>2
<1>. QED
  BY <1>1, <1>2, <1>3, AssignedTable DEF Laser20AOffset

\* Pandar20B.
LEMMA Table20B ==
  \A i \in 0 .. 19 : i \in DOMAIN Laser20BOffset /\ OneFiring(Laser20BOffset[i])
<1>1. DOMAIN Shots20B = 1 .. 18
  BY DEF Shots20B
<1>2. \A i \in 0 .. 19 : \E k \in 1 .. 18 : i \in Shots20B[k][1]
  BY DEF Shots20B
<1>3. \A k \in 1 .. 18 : OneFiring(Shots20B[k][2])
  <2>1.
    /\ OneFiring(Shots20B[1][2]) /\ OneFiring(Shots20B[2][2]) /\ OneFiring(Shots20B[3][2])
    /\ OneFiring(Shots20B[4][2]) /\ OneFiring(Shots20B[5][2]) /\ OneFiring(Shots20B[6][2])
    /\ OneFiring(Shots20B[7][2]) /\ OneFiring(Shots20B[8][2]) /\ OneFiring(Shots20B[9][2])
    /\ OneFiring(Shots20B[10][2]) /\ OneFiring(Shots20B[11][2]) /\ OneFiring(Shots20B[12][2])
    BY DEF Shots20B, OneFiring
  <2>2.
    /\ OneFiring(Shots20B[13][2]) /\ OneFiring(Shots20B[14][2]) /\ OneFiring(Shots20B[15][2])
    /\ OneFiring(Shots20B[16][2]) /\ OneFiring(Shots20B[17][2]) /\ OneFiring(Shots20B[18][2])
    BY DEF Shots20B, OneFiring
  <2>. QED
    BY <2>1, <2>2
<1>. QED
  BY <1>1, <1>2, <1>3, AssignedTable DEF Laser20BOffset

\* Pandar64: the offsets follow from the place in the list.
LEMMA Table64 ==
  \A i \in 0 .. 63 : i \in DOMAIN Laser64Offset /\ OneFiring(Laser64Offset[i])
<1>. DEFINE Offset(k) == 3620 + IF k <= 16 THEN (k - 1) * 1304 ELSE 15 * 1304 + (k - 16) * 1968
            list == [k \in DOMAIN Fired64 |-> <<Fired64[k], Offset(k)>>]
<1>1. DOMAIN Fired64 = 1 .. 32
  BY DEF Fired64
<1>2. \A i \in 0 .. 63 : \E k \in 1 .. 32 : i \in Fired64[k]
  BY DEF Fired64
<1>3. \A k \in 1 .. 32 : OneFiring(Offset(k))
  <2>1. ASSUME NEW k \in 1 .. 16
        PROVE  Offset(k) = 3620 + (k - 1) * 1304
    OBVIOUS
  <2>2. ASSUME NEW k \in 17 .. 32
        PROVE  Offset(k) = 3620 + (19560 + (k - 16) * 1968)
    OBVIOUS
  <2>. HIDE DEF Offset
  <2>3. \A k \in 1 .. 16 : OneFiring(Offset(k))
    BY <2>1 DEF OneFiring
  <2>4. \A k \in 17 .. 32 : OneFiring(Offset(k))
    BY <2>2 DEF OneFiring
  <2>. QED
    BY <2>3, <2>4
<1>. HIDE DEF Offset
<1>4. /\ DOMAIN list = 1 .. 32
      /\ \A k \in 1 .. 32 : list[k][1] = Fired64[k] /\ list[k][2] = Offset(k)
  BY <1>1
<1>5. Laser64Offset = Assigned(list)
  BY DEF Laser64Offset, Offset
<1>. HIDE DEF list
<1>6. \A i \in 0 .. 63 : \E k \in 1 .. 32 : i \in list[k][1]
  BY <1>2, <1>4
<1>7. \A k \in 1 .. 32 : OneFiring(list[k][2])
  BY <1>3, <1>4
<1>8. \A i \in 0 .. 63 : i \in DOMAIN Assigned(list) /\ OneFiring(Assigned(list)[i])
  <2>. DEFINE all == 0 .. 63
  <2>1. \A i \in all : \E k \in 1 .. 32 : i \in list[k][1]
    BY <1>6
  <2>2. 32 \in Nat /\ DOMAIN list = 1 .. 32
    BY <1>4
  <2>. HIDE DEF all
  <2>3. \A i \in all : i \in DOMAIN Assigned(list) /\ OneFiring(Assigned(list)[i])
    BY <1>7, <2>1, <2>2, AssignedTable
  <2>. QED
    BY <2>3 DEF all
<1>. QED
  BY <1>5, <1>8

\* PandarQT.
LEMMA TableQT ==
  \A i \in 0 .. 63 : i \in DOMAIN LaserQTOffset /\ OneFiringQT(LaserQTOffset[i])
<1>1. Len(ShotsQT) = 64
  BY DEF ShotsQT
<1>2. \A k \in 1 .. 64 : OneFiringQT(ShotsQT[k])
  <2>1.
    /\ OneFiringQT(ShotsQT[1]) /\ OneFiringQT(ShotsQT[2]) /\ OneFiringQT(ShotsQT[3])
    /\ OneFiringQT(ShotsQT[4]) /\ OneFiringQT(ShotsQT[5]) /\ OneFiringQT(ShotsQT[6])
    /\ OneFiringQT(ShotsQT[7]) /\ OneFiringQT(ShotsQT[8]) /\ OneFiringQT(ShotsQT[9])
    /\ OneFiringQT(ShotsQT[10]) /\ OneFiringQT(ShotsQT[11]) /\ OneFiringQT(ShotsQT[12])
    /\ OneFiringQT(ShotsQT[13]) /\ OneFiringQT(ShotsQT[14]) /\ OneFiringQT(ShotsQT[15])
    /\ OneFiringQT(ShotsQT[16])
    BY DEF ShotsQT, OneFiringQT
  <2>2.
    /\ OneFiringQT(ShotsQT[17]) /\ OneFiringQT(ShotsQT[18]) /\ OneFiringQT(ShotsQT[19])
    /\ OneFiringQT(ShotsQT[20]) /\ OneFiringQT(ShotsQT[21]) /\ OneFiringQT(ShotsQT[22])
    /\ OneFiringQT(ShotsQT[23]) /\ OneFiringQT(ShotsQT[24]) /\ OneFiringQT(ShotsQT[25])
    /\ OneFiringQT(ShotsQT[26]) /\ OneFiringQT(ShotsQT[27]) /\ OneFiringQT(ShotsQT[28])
    /\ OneFiringQT(ShotsQT[29]) /\ OneFiringQT(ShotsQT[30]) /\ OneFiringQT(ShotsQT[31])
    /\ OneFiringQT(ShotsQT[32])
    BY DEF ShotsQT, OneFiringQT
  <2>3.
    /\ OneFiringQT(ShotsQT[33]) /\ OneFiringQT(ShotsQT[34]) /\ OneFiringQT(ShotsQT[35])
    /\ OneFiringQT(ShotsQT[36]) /\ OneFiringQT(ShotsQT[37]) /\ OneFiringQT(ShotsQT[38])
    /\ OneFiringQT(ShotsQT[39]) /\ OneFiringQT(ShotsQT[40]) /\ OneFiringQT(ShotsQT[41])
    /\ OneFiringQT(ShotsQT[42]) /\ OneFiringQT(ShotsQT[43]) /\ OneFiringQT(ShotsQT[44])
    /\ OneFiringQT(ShotsQT[45]) /\ OneFiringQT(ShotsQT[46]) /\ OneFiringQT(ShotsQT[47])
    /\ OneFiringQT(ShotsQT[48])
    BY DEF ShotsQT, OneFiringQT
  <2>4.
    /\ OneFiringQT(ShotsQT[49]) /\ OneFiringQT(ShotsQT[50]) /\ OneFiringQT(ShotsQT[51])
    /\ OneFiringQT(ShotsQT[52]) /\ OneFiringQT(ShotsQT[53]) /\ OneFiringQT(ShotsQT[54])
    /\ OneFiringQT(ShotsQT[55]) /\ OneFiringQT(ShotsQT[56]) /\ OneFiringQT(ShotsQT[57])
    /\ OneFiringQT(ShotsQT[58]) /\ OneFiringQT(ShotsQT[59]) /\ OneFiringQT(ShotsQT[60])
    /\ OneFiringQT(ShotsQT[61]) /\ OneFiringQT(ShotsQT[62]) /\ OneFiringQT(ShotsQT[63])
    /\ OneFiringQT(ShotsQT[64])
    BY DEF ShotsQT, OneFiringQT
  <2>. QED
    BY <2>1, <2>2, <2>3, <2>4
<1>3. \A i \in 0 .. 63 : i \in DOMAIN LaserQTOffset /\ LaserQTOffset[i] = ShotsQT[i + 1]
  BY <1>1 DEF LaserQTOffset, Listed
<1>. QED
  BY <1>2, <1>3

-----------------------------------------------------------------------------
(* The tables of the blocks. *)

\* No offset is as large.
Far == -2000000

\* The first n blocks of a packet have their cells; those of one firing, many of
\* them, have the same number in it, and from one firing to the next the time moves
\* on by gap at least.
Apart(blocks, sign, n, many, gap) ==
  /\ \A b \in 0 .. n - 1 : b \in DOMAIN blocks /\ blocks[b] \in Int
                           /\ Far <= sign * blocks[b] /\ sign * blocks[b] <= 600000
  /\ \A b, c \in 0 .. n - 1 :
       /\ b \div many = c \div many => blocks[b] = blocks[c]
       /\ b \div many < c \div many => sign * blocks[b] + gap <= sign * blocks[c]

\* The blocks of the lidars that count back from the packet's time.
LEMMA CountedBack ==
  ASSUME NEW n \in {6, 10, 20}, NEW many \in {1, 2}, NEW last \in {28580, 42580}
  PROVE  Apart(Plus(Steps(n, many, 55560), last), -1, n, many, 55560)
<1>. DEFINE back == Plus(Steps(n, many, 55560), last)
            f(b) == b \div many
<1>0. n % many = 0
  OBVIOUS
<1>1. PICK firings \in 1 .. 20 : firings = n \div many
  OBVIOUS
<1>2. \A b \in 0 .. n - 1 : f(b) \in 0 .. firings - 1
  BY <1>0, <1>1
<1>3. ASSUME NEW b \in 0 .. n - 1
      PROVE  b \in DOMAIN back /\ back[b] = (firings - 1 - f(b)) * 55560 + last
  <2>. DEFINE steps == Steps(n, many, 55560)
  <2>1. (n - 1 - b) \div many = firings - 1 - f(b)
    BY <1>0, <1>1
  <2>2. b \in DOMAIN steps /\ steps[b] = ((n - 1 - b) \div many) * 55560
    BY DEF Steps
  <2>. HIDE DEF steps, f
  <2>3. b \in DOMAIN Plus(steps, last) /\ Plus(steps, last)[b] = steps[b] + last
    BY <2>2 DEF Plus
  <2>. QED
    BY <2>1, <2>2, <2>3 DEF steps
<1>. HIDE DEF f, back
<1>4. ASSUME NEW b \in 0 .. n - 1
      PROVE  b \in DOMAIN back /\ back[b] \in Int
             /\ Far <= -1 * back[b] /\ -1 * back[b] <= 600000
  <2>1. PICK later \in 0 .. 19 : later = firings - 1 - f(b)
    BY <1>2
  <2>2. back[b] = later * 55560 + last
    BY <1>3, <2>1
  <2>. QED
    BY <1>3, <2>2 DEF Far
<1>5. ASSUME NEW b \in 0 .. n - 1, NEW c \in 0 .. n - 1
      PROVE  /\ f(b) = f(c) => back[b] = back[c]
             /\ f(b) < f(c) => -1 * back[b] + 55560 <= -1 * back[c]
  BY <1>2, <1>3
<1>. QED
  BY <1>4, <1>5 DEF Apart, f, back

\* Those of the QT are written out.
LEMMA CountedOnQT ==
  /\ Apart(BlockQTOffsetSingle, 1, 4, 1, 166660)
  /\ Apart(BlockQTOffsetDual, 1, 4, 2, 166660)
<1>1. /\ DOMAIN BlockQTOffsetSingle = 0 .. 3
      /\ BlockQTOffsetSingle[0] = 25710 /\ BlockQTOffsetSingle[1] = 192380
      /\ BlockQTOffsetSingle[2] = 359040 /\ BlockQTOffsetSingle[3] = 525710
  BY DEF BlockQTOffsetSingle, Listed
<1>2. /\ DOMAIN BlockQTOffsetDual = 0 .. 3
      /\ BlockQTOffsetDual[0] = 25710 /\ BlockQTOffsetDual[1] = 25710
      /\ BlockQTOffsetDual[2] = 192380 /\ BlockQTOffsetDual[3] = 192380
  BY DEF BlockQTOffsetDual, Listed
<1>3. \A b \in 0 .. 3 : b \in {0, 1, 2, 3}
  OBVIOUS
<1>4. \A b \in 0 .. 3 : b \div 1 = b /\ b \div 2 = IF b < 2 THEN 0 ELSE 1
  OBVIOUS
<1>5. Apart(BlockQTOffsetSingle, 1, 4, 1, 166660)
  <2>. HIDE DEF BlockQTOffsetSingle
  <2>1. \A b \in 0 .. 3 : b \in DOMAIN BlockQTOffsetSingle /\ BlockQTOffsetSingle[b] \in Int
                          /\ Far <= 1 * BlockQTOffsetSingle[b]
                          /\ 1 * BlockQTOffsetSingle[b] <= 600000
    BY <1>1, <1>3 DEF Far
  <2>2. \A b, c \in 0 .. 3 :
          b < c => 1 * BlockQTOffsetSingle[b] + 166660 <= 1 * BlockQTOffsetSingle[c]
    BY <1>1, <1>3
  <2>. QED
    BY <1>4, <2>1, <2>2 DEF Apart
<1>6. Apart(BlockQTOffsetDual, 1, 4, 2, 166660)
  <2>1. \A b \in 0 .. 3 : b \in DOMAIN BlockQTOffsetDual /\ BlockQTOffsetDual[b] \in Int
                          /\ Far <= 1 * BlockQTOffsetDual[b]
                          /\ 1 * BlockQTOffsetDual[b] <= 600000
    BY <1>2, <1>3 DEF Far
  <2>2. \A b, c \in 0 .. 3 :
          /\ b \div 2 = c \div 2 => BlockQTOffsetDual[b] = BlockQTOffsetDual[c]
          /\ b \div 2 < c \div 2 =>
               1 * BlockQTOffsetDual[b] + 166660 <= 1 * BlockQTOffsetDual[c]
    BY <1>2, <1>3, <1>4
  <2>. QED
    BY <2>1, <2>2 DEF Apart
<1>. QED
  BY <1>5, <1>6

\* Those of the XTs count back, and the sign turns them round.
LEMMA CountedOnXT ==
  ASSUME NEW n \in {6, 8}, NEW many \in {1, 2, 3}, n % many = 0
  PROVE  Apart(BlockXTOffset(n, many), 1, n, many, 50000)
<1>. DEFINE on == BlockXTOffset(n, many)
            f(b) == b \div many
<1>1. PICK firings \in 1 .. 8 : firings = n \div many
  OBVIOUS
<1>2. \A b \in 0 .. n - 1 : f(b) \in 0 .. firings - 1
  BY <1>1
<1>3. ASSUME NEW b \in 0 .. n - 1
      PROVE  b \in DOMAIN on /\ on[b] = 5632 - (firings - 1 - f(b)) * 50000
  <2>. DEFINE steps == Steps(n, many, 50000)
  <2>1. (n - 1 - b) \div many = firings - 1 - f(b)
    BY <1>1
  <2>2. steps[b] = ((n - 1 - b) \div many) * 50000
    BY DEF Steps
  <2>. HIDE DEF steps, f
  <2>3. b \in 0 .. 7 /\ b < n
    OBVIOUS
  <2>4. b \in DOMAIN on /\ on[b] = 5632 - steps[b]
    BY <2>3 DEF BlockXTOffset, steps
  <2>. HIDE DEF on
  <2>. QED
    BY <2>1, <2>2, <2>4
<1>. HIDE DEF f, on
<1>4. ASSUME NEW b \in 0 .. n - 1
      PROVE  b \in DOMAIN on /\ on[b] \in Int
             /\ Far <= 1 * on[b] /\ 1 * on[b] <= 600000
  <2>1. PICK later \in 0 .. 7 : later = firings - 1 - f(b)
    BY <1>2
  <2>2. on[b] = 5632 - later * 50000
    BY <1>3, <2>1
  <2>. QED
    BY <1>3, <2>2 DEF Far
<1>5. ASSUME NEW b \in 0 .. n - 1, NEW c \in 0 .. n - 1
      PROVE  /\ f(b) = f(c) => on[b] = on[c]
             /\ f(b) < f(c) => 1 * on[b] + 50000 <= 1 * on[c]
  BY <1>2, <1>3
<1>. QED
  BY <1>4, <1>5 DEF Apart, f, on

-----------------------------------------------------------------------------
(* The packets and their parsers. *)

LEMMA SizesAre ==
  /\ Sizes("Pandar40P", 10) = {1262, 1266}
  /\ Sizes("Pandar64", 6) = {1194, 1198} /\ Sizes("Pandar64", 7) = {1388, 1392}
  /\ Sizes("Pandar20A", 20) = {1270} /\ Sizes("Pandar20B", 20) = {1270}
  /\ Sizes("PandarQT", 4) = {1068, 1072}
  /\ Sizes("PandarXT-32", 8) = {1080} /\ Sizes("PandarXT-16", 8) = {568}
  /\ Sizes("PandarXTM", 8) = {820} /\ Sizes("PandarXTM", 6) = {820}
<1>1. Sizes("Pandar40P", 10) = {1262, 1266}
  BY DEF Sizes
<1>2. Sizes("Pandar64", 6) = {1194, 1198} /\ Sizes("Pandar64", 7) = {1388, 1392}
  BY DEF Sizes
<1>3. Sizes("Pandar20A", 20) = {1270} /\ Sizes("Pandar20B", 20) = {1270}
  BY DEF Sizes
<1>4. Sizes("PandarQT", 4) = {1068, 1072}
  BY DEF Sizes
<1>5. /\ Sizes("PandarXT-32", 8) = {1080} /\ Sizes("PandarXT-16", 8) = {568}
      /\ Sizes("PandarXTM", 8) = {820} /\ Sizes("PandarXTM", 6) = {820}
  BY DEF Sizes
<1>. QED
  BY <1>1, <1>2, <1>3, <1>4, <1>5

\* What the size of a packet says.
LEMMA ParserIs ==
  /\ Parser(1262) = "40" /\ Parser(1266) = "40"
  /\ Parser(1194) = "64" /\ Parser(1198) = "64" /\ Parser(1388) = "64" /\ Parser(1392) = "64"
  /\ Parser(1270) = "20"
  /\ Parser(1068) = "QT" /\ Parser(1072) = "QT"
  /\ Parser(1080) = IF type \in {"XT", "PandarXT-32"} THEN "XT" ELSE "none"
  /\ Parser(568) = IF type = "PandarXT-16" THEN "XT" ELSE "none"
  /\ Parser(820) = IF type = "PandarXTM" THEN "XT" ELSE "none"
<1>1. Parser(1262) = "40" /\ Parser(1266) = "40"
  BY SizesAre DEF Parser, Sizes64, XTTypes, XTLidars
<1>2. Parser(1194) = "64" /\ Parser(1198) = "64"
  BY SizesAre DEF Parser, Sizes64, XTTypes, XTLidars
<1>3. Parser(1388) = "64" /\ Parser(1392) = "64"
  BY SizesAre DEF Parser, Sizes64, XTTypes, XTLidars
<1>4. Parser(1270) = "20"
  BY SizesAre DEF Parser, Sizes64, XTTypes, XTLidars
<1>5. Parser(1068) = "QT" /\ Parser(1072) = "QT"
  BY SizesAre DEF Parser, Sizes64, XTTypes, XTLidars
<1>6. Parser(1080) = IF type \in {"XT", "PandarXT-32"} THEN "XT" ELSE "none"
  BY SizesAre DEF Parser, Sizes64, XTTypes, XTLidars
<1>7. Parser(568) = IF type = "PandarXT-16" THEN "XT" ELSE "none"
  BY SizesAre DEF Parser, Sizes64, XTTypes, XTLidars
<1>8. Parser(820) = IF type = "PandarXTM" THEN "XT" ELSE "none"
  BY SizesAre DEF Parser, Sizes64, XTTypes, XTLidars
<1>. QED
  BY <1>1, <1>2, <1>3, <1>4, <1>5, <1>6, <1>7, <1>8

\* The packets of each lidar.
Is40P(p) == p.lasers = 40 /\ p.blocks = 10 /\ p.size \in {1262, 1266}
Is64(p) ==
  /\ p.lasers = 64
  /\ \/ p.blocks = 6 /\ p.size \in {1194, 1198}
     \/ p.blocks = 7 /\ p.size \in {1388, 1392}
Is20(p) == p.lasers = 20 /\ p.blocks = 20 /\ p.size = 1270
IsQT(p) == p.lasers = 64 /\ p.blocks = 4 /\ p.size \in {1068, 1072}
IsXT32(p) == p.lasers = 32 /\ p.blocks = 8 /\ p.size = 1080
IsXT16(p) == p.lasers = 16 /\ p.blocks = 8 /\ p.size = 568
IsXTM(p) == p.lasers = 32 /\ p.blocks = 6 /\ p.size = 820

LEMMA Formats ==
  ASSUME sender \in Lidars, NEW p \in Packets
  PROVE  \/ sender = "Pandar40P" /\ Is40P(p)
         \/ sender = "Pandar64" /\ Is64(p)
         \/ sender \in {"Pandar20A", "Pandar20B"} /\ Is20(p)
         \/ sender = "PandarQT" /\ IsQT(p)
         \/ sender = "PandarXT-32" /\ IsXT32(p)
         \/ sender = "PandarXT-16" /\ IsXT16(p)
         \/ sender = "PandarXTM" /\ IsXTM(p)
<1>1. /\ p.lasers = Lasers(sender) /\ p.blocks \in Blocks(sender)
      /\ p.size \in Sizes(sender, p.blocks)
  BY DEF Packets
<1>2. CASE sender = "Pandar40P"
  <2>1. p.lasers = 40 /\ p.blocks = 10
    BY <1>1, <1>2 DEF Lasers, Blocks
  <2>. QED
    BY <1>1, <1>2, <2>1, SizesAre DEF Is40P
<1>3. CASE sender = "Pandar64"
  <2>1. p.lasers = 64 /\ p.blocks \in {6, 7}
    BY <1>1, <1>3, Blocks64Assumption DEF Lasers, Blocks, Blocks64Assumption
  <2>. QED
    BY <1>1, <1>3, <2>1, SizesAre DEF Is64
<1>4. CASE sender \in {"Pandar20A", "Pandar20B"}
  <2>1. p.lasers = 20 /\ p.blocks = 20
    BY <1>1, <1>4 DEF Lasers, Blocks
  <2>. QED
    BY <1>1, <1>4, <2>1, SizesAre DEF Is20
<1>5. CASE sender = "PandarQT"
  <2>1. p.lasers = 64 /\ p.blocks = 4
    BY <1>1, <1>5 DEF Lasers, Blocks
  <2>. QED
    BY <1>1, <1>5, <2>1, SizesAre DEF IsQT
<1>6. CASE sender = "PandarXT-32"
  <2>1. p.lasers = 32 /\ p.blocks = 8
    BY <1>1, <1>6 DEF Lasers, Blocks
  <2>. QED
    BY <1>1, <1>6, <2>1, SizesAre DEF IsXT32
<1>7. CASE sender = "PandarXT-16"
  <2>1. p.lasers = 16 /\ p.blocks = 8
    BY <1>1, <1>7 DEF Lasers, Blocks
  <2>. QED
    BY <1>1, <1>7, <2>1, SizesAre DEF IsXT16
<1>8. CASE sender = "PandarXTM"
  <2>1. p.lasers = 32 /\ p.blocks = 6
    BY <1>1, <1>8 DEF Lasers, Blocks
  <2>. QED
    BY <1>1, <1>8, <2>1, SizesAre DEF IsXTM
<1>. QED
  BY <1>2, <1>3, <1>4, <1>5, <1>6, <1>7, <1>8 DEF Lidars

\* The bytes of a block, the place behind the last, and where they lie in a packet.
BlockSize(p) == AzimuthSize(Parser(p.size)) + p.lasers * UnitSize(Parser(p.size))
HeadEnd(p) == HeadSize(Parser(p.size))
Fields(p) == TailFields(Parser(p.size))
BlocksEnd(p) == HeadEnd(p) + p.blocks * BlockSize(p)

LEMMA Layout ==
  ASSUME sender \in Lidars, NEW p \in Packets, Parser(p.size) # "none"
  PROVE  /\ p.blocks \in 4 .. 20 /\ p.lasers \in 16 .. 64
         /\ HeadEnd(p) \in Nat /\ BlockSize(p) \in Nat /\ BlocksEnd(p) \in Nat
         /\ Fields(p).time \in Nat /\ Fields(p).utc \in Nat /\ Fields(p).end \in Nat
         /\ BlocksEnd(p) + Fields(p).end <= p.size
         /\ Own =>
              (<<BlocksEnd(p) + Fields(p).time, BlocksEnd(p) + Fields(p).utc>> = PcapIndex(type)
                 <=> ~(type = "Pandar64" /\ p.blocks = 7) /\ type # "XT")
<1>. USE DEF BlockSize, HeadEnd, Fields, BlocksEnd, HeadSize, AzimuthSize, UnitSize, TailFields
<1>1. CASE sender = "Pandar40P" /\ Is40P(p)
  <2>1. Parser(p.size) = "40"
    BY <1>1, ParserIs DEF Is40P
  <2>2. BlocksEnd(p) = 1240 /\ Fields(p) = [time |-> 10, utc |-> 16, end |-> 22]
    BY <1>1, <2>1 DEF Is40P
  <2>. QED
    BY <1>1, <2>1, <2>2 DEF Is40P, PcapIndex, Own
<1>2. CASE sender = "Pandar64" /\ Is64(p)
  <2>1. Parser(p.size) = "64"
    BY <1>2, ParserIs DEF Is64
  <2>2. /\ BlocksEnd(p) = IF p.blocks = 6 THEN 1172 ELSE 1366
        /\ Fields(p) = [time |-> 10, utc |-> 16, end |-> 22]
    BY <1>2, <2>1 DEF Is64
  <2>. QED
    BY <1>2, <2>1, <2>2 DEF Is64, PcapIndex, Own
<1>3. CASE sender \in {"Pandar20A", "Pandar20B"} /\ Is20(p)
  <2>1. Parser(p.size) = "20"
    BY <1>3, ParserIs DEF Is20
  <2>2. BlocksEnd(p) = 1248 /\ Fields(p) = [time |-> 10, utc |-> 16, end |-> 22]
    BY <1>3, <2>1 DEF Is20
  <2>. QED
    BY <1>3, <2>1, <2>2 DEF Is20, PcapIndex, Own
<1>4. CASE sender = "PandarQT" /\ IsQT(p)
  <2>1. Parser(p.size) = "QT"
    BY <1>4, ParserIs DEF IsQT
  <2>2. BlocksEnd(p) = 1044 /\ Fields(p) = [time |-> 12, utc |-> 18, end |-> 24]
    BY <1>4, <2>1 DEF IsQT
  <2>. QED
    BY <1>4, <2>1, <2>2 DEF IsQT, PcapIndex, Own
<1>5. CASE sender = "PandarXT-32" /\ IsXT32(p)
  <2>1. Parser(p.size) = "XT"
    BY <1>5, ParserIs DEF IsXT32
  <2>2. BlocksEnd(p) = 1052 /\ Fields(p) = [time |-> 19, utc |-> 13, end |-> 23]
    BY <1>5, <2>1 DEF IsXT32
  <2>. QED
    BY <1>5, <2>1, <2>2 DEF IsXT32, PcapIndex, Own
<1>6. CASE sender = "PandarXT-16" /\ IsXT16(p)
  <2>1. Parser(p.size) = "XT"
    BY <1>6, ParserIs DEF IsXT16
  <2>2. BlocksEnd(p) = 540 /\ Fields(p) = [time |-> 19, utc |-> 13, end |-> 23]
    BY <1>6, <2>1 DEF IsXT16
  <2>. QED
    BY <1>6, <2>1, <2>2 DEF IsXT16, PcapIndex, Own
<1>7. CASE sender = "PandarXTM" /\ IsXTM(p)
  <2>1. Parser(p.size) = "XT"
    BY <1>7, ParserIs DEF IsXTM
  <2>2. BlocksEnd(p) = 792 /\ Fields(p) = [time |-> 19, utc |-> 13, end |-> 23]
    BY <1>7, <2>1 DEF IsXTM
  <2>. QED
    BY <1>7, <2>1, <2>2 DEF IsXTM, PcapIndex, Own
<1>. QED
  BY <1>1, <1>2, <1>3, <1>4, <1>5, <1>6, <1>7, Formats

-----------------------------------------------------------------------------
(* The times of the points. *)

\* The times of a packet: unknown where the cells are blank; later where the firing
\* is later, and the same for the returns of one firing.
Times ==
  \A b, c \in 0 .. packet.blocks - 1 : \A i, j \in 0 .. packet.lasers - 1 :
    /\ Unwritten(b, i) => PointTime(b, i) = Unknown
    /\ ~Unwritten(b, i) => PointTime(b, i) \in Int /\ PointTime(b, i) > Before
    /\ ~Unwritten(b, i) /\ ~Unwritten(c, j) /\ Firing(b) < Firing(c) =>
         PointTime(b, i) < PointTime(c, j)
    /\ ~Unwritten(b, i) /\ ~Unwritten(c, i) /\ Firing(b) = Firing(c) =>
         PointTime(b, i) = PointTime(c, i)

\* The cells the packet's points are computed from: n blocks, many to a firing, the
\* firings gap apart and the lasers from low to high.
Cells(blocks, lasers, n, low, high) ==
  \A b \in 0 .. packet.blocks - 1 : \A i \in 0 .. packet.lasers - 1 :
    /\ Unwritten(b, i) => ~(b \in DOMAIN blocks /\ i \in DOMAIN lasers)
    /\ ~Unwritten(b, i) => b \in 0 .. n - 1 /\ i \in DOMAIN lasers /\ lasers[i] \in Int
                         /\ low <= lasers[i] /\ lasers[i] <= high

Computed(parser, n, many, gap, low, high) ==
  /\ Parser(packet.size) = parser /\ ~NoOffset(parser) /\ Sign(parser) \in {-1, 1}
  /\ many \in {1, 2, 3} /\ Returns(sender, packet.echo) = many
  /\ n \in Nat /\ gap \in Nat /\ low \in Nat /\ high \in Nat
  /\ high < low + gap /\ high < 200000
  /\ Apart(BlockOffset(parser, packet.echo), Sign(parser), n, many, gap)
  /\ Cells(BlockOffset(parser, packet.echo), LaserOffset(parser), n, low, high)

\* The times follow from tables whose firings are further apart than their lasers.
LEMMA TimesFrom ==
  ASSUME NEW parser, NEW n, NEW many, NEW gap, NEW low, NEW high,
         Computed(parser, n, many, gap, low, high)
  PROVE  Times
<1>. DEFINE blocks == BlockOffset(parser, packet.echo)
            lasers == LaserOffset(parser)
            sign == Sign(parser)
<1>1. /\ sign \in {-1, 1} /\ many \in {1, 2, 3} /\ n \in Nat /\ gap \in Nat
      /\ low \in Nat /\ high \in Nat /\ high < low + gap /\ high < 200000
  BY DEF Computed
<1>2. Cells(blocks, lasers, n, low, high) /\ Apart(blocks, sign, n, many, gap)
  BY DEF Computed
<1>3. \A b, i : PointTime(b, i) = IF b \in DOMAIN blocks /\ i \in DOMAIN lasers
                                  THEN sign * (blocks[b] + lasers[i]) ELSE Unknown
  BY DEF Computed, PointTime
<1>4. \A b : Firing(b) = b \div many
  BY DEF Computed, Firing
<1>. HIDE DEF blocks, lasers, sign
<1>5. \A b \in 0 .. packet.blocks - 1, i \in 0 .. packet.lasers - 1 :
        Unwritten(b, i) => PointTime(b, i) = Unknown
  BY <1>2, <1>3 DEF Cells
<1>6. ASSUME NEW b \in 0 .. packet.blocks - 1, NEW i \in 0 .. packet.lasers - 1, ~Unwritten(b, i)
      PROVE  /\ b \in 0 .. n - 1
             /\ blocks[b] \in Int /\ Far <= sign * blocks[b]
             /\ lasers[i] \in Int /\ low <= lasers[i] /\ lasers[i] <= high
             /\ PointTime(b, i) = sign * (blocks[b] + lasers[i])
  <2>1. /\ b \in 0 .. n - 1 /\ i \in DOMAIN lasers
        /\ lasers[i] \in Int /\ low <= lasers[i] /\ lasers[i] <= high
    BY <1>6, <1>2 DEF Cells
  <2>2. b \in DOMAIN blocks /\ blocks[b] \in Int /\ Far <= sign * blocks[b]
    BY <2>1, <1>2 DEF Apart
  <2>3. PointTime(b, i) = sign * (blocks[b] + lasers[i])
    BY <2>1, <2>2, <1>3
  <2>. QED
    BY <2>1, <2>2, <2>3
<1>7. ASSUME NEW b \in 0 .. packet.blocks - 1, NEW i \in 0 .. packet.lasers - 1, ~Unwritten(b, i)
      PROVE  PointTime(b, i) \in Int /\ PointTime(b, i) > Before
  <2>. DEFINE x == blocks[b]
              y == lasers[i]
  <2>1. /\ x \in Int /\ y \in Int /\ Far <= sign * x /\ 0 <= y /\ y < 200000
        /\ PointTime(b, i) = sign * (x + y)
    BY <1>1, <1>6, <1>7
  <2>. HIDE DEF x, y
  <2>2. sign * (x + y) \in Int /\ sign * (x + y) > Before
    BY <1>1, <2>1 DEF Far, Before
  <2>. QED
    BY <2>1, <2>2
<1>8. ASSUME NEW b \in 0 .. packet.blocks - 1, NEW c \in 0 .. packet.blocks - 1,
             NEW i \in 0 .. packet.lasers - 1, NEW j \in 0 .. packet.lasers - 1,
             ~Unwritten(b, i), ~Unwritten(c, j), Firing(b) < Firing(c)
      PROVE  PointTime(b, i) < PointTime(c, j)
  <2>1. b \in 0 .. n - 1 /\ c \in 0 .. n - 1 /\ b \div many < c \div many
    BY <1>4, <1>6, <1>8
  <2>2. sign * blocks[b] + gap <= sign * blocks[c]
    BY <1>2, <2>1 DEF Apart
  <2>. DEFINE x == blocks[b]
              y == lasers[i]
              z == blocks[c]
              u == lasers[j]
  <2>3. /\ x \in Int /\ y \in Int /\ z \in Int /\ u \in Int
        /\ low <= y /\ y <= high /\ low <= u /\ u <= high
        /\ PointTime(b, i) = sign * (x + y) /\ PointTime(c, j) = sign * (z + u)
    BY <1>1, <1>6, <1>8
  <2>4. sign * x + gap <= sign * z
    BY <2>2
  <2>. HIDE DEF x, y, z, u
  <2>5. sign * (x + y) < sign * (z + u)
    BY <1>1, <2>3, <2>4
  <2>. QED
    BY <2>3, <2>5
<1>9. ASSUME NEW b \in 0 .. packet.blocks - 1, NEW c \in 0 .. packet.blocks - 1,
             NEW i \in 0 .. packet.lasers - 1,
             ~Unwritten(b, i), ~Unwritten(c, i), Firing(b) = Firing(c)
      PROVE  PointTime(b, i) = PointTime(c, i)
  <2>1. b \in 0 .. n - 1 /\ c \in 0 .. n - 1 /\ b \div many = c \div many
    BY <1>4, <1>6, <1>9
  <2>2. blocks[b] = blocks[c]
    BY <1>2, <2>1 DEF Apart
  <2>. QED
    BY <1>6, <1>9, <2>2
<1>. QED
  BY <1>5, <1>7, <1>8, <1>9 DEF Times

\* The lasers of the XTs.
LEMMA TableXT ==
  /\ \A i \in 0 .. 31 : i \in DOMAIN LaserXTOffset /\ LaserXTOffset[i] \in Nat
                        /\ 368 <= LaserXTOffset[i] /\ LaserXTOffset[i] <= 47240
  /\ \A i \in 0 .. 15 : i \in DOMAIN LaserXT16Offset /\ LaserXT16Offset[i] \in Nat
                        /\ 368 <= LaserXT16Offset[i] /\ LaserXT16Offset[i] <= 47240
  /\ \A i \in 0 .. 31 : i \in DOMAIN LaserXTMOffset /\ LaserXTMOffset[i] \in Nat
                        /\ 368 <= LaserXTMOffset[i] /\ LaserXTMOffset[i] <= 47240
<1>1. \A i \in 0 .. 31 : i \in DOMAIN LaserXTOffset /\ LaserXTOffset[i] \in Nat
                        /\ 368 <= LaserXTOffset[i] /\ LaserXTOffset[i] <= 47240
  BY DEF LaserXTOffset
<1>2. \A i \in 0 .. 15 : i \in DOMAIN LaserXT16Offset /\ LaserXT16Offset[i] = LaserXTOffset[i * 2]
  BY DEF LaserXT16Offset
<1>3. \A i \in 0 .. 15 : i * 2 \in 0 .. 31
  OBVIOUS
<1>4. \A i \in 0 .. 31 : i \in DOMAIN LaserXTMOffset /\ LaserXTMOffset[i] = 2856 * (i % 16) + 368
  BY DEF LaserXTMOffset
<1>5. \A i \in 0 .. 31 : (i % 16) \in 0 .. 15
  OBVIOUS
<1>6. \A m \in 0 .. 15 : 2856 * m + 368 \in Nat /\ 368 <= 2856 * m + 368 /\ 2856 * m + 368 <= 47240
  OBVIOUS
<1>7. \A i \in 0 .. 31 : i \in DOMAIN LaserXTMOffset /\ LaserXTMOffset[i] \in Nat
                         /\ 368 <= LaserXTMOffset[i] /\ LaserXTMOffset[i] <= 47240
  BY <1>4, <1>5, <1>6
<1>. QED
  BY <1>1, <1>2, <1>3, <1>7

\* So it is for each lidar.
LEMMA Times40 ==
  ASSUME sender = "Pandar40P", Is40P(packet)
  PROVE  Times
<1>. DEFINE blocks == BlockOffset("40", packet.echo)
            lasers == LaserOffset("40")
            many == IF packet.echo = 57 THEN 2 ELSE 1
<1>1. Parser(packet.size) = "40"
  BY ParserIs DEF Is40P
<1>2. ~NoOffset("40") /\ Sign("40") = -1
  BY DEF NoOffset, Sign
<1>3. many \in {1, 2} /\ Returns(sender, packet.echo) = many
  BY DEF Returns, XTLidars
<1>4. blocks = Plus(Steps(10, many, 55560), 28580)
  BY DEF BlockOffset, Is40P, Block40OffsetSingle, Block40OffsetDual
<1>5. Apart(blocks, -1, 10, many, 55560)
  BY <1>3, <1>4, CountedBack
<1>6. lasers = Laser40Offset
  BY DEF LaserOffset
<1>7. Cells(blocks, lasers, 10, 3620, 54670)
  BY <1>6, Table40, Table40Misses DEF Cells, Unwritten, Is40P, OneFiring
<1>. HIDE DEF blocks, lasers, many
<1>8. Computed("40", 10, many, 55560, 3620, 54670)
  BY <1>1, <1>2, <1>3, <1>5, <1>7 DEF Computed, blocks, lasers
<1>. QED
  BY <1>8, TimesFrom

LEMMA Times64 ==
  ASSUME sender = "Pandar64", Is64(packet)
  PROVE  Times
<1>. DEFINE blocks == BlockOffset("64", packet.echo)
            lasers == LaserOffset("64")
            many == IF packet.echo = 57 THEN 2 ELSE 1
<1>1. Parser(packet.size) = "64"
  BY ParserIs DEF Is64
<1>2. ~NoOffset("64") /\ Sign("64") = -1
  BY DEF NoOffset, Sign
<1>3. many \in {1, 2} /\ Returns(sender, packet.echo) = many
  BY DEF Returns, XTLidars
<1>4. blocks = Plus(Steps(6, many, 55560), 42580)
  BY DEF BlockOffset, Is64, Block64OffsetSingle, Block64OffsetDual
<1>5. Apart(blocks, -1, 6, many, 55560)
  BY <1>3, <1>4, CountedBack
<1>6. lasers = Laser64Offset /\ DOMAIN blocks = 0 .. 5
  BY <1>4 DEF LaserOffset, Plus, Steps
<1>7. Cells(blocks, lasers, 6, 3620, 54670)
  BY <1>6, Table64 DEF Cells, Unwritten, Is64, OneFiring
<1>. HIDE DEF blocks, lasers, many
<1>8. Computed("64", 6, many, 55560, 3620, 54670)
  BY <1>1, <1>2, <1>3, <1>5, <1>7 DEF Computed, blocks, lasers
<1>. QED
  BY <1>8, TimesFrom

LEMMA Times20 ==
  ASSUME type \in {"Pandar20A", "Pandar20B"}, sender \in {"Pandar20A", "Pandar20B"}, Is20(packet)
  PROVE  Times
<1>. DEFINE blocks == BlockOffset("20", packet.echo)
            lasers == LaserOffset("20")
            many == IF packet.echo = 57 THEN 2 ELSE 1
<1>1. Parser(packet.size) = "20"
  BY ParserIs DEF Is20
<1>2. ~NoOffset("20") /\ Sign("20") = -1
  BY DEF NoOffset, Sign
<1>3. many \in {1, 2} /\ Returns(sender, packet.echo) = many
  BY DEF Returns, XTLidars
<1>4. blocks = Plus(Steps(20, many, 55560), 28580)
  BY DEF BlockOffset, Is20, Block20OffsetSingle, Block20OffsetDual
<1>5. Apart(blocks, -1, 20, many, 55560)
  BY <1>3, <1>4, CountedBack
<1>6. lasers \in {Laser20AOffset, Laser20BOffset}
  BY DEF LaserOffset
<1>7. Cells(blocks, lasers, 20, 3620, 54670)
  BY <1>6, Table20A, Table20B DEF Cells, Unwritten, Is20, OneFiring
<1>. HIDE DEF blocks, lasers, many
<1>8. Computed("20", 20, many, 55560, 3620, 54670)
  BY <1>1, <1>2, <1>3, <1>5, <1>7 DEF Computed, blocks, lasers
<1>. QED
  BY <1>8, TimesFrom

LEMMA TimesQT ==
  ASSUME sender = "PandarQT", IsQT(packet)
  PROVE  Times
<1>. DEFINE blocks == BlockOffset("QT", packet.echo)
            lasers == LaserOffset("QT")
            many == IF packet.echo = 5 THEN 2 ELSE 1
<1>1. Parser(packet.size) = "QT"
  BY ParserIs DEF IsQT
<1>2. ~NoOffset("QT") /\ Sign("QT") = 1
  BY DEF NoOffset, Sign
<1>3. many \in {1, 2} /\ Returns(sender, packet.echo) = many
  BY DEF Returns, XTLidars
<1>4. blocks = IF packet.echo = 5 THEN BlockQTOffsetDual ELSE BlockQTOffsetSingle
  BY DEF BlockOffset, IsQT
<1>5. Apart(blocks, 1, 4, many, 166660)
  BY <1>3, <1>4, CountedOnQT
<1>6. lasers = LaserQTOffset
  BY DEF LaserOffset
<1>7. Cells(blocks, lasers, 4, 12310, 146450)
  BY <1>6, TableQT DEF Cells, Unwritten, IsQT, OneFiringQT
<1>. HIDE DEF blocks, lasers, many
<1>8. Computed("QT", 4, many, 166660, 12310, 146450)
  BY <1>1, <1>2, <1>3, <1>5, <1>7 DEF Computed, blocks, lasers
<1>. QED
  BY <1>8, TimesFrom

LEMMA TimesXT32 ==
  ASSUME type = "PandarXT-32", sender = type, IsXT32(packet), packet.echo # 61
  PROVE  Times
<1>. DEFINE blocks == BlockOffset("XT", packet.echo)
            lasers == LaserOffset("XT")
            many == IF packet.echo \in {57, 59, 60} THEN 2 ELSE 1
<1>1. Parser(packet.size) = "XT"
  BY ParserIs DEF IsXT32
<1>2. ~NoOffset("XT") /\ Sign("XT") = 1
  BY DEF NoOffset, Sign
<1>3. many \in {1, 2} /\ Returns(sender, packet.echo) = many
  BY DEF Returns, XTLidars
<1>4. blocks = BlockXTOffset(8, many)
  BY DEF BlockOffset, IsXT32, XTReturns
<1>5. Apart(blocks, 1, 8, many, 50000)
  BY <1>3, <1>4, CountedOnXT
<1>6. lasers = LaserXTOffset
  BY DEF LaserOffset
<1>7. Cells(blocks, lasers, 8, 368, 47240)
  BY <1>6, TableXT DEF Cells, Unwritten, IsXT32
<1>. HIDE DEF blocks, lasers, many
<1>8. Computed("XT", 8, many, 50000, 368, 47240)
  BY <1>1, <1>2, <1>3, <1>5, <1>7 DEF Computed, blocks, lasers
<1>. QED
  BY <1>8, TimesFrom

LEMMA TimesXT16 ==
  ASSUME type = "PandarXT-16", sender = type, IsXT16(packet), packet.echo # 61
  PROVE  Times
<1>. DEFINE blocks == BlockOffset("XT", packet.echo)
            lasers == LaserOffset("XT")
            many == IF packet.echo \in {57, 59, 60} THEN 2 ELSE 1
<1>1. Parser(packet.size) = "XT"
  BY ParserIs DEF IsXT16
<1>2. ~NoOffset("XT") /\ Sign("XT") = 1
  BY DEF NoOffset, Sign
<1>3. many \in {1, 2} /\ Returns(sender, packet.echo) = many
  BY DEF Returns, XTLidars
<1>4. blocks = BlockXTOffset(8, many)
  BY DEF BlockOffset, IsXT16, XTReturns
<1>5. Apart(blocks, 1, 8, many, 50000)
  BY <1>3, <1>4, CountedOnXT
<1>6. lasers = LaserXT16Offset
  BY DEF LaserOffset
<1>7. Cells(blocks, lasers, 8, 368, 47240)
  BY <1>6, TableXT DEF Cells, Unwritten, IsXT16
<1>. HIDE DEF blocks, lasers, many
<1>8. Computed("XT", 8, many, 50000, 368, 47240)
  BY <1>1, <1>2, <1>3, <1>5, <1>7 DEF Computed, blocks, lasers
<1>. QED
  BY <1>8, TimesFrom

LEMMA TimesXTM ==
  ASSUME type = "PandarXTM", sender = type, IsXTM(packet)
  PROVE  Times
<1>. DEFINE blocks == BlockOffset("XT", packet.echo)
            lasers == LaserOffset("XT")
            many == IF packet.echo = 61 THEN 3 ELSE IF packet.echo \in {57, 59, 60} THEN 2 ELSE 1
<1>1. Parser(packet.size) = "XT"
  BY ParserIs DEF IsXTM
<1>2. ~NoOffset("XT") /\ Sign("XT") = 1
  BY DEF NoOffset, Sign
<1>3. many \in {1, 2, 3} /\ Returns(sender, packet.echo) = many
  BY DEF Returns, XTLidars
<1>4. blocks = BlockXTOffset(6, many)
  BY DEF BlockOffset, IsXTM, XTReturns
<1>5. Apart(blocks, 1, 6, many, 50000)
  BY <1>3, <1>4, CountedOnXT
<1>6. lasers = LaserXTMOffset
  BY DEF LaserOffset
<1>7. Cells(blocks, lasers, 6, 368, 47240)
  BY <1>6, TableXT DEF Cells, Unwritten, IsXTM
<1>. HIDE DEF blocks, lasers, many
<1>8. Computed("XT", 6, many, 50000, 368, 47240)
  BY <1>1, <1>2, <1>3, <1>5, <1>7 DEF Computed, blocks, lasers
<1>. QED
  BY <1>8, TimesFrom

\* A packet none of whose cells is written.
LEMMA TimesBlank ==
  ASSUME Parser(packet.size) = "XT", sender \in {"PandarXT-32", "PandarXT-16"},
         type = "XT" \/ (packet.echo = 61 /\ type # "PandarXTM")
  PROVE  Times
<1>1. ~NoOffset("XT")
  BY DEF NoOffset
<1>2. BlockOffset("XT", packet.echo) = <<>> \/ LaserOffset("XT") = <<>>
  BY DEF BlockOffset, LaserOffset, XTReturns
<1>3. \A b : b \notin DOMAIN <<>>
  OBVIOUS
<1>4. \A b, i : PointTime(b, i) = Unknown
  BY <1>1, <1>2, <1>3 DEF PointTime
<1>5. \A b, i : Unwritten(b, i)
  BY DEF Unwritten
<1>. QED
  BY <1>4, <1>5 DEF Times

LEMMA TimesHold ==
  ASSUME sender \in Lidars, packet \in Packets, Parser(packet.size) # "none", ~Untimed
  PROVE  Times
<1>1. CASE sender = "PandarXT-32" /\ IsXT32(packet)
  <2>1. type \in {"XT", "PandarXT-32"} /\ Parser(packet.size) = "XT"
    BY <1>1, ParserIs DEF IsXT32
  <2>. QED
    BY <1>1, <2>1, TimesXT32, TimesBlank
<1>2. CASE sender = "PandarXT-16" /\ IsXT16(packet)
  <2>1. type = "PandarXT-16" /\ Parser(packet.size) = "XT"
    BY <1>2, ParserIs DEF IsXT16
  <2>. QED
    BY <1>2, <2>1, TimesXT16, TimesBlank
<1>3. CASE sender = "PandarXTM" /\ IsXTM(packet)
  <2>1. type = "PandarXTM"
    BY <1>3, ParserIs DEF IsXTM
  <2>. QED
    BY <1>3, <2>1, TimesXTM
<1>. QED
  BY <1>1, <1>2, <1>3, Formats, Times40, Times64, Times20, TimesQT DEF Untimed

-----------------------------------------------------------------------------
(* The invariant. *)

\* Where the parser is in the packet.
Parsed ==
  /\ step \in {"receive", "blocks", "points"} /\ block \in Nat /\ laser \in Nat
  /\ step = "receive" => packet = Idle /\ index = 0 /\ block = 0 /\ laser = 0
  /\ step # "receive" => /\ packet \in Packets /\ Parser(packet.size) # "none"
                         /\ block <= packet.blocks
  /\ step = "blocks" => laser = 0 /\ index = HeadEnd(packet) + block * BlockSize(packet)
  /\ step = "points" =>
       /\ laser < packet.lasers /\ (block = packet.blocks => laser = 0)
       /\ timeAt = BlocksEnd(packet) + Fields(packet).time
       /\ utcAt = BlocksEnd(packet) + Fields(packet).utc
       /\ index = BlocksEnd(packet) + Fields(packet).end

\* Has a point of this packet been computed, and to which firing does the last belong?
Started == block > 0 \/ laser > 0
Current == Firing(IF laser = 0 THEN block - 1 ELSE block)

\* Later firings lie behind the points computed so far, and the current one and those
\* after it behind the points of the firings before.
Timed ==
  /\ step # "points" \/ ~Started => time = Before /\ latest = Before /\ earlier = Before
  /\ step = "points" /\ Started /\ ~Untimed =>
       /\ time \in Int /\ latest \in Int /\ earlier \in Int
       /\ time # Unknown => earlier < time
       /\ \A b \in 0 .. packet.blocks - 1 : \A i \in 0 .. packet.lasers - 1 :
            ~Unwritten(b, i) =>
              /\ Current < Firing(b) => latest < PointTime(b, i)
              /\ Current <= Firing(b) => earlier < PointTime(b, i)

IInv == type \in Types /\ sender \in Lidars /\ Parsed /\ Timed

LEMMA InitHolds == Init => IInv
  BY DEF Init, IInv, Parsed, Timed, Started

LEMMA ParsedKept ==
  ASSUME type \in Types, sender \in Lidars, Parsed, [Next]_vars
  PROVE  Parsed'
<1>1. CASE UNCHANGED vars
  <2>1. UNCHANGED <<type, sender, packet, step, index, timeAt, utcAt, block, laser>>
    BY <1>1 DEF vars
  <2>2. /\ HeadEnd(packet)' = HeadEnd(packet) /\ BlockSize(packet)' = BlockSize(packet)
        /\ BlocksEnd(packet)' = BlocksEnd(packet) /\ Fields(packet)' = Fields(packet)
        /\ Parser(packet.size)' = Parser(packet.size) /\ Packets' = Packets
    BY <2>1 DEF HeadEnd, BlockSize, BlocksEnd, Fields, Parser, Packets
  <2>. QED
    BY <2>1, <2>2 DEF Parsed
<1>2. CASE Receive
  <2>1. PICK p \in Packets : packet' = p /\ Parser(p.size) # "none"
    BY <1>2 DEF Receive
  <2>2. /\ step' = "blocks" /\ block' = 0 /\ laser' = 0 /\ index' = HeadSize(Parser(p.size))
        /\ type' = type /\ sender' = sender
    BY <1>2, <2>1 DEF Receive, Parsed
  <2>3. p.blocks \in Nat /\ HeadEnd(p) \in Nat /\ BlockSize(p) \in Nat
    BY <2>1, Layout
  <2>4. Parser(packet.size)' = Parser(p.size) /\ Packets' = Packets
    BY <2>1, <2>2 DEF Parser, Packets
  <2>5. HeadEnd(packet)' = HeadEnd(p) /\ BlockSize(packet)' = BlockSize(p)
    BY <2>1, <2>4 DEF HeadEnd, BlockSize
  <2>6. index' = HeadEnd(packet)' + block' * BlockSize(packet)'
    BY <2>2, <2>3, <2>5 DEF HeadEnd
  <2>7. block' <= packet'.blocks
    BY <2>1, <2>2, <2>3
  <2>. QED
    BY <2>1, <2>2, <2>4, <2>6, <2>7 DEF Parsed
<1>3. ASSUME step # "receive", UNCHANGED <<type, sender, packet>>
      PROVE  /\ packet' \in Packets' /\ Parser(packet.size)' # "none"
             /\ HeadEnd(packet)' = HeadEnd(packet) /\ BlockSize(packet)' = BlockSize(packet)
             /\ BlocksEnd(packet)' = BlocksEnd(packet) /\ Fields(packet)' = Fields(packet)
             /\ packet.blocks \in Nat /\ packet.lasers \in Nat /\ packet.lasers > 0
             /\ HeadEnd(packet) \in Nat /\ BlockSize(packet) \in Nat
             /\ BlocksEnd(packet) = HeadEnd(packet) + packet.blocks * BlockSize(packet)
  <2>1. packet \in Packets /\ Parser(packet.size) # "none"
    BY <1>3 DEF Parsed
  <2>2. packet' \in Packets' /\ Parser(packet.size)' # "none"
    BY <1>3, <2>1 DEF Packets, Parser
  <2>3. /\ HeadEnd(packet)' = HeadEnd(packet) /\ BlockSize(packet)' = BlockSize(packet)
        /\ BlocksEnd(packet)' = BlocksEnd(packet) /\ Fields(packet)' = Fields(packet)
    BY <1>3 DEF HeadEnd, BlockSize, BlocksEnd, Fields, Parser
  <2>4. /\ packet.blocks \in Nat /\ packet.lasers \in Nat /\ packet.lasers > 0
        /\ HeadEnd(packet) \in Nat /\ BlockSize(packet) \in Nat
    BY <2>1, Layout
  <2>. QED
    BY <2>2, <2>3, <2>4 DEF BlocksEnd
<1>4. CASE ParseBlock
  <2>. DEFINE head == HeadEnd(packet)
              size == BlockSize(packet)
  <2>1. /\ step = "blocks" /\ step' = "blocks" /\ laser' = 0
        /\ block \in Nat /\ block < packet.blocks /\ block' = block + 1
        /\ index = head + block * size
        /\ index' = index + AzimuthSize(Parser(packet.size))
                      + packet.lasers * UnitSize(Parser(packet.size))
    BY <1>4 DEF ParseBlock, Parsed
  <2>2. UNCHANGED <<type, sender, packet>>
    BY <1>4 DEF ParseBlock
  <2>3. /\ packet' \in Packets' /\ Parser(packet.size)' # "none" /\ head' = head /\ size' = size
        /\ packet.blocks \in Nat /\ packet.lasers \in Nat /\ head \in Nat /\ size \in Nat
    BY <1>3, <2>1, <2>2
  <2>4. index' = head + block' * size
    <3>. DEFINE azimuth == AzimuthSize(Parser(packet.size))
                units == packet.lasers * UnitSize(Parser(packet.size))
    <3>1. azimuth \in Nat /\ units \in Nat
      BY <2>3 DEF AzimuthSize, UnitSize
    <3>2. size = azimuth + units /\ index' = index + azimuth + units
      BY <2>1 DEF BlockSize
    <3>. HIDE DEF azimuth, units, head, size
    <3>. QED
      BY <2>1, <2>3, <3>1, <3>2
  <2>. HIDE DEF head, size
  <2>5. block' \in Nat /\ block' <= packet'.blocks /\ laser' \in Nat
    BY <2>1, <2>2, <2>3
  <2>6. index' = head' + block' * size'
    BY <2>3, <2>4
  <2>. QED
    BY <2>1, <2>3, <2>5, <2>6 DEF Parsed, head, size
<1>5. CASE ParseTail
  <2>1. /\ step = "blocks" /\ step' = "points" /\ laser' = 0 /\ block' = 0
        /\ block = packet.blocks /\ index = HeadEnd(packet) + block * BlockSize(packet)
        /\ timeAt' = index + Fields(packet).time /\ utcAt' = index + Fields(packet).utc
        /\ index' = index + Fields(packet).end
    BY <1>5 DEF ParseTail, Parsed, Fields
  <2>2. UNCHANGED <<type, sender, packet>>
    BY <1>5 DEF ParseTail
  <2>3. /\ packet' \in Packets' /\ Parser(packet.size)' # "none"
        /\ BlocksEnd(packet)' = BlocksEnd(packet) /\ Fields(packet)' = Fields(packet)
        /\ packet.blocks \in Nat /\ packet.lasers \in Nat /\ packet.lasers > 0
        /\ BlocksEnd(packet) = HeadEnd(packet) + packet.blocks * BlockSize(packet)
    BY <1>3, <2>1, <2>2
  <2>4. index = BlocksEnd(packet)
    BY <2>1, <2>3
  <2>. QED
    BY <2>1, <2>2, <2>3, <2>4 DEF Parsed
<1>6. CASE CalcPoint
  <2>1. /\ step = "points" /\ step' = "points" /\ UNCHANGED <<index, timeAt, utcAt>>
        /\ block \in Nat /\ block < packet.blocks /\ laser \in Nat /\ laser < packet.lasers
        /\ laser' = (laser + 1) % packet.lasers
        /\ block' = IF laser = packet.lasers - 1 THEN block + 1 ELSE block
        /\ timeAt = BlocksEnd(packet) + Fields(packet).time
        /\ utcAt = BlocksEnd(packet) + Fields(packet).utc
        /\ index = BlocksEnd(packet) + Fields(packet).end
    BY <1>6 DEF CalcPoint, Parsed
  <2>2. UNCHANGED <<type, sender, packet>>
    BY <1>6 DEF CalcPoint
  <2>3. /\ packet' \in Packets' /\ Parser(packet.size)' # "none"
        /\ BlocksEnd(packet)' = BlocksEnd(packet) /\ Fields(packet)' = Fields(packet)
        /\ packet.blocks \in Nat /\ packet.lasers \in Nat /\ packet.lasers > 0
    BY <1>3, <2>1, <2>2
  <2>4. /\ laser' \in Nat /\ laser' < packet.lasers
        /\ laser = packet.lasers - 1 => laser' = 0
    BY <2>1, <2>3
  <2>5. block' \in Nat /\ block' <= packet.blocks /\ (block' = packet.blocks => laser' = 0)
    BY <2>1, <2>3, <2>4
  <2>. QED
    BY <2>1, <2>2, <2>3, <2>4, <2>5 DEF Parsed
<1>7. CASE Done
  BY <1>7 DEF Done, Parsed
<1>. QED
  BY <1>1, <1>2, <1>4, <1>5, <1>6, <1>7 DEF Next, Drop

\* Max of FiniteSetsExt, of two numbers.
LEMMA MaxOfTwo ==
  ASSUME NEW m \in Int, NEW n \in Int
  PROVE  Max({m, n}) = IF m >= n THEN m ELSE n
<1>1. PICK x \in {m, n} : \A y \in {m, n} : x >= y
  OBVIOUS
<1>2. Max({m, n}) \in {m, n} /\ \A y \in {m, n} : Max({m, n}) >= y
  BY <1>1 DEF Max
<1>. QED
  BY <1>2

\* Blocks come in the order of their firings.
LEMMA FiringsRise ==
  ASSUME NEW b \in Nat, NEW c \in Nat, b <= c
  PROVE  Firing(b) \in Nat /\ Firing(c) \in Nat /\ Firing(b) <= Firing(c)
<1>1. Returns(sender, packet.echo) \in {1, 2, 3}
  BY DEF Returns
<1>2. \A many \in {1, 2, 3} : b \div many \in Nat /\ c \div many \in Nat /\ b \div many <= c \div many
  OBVIOUS
<1>. QED
  BY <1>1, <1>2 DEF Firing

\* The times depend on the type and the packet only.
LEMMA SameTimes ==
  ASSUME type' = type, packet' = packet
  PROVE  \A b, i : PointTime(b, i)' = PointTime(b, i)
<1>1. Parser(packet.size)' = Parser(packet.size)
  BY DEF Parser
<1>2. \A parser : /\ NoOffset(parser)' = NoOffset(parser)
                  /\ BlockOffset(parser, packet.echo)' = BlockOffset(parser, packet.echo)
                  /\ LaserOffset(parser)' = LaserOffset(parser)
  BY DEF NoOffset, BlockOffset, LaserOffset
<1>. QED
  BY <1>1, <1>2 DEF PointTime

LEMMA TimedKept ==
  ASSUME type \in Types, sender \in Lidars, Parsed, Timed, [Next]_vars
  PROVE  Timed'
<1>1. CASE UNCHANGED vars
  <2>1. UNCHANGED <<type, sender, packet, step, block, laser, time, latest, earlier>>
    BY <1>1 DEF vars
  <2>2. \A b, i : PointTime(b, i)' = PointTime(b, i) /\ Unwritten(b, i)' = Unwritten(b, i)
    BY <2>1, SameTimes DEF Unwritten
  <2>3. \A b : Firing(b)' = Firing(b)
    BY <2>1 DEF Firing
  <2>4. Started' = Started /\ Current' = Current /\ Untimed' = Untimed
    BY <2>1 DEF Started, Current, Firing, Untimed
  <2>. QED
    BY <2>1, <2>2, <2>3, <2>4 DEF Timed
<1>2. CASE Receive \/ ParseBlock
  BY <1>2 DEF Receive, ParseBlock, Timed, Parsed, Started
<1>3. CASE ParseTail
  BY <1>3 DEF ParseTail, Timed, Parsed, Started
<1>4. CASE Done
  BY <1>4 DEF Done, Timed, Started
<1>5. CASE CalcPoint
  <2>1. /\ step = "points" /\ step' = "points" /\ block \in Nat /\ laser \in Nat
        /\ block < packet.blocks /\ laser < packet.lasers
        /\ laser' = (laser + 1) % packet.lasers
        /\ block' = IF laser = packet.lasers - 1 THEN block + 1 ELSE block
        /\ packet \in Packets /\ packet' = packet /\ type' = type /\ sender' = sender
        /\ time' = PointTime(block, laser) /\ latest' = Max({latest, time'})
    BY <1>5 DEF CalcPoint, Parsed
  <2>2. Started' /\ Current' = Firing(block)
    <3>1. packet.lasers \in Nat /\ packet.lasers > 1
      BY <2>1, Layout DEF Parsed
    <3>2. CASE laser = packet.lasers - 1
      <4>1. laser' = 0 /\ block' = block + 1 /\ (block + 1) - 1 = block /\ block + 1 > 0
        BY <2>1, <3>1, <3>2
      <4>. QED
        BY <2>1, <4>1 DEF Started, Current, Firing
    <3>3. CASE laser # packet.lasers - 1
      <4>1. laser' = laser + 1 /\ block' = block /\ laser + 1 > 0 /\ laser + 1 # 0
        BY <2>1, <3>1, <3>3
      <4>. QED
        BY <2>1, <4>1 DEF Started, Current, Firing
    <3>. QED
      BY <3>2, <3>3
  <2>3. CASE ~Untimed
    <3>. DEFINE first == laser = 0 /\ block > 0 /\ Firing(block) # Firing(block - 1)
                Cell(b, i) == b \in 0 .. packet.blocks - 1 /\ i \in 0 .. packet.lasers - 1
                              /\ ~Unwritten(b, i)
    <3>1. earlier' = IF first THEN latest ELSE earlier
      BY <1>5 DEF CalcPoint
    <3>2. Times /\ packet.blocks \in Nat /\ packet.lasers \in Nat
      <4>1. Parser(packet.size) # "none"
        BY <2>1 DEF Parsed
      <4>. QED
        BY <2>1, <2>3, <4>1, TimesHold, Layout
    <3>3. \A b, i : Cell(b, i) => PointTime(b, i) \in Int /\ PointTime(b, i) > Before
      BY <3>2 DEF Times
    <3>4. block \in 0 .. packet.blocks - 1 /\ laser \in 0 .. packet.lasers - 1
      BY <2>1, <3>2
    <3>5. /\ time' \in Int
          /\ time' # Unknown => Cell(block, laser)
          /\ time' = Unknown \/ time' > Before
      <4>1. Unwritten(block, laser) => time' = Unknown
        BY <2>1, <3>2, <3>4 DEF Times
      <4>2. ~Unwritten(block, laser) => Cell(block, laser) /\ time' \in Int /\ time' > Before
        BY <2>1, <3>3, <3>4
      <4>. QED
        BY <4>1, <4>2 DEF Unknown
    <3>6. /\ latest \in Int /\ earlier \in Int
          /\ \A b, i : Cell(b, i) /\ Firing(block) < Firing(b) => latest < PointTime(b, i)
          /\ \A b, i : Cell(b, i) /\ Firing(block) <= Firing(b) => earlier' < PointTime(b, i)
          /\ earlier' \in Int
      <4>1. CASE ~Started
        <5>1. latest = Before /\ earlier = Before /\ ~first
          BY <2>1, <4>1 DEF Timed, Started
        <5>. QED
          BY <3>1, <3>3, <5>1 DEF Before
      <4>2. CASE Started
        <5>1. /\ latest \in Int /\ earlier \in Int
              /\ \A b, i : Cell(b, i) /\ Current < Firing(b) => latest < PointTime(b, i)
              /\ \A b, i : Cell(b, i) /\ Current <= Firing(b) => earlier < PointTime(b, i)
          BY <2>1, <2>3, <4>2 DEF Timed
        <5>2. /\ Current \in Nat /\ Firing(block) \in Nat /\ Current <= Firing(block)
              /\ first => Current < Firing(block)
              /\ ~first => Current = Firing(block)
          <6>1. CASE laser = 0
            <7>1. block - 1 \in Nat /\ block - 1 <= block /\ Current = Firing(block - 1)
              BY <2>1, <4>2, <6>1 DEF Started, Current
            <7>2. /\ Firing(block - 1) \in Nat /\ Firing(block) \in Nat
                  /\ Firing(block - 1) <= Firing(block)
              BY <2>1, <7>1, FiringsRise
            <7>. QED
              BY <2>1, <4>2, <6>1, <7>1, <7>2 DEF Started
          <6>2. CASE laser # 0
            <7>1. Firing(block) \in Nat /\ Current = Firing(block) /\ ~first
              BY <2>1, <6>2, FiringsRise DEF Current
            <7>. QED
              BY <7>1
          <6>. QED
            BY <6>1, <6>2
        <5>3. \A b, i : Cell(b, i) => Firing(b) \in Nat
          <6>1. \A b \in Nat : b <= b
            OBVIOUS
          <6>. QED
            BY <2>1, <3>2, <6>1, FiringsRise
        <5>. HIDE DEF first, Cell
        <5>. QED
          BY <3>1, <5>1, <5>2, <5>3
      <4>. QED
        BY <4>1, <4>2
    <3>7. latest' = IF latest >= time' THEN latest ELSE time'
      BY <2>1, <3>5, <3>6, MaxOfTwo
    <3>8. \A b, i : Cell(b, i) /\ Firing(block) < Firing(b) =>
            time' < PointTime(b, i)
      <4>1. CASE time' = Unknown
        BY <3>3, <4>1 DEF Unknown, Before
      <4>2. CASE time' # Unknown
        BY <2>1, <3>2, <3>5, <4>2 DEF Times
      <4>. QED
        BY <4>1, <4>2
    <3>9. \A b, i : Cell(b, i) /\ Firing(block) < Firing(b) => latest' < PointTime(b, i)
      BY <3>6, <3>7, <3>8
    <3>10. time' # Unknown => earlier' < time'
      <4>1. Firing(block) <= Firing(block)
        BY <2>1, FiringsRise
      <4>. QED
        BY <2>1, <3>5, <3>6, <4>1
    <3>11. latest' \in Int
      BY <3>5, <3>6, <3>7
    <3>12. \A b, i : Cell(b, i)' = Cell(b, i) /\ PointTime(b, i)' = PointTime(b, i)
                     /\ Firing(b)' = Firing(b)
      <4>1. \A b, i : Cell(b, i)' = Cell(b, i)
        BY <2>1 DEF Unwritten
      <4>2. \A b, i : PointTime(b, i)' = PointTime(b, i)
        BY <2>1, SameTimes
      <4>3. \A b : Firing(b)' = Firing(b)
        BY <2>1 DEF Firing
      <4>. QED
        BY <4>1, <4>2, <4>3
    <3>. QED
      BY <2>1, <2>2, <3>5, <3>6, <3>9, <3>10, <3>11, <3>12 DEF Timed
  <2>4. CASE Untimed
    <3>1. Untimed'
      BY <2>1, <2>4 DEF Untimed
    <3>. QED
      BY <2>1, <2>2, <3>1 DEF Timed
  <2>. QED
    BY <2>3, <2>4
<1>. QED
  BY <1>1, <1>2, <1>3, <1>4, <1>5 DEF Next, Drop

LEMMA IInvKept == IInv /\ [Next]_vars => IInv'
<1>. SUFFICES ASSUME IInv, [Next]_vars
              PROVE  IInv'
  OBVIOUS
<1>1. type' = type /\ sender' = sender
  BY DEF Next, Drop, Receive, ParseBlock, ParseTail, CalcPoint, Done, vars
<1>. QED
  BY <1>1, ParsedKept, TimedKept DEF IInv

\* The parser is where the format of the packet says, and the points so far lie before
\* the firings to come.
THEOREM ParsedAndTimed == Spec => []IInv
  BY InitHolds, IInvKept, PTL DEF Spec

-----------------------------------------------------------------------------
(* The properties. *)

\* Once the parser has a packet, its layout is known.
LEMMA InPacket ==
  ASSUME IInv, step # "receive"
  PROVE  /\ type \in Types /\ sender \in Lidars /\ packet \in Packets
         /\ Parser(packet.size) # "none"
         /\ packet.blocks \in Nat /\ packet.lasers \in Nat
         /\ block \in Nat /\ laser \in Nat
         /\ step = "points" => laser < packet.lasers
         /\ step = "points" /\ block < packet.blocks =>
              block \in 0 .. packet.blocks - 1 /\ laser \in 0 .. packet.lasers - 1
  BY Layout DEF IInv, Parsed

\* No parser of the driver reads behind the end of the packet whose size picked it.
THEOREM BytesInPacketHolds == Spec => []BytesInPacket
<1>1. IInv => BytesInPacket
  <2>. SUFFICES ASSUME IInv PROVE index <= packet.size
    BY DEF BytesInPacket
  <2>1. CASE step = "receive"
    BY <2>1 DEF IInv, Parsed, Idle
  <2>2. CASE step # "receive"
    <3>. DEFINE head == HeadEnd(packet)
                size == BlockSize(packet)
                end == Fields(packet).end
    <3>1. /\ head \in Nat /\ size \in Nat /\ end \in Nat /\ packet.blocks \in Nat
          /\ BlocksEnd(packet) + end <= packet.size /\ BlocksEnd(packet) \in Nat
          /\ block \in Nat
      BY <2>2, InPacket, Layout
    <3>2. BlocksEnd(packet) = head + packet.blocks * size
      BY DEF BlocksEnd
    <3>3. packet.size \in Nat
      BY <2>2, InPacket, Formats DEF Is40P, Is64, Is20, IsQT, IsXT32, IsXT16, IsXTM
    <3>4. CASE step = "blocks"
      <4>1. index = head + block * size /\ block <= packet.blocks
        BY <3>4 DEF IInv, Parsed
      <4>. HIDE DEF head, size, end
      <4>2. block * size <= packet.blocks * size
        BY <3>1, <4>1
      <4>3. block * size \in Nat /\ packet.blocks * size \in Nat
        BY <3>1
      <4>. QED
        BY <3>1, <3>2, <3>3, <4>1, <4>2, <4>3
    <3>5. CASE step = "points"
      BY <3>1, <3>5 DEF IInv, Parsed
    <3>. QED
      BY <2>2, <3>4, <3>5 DEF IInv, Parsed
  <2>. QED
    BY <2>1, <2>2
<1>. QED
  BY <1>1, ParsedAndTimed, PTL

\* The pcap reader's own table of positions names the bytes the parser takes the time
\* and the date from, for every packet but those of seven blocks and every name of the
\* lidar but "XT".
THEOREM PcapAgreesHolds == Spec => []PcapAgrees
<1>1. IInv => PcapAgrees
  <2>. SUFFICES ASSUME IInv, step = "points", Own
                PROVE  <<timeAt, utcAt>> = PcapIndex(type)
                         <=> ~(type = "Pandar64" /\ packet.blocks = 7) /\ type # "XT"
    BY DEF PcapAgrees
  <2>1. /\ timeAt = BlocksEnd(packet) + Fields(packet).time
        /\ utcAt = BlocksEnd(packet) + Fields(packet).utc
    BY DEF IInv, Parsed
  <2>. QED
    BY <2>1, InPacket, Layout
<1>. QED
  BY <1>1, ParsedAndTimed, PTL

\* Whatever lidar_type is, and whatever lidar sends: behind the vectors of the angles
\* read the packets of three lidars, a Pandar20's on a driver for a PandarXT-16 or for a
\* string Init does not know, and a PandarXT-32's on a driver told "XT", for which Init
\* leaves the vectors empty; of no other pair of lidar and type.
THEOREM AnglesInRangeHolds == Spec => []AnglesInRange
<1>1. IInv => AnglesInRange
  <2>. SUFFICES ASSUME IInv, step = "points", block < packet.blocks, laser >= Rows(type)
                PROVE  \/ sender \in {"Pandar40P", "Pandar64", "PandarQT"}
                       \/ /\ sender \in {"Pandar20A", "Pandar20B"}
                          /\ type \in {"PandarXT-16", "XT", "other"}
                       \/ sender = "PandarXT-32" /\ type = "XT"
    BY DEF AnglesInRange, Point
  <2>1. /\ type \in Types /\ sender \in Lidars /\ packet \in Packets
        /\ Parser(packet.size) # "none" /\ laser \in Nat /\ laser < packet.lasers
    BY InPacket
  <2>2. type \in Lidars \cup {"Pandar40M", "XT", "other"}
    BY <2>1, TypesAssumption DEF TypesAssumption
  <2>3. CASE sender \in {"Pandar20A", "Pandar20B"} /\ Is20(packet)
    BY <2>1, <2>2, <2>3 DEF Is20, Rows, Lasers, Lidars
  <2>4. CASE sender = "PandarXT-32" /\ IsXT32(packet)
    <3>1. type \in {"XT", "PandarXT-32"}
      BY <2>1, <2>4, ParserIs DEF IsXT32
    <3>. QED
      BY <2>1, <2>4, <3>1 DEF IsXT32, Rows, Lasers, Lidars
  <2>5. CASE sender = "PandarXT-16" /\ IsXT16(packet)
    <3>1. type = "PandarXT-16"
      BY <2>1, <2>5, ParserIs DEF IsXT16
    <3>. QED
      BY <2>1, <2>5, <3>1 DEF IsXT16, Rows, Lasers, Lidars
  <2>6. CASE sender = "PandarXTM" /\ IsXTM(packet)
    <3>1. type = "PandarXTM"
      BY <2>1, <2>6, ParserIs DEF IsXTM
    <3>. QED
      BY <2>1, <2>6, <3>1 DEF IsXTM, Rows, Lasers, Lidars
  <2>. QED
    BY <2>1, <2>3, <2>4, <2>5, <2>6, Formats
<1>. QED
  BY <1>1, ParsedAndTimed, PTL

\* A point's time comes from cells that Init or a header wrote, whatever the lidar, the
\* echo byte, the number of blocks and lidar_type are, but for one laser, one block, the
\* triple returns of two XTs and all points of a driver told "XT".
THEOREM CellsWrittenHolds == Spec => []CellsWritten
<1>1. IInv => CellsWritten
  <2>. SUFFICES ASSUME IInv, step = "points", block < packet.blocks
                PROVE  PointTime(block, laser) = Unknown <=> Unwritten(block, laser)
    BY DEF CellsWritten, Point
  <2>1. /\ block \in 0 .. packet.blocks - 1 /\ laser \in 0 .. packet.lasers - 1
        /\ sender \in Lidars /\ packet \in Packets /\ Parser(packet.size) # "none"
    BY InPacket
  <2>2. CASE ~Untimed
    <3>1. /\ Unwritten(block, laser) => PointTime(block, laser) = Unknown
          /\ ~Unwritten(block, laser) => PointTime(block, laser) > Before
      BY <2>1, <2>2, TimesHold DEF Times
    <3>2. ~(Unknown > Before)
      BY DEF Unknown, Before
    <3>. QED
      BY <3>1, <3>2
  <2>3. CASE Untimed
    <3>1. Parser(packet.size) = "20" /\ NoOffset("20")
      BY <2>1, <2>3, Formats, ParserIs DEF Untimed, NoOffset, Is20
    <3>2. PointTime(block, laser) = 0
      BY <3>1 DEF PointTime
    <3>. QED
      BY <2>3, <3>2 DEF Untimed, Unwritten, Unknown
  <2>. QED
    BY <2>2, <2>3
<1>. QED
  BY <1>1, ParsedAndTimed, PTL

\* Each point is later than all points of the firings in earlier blocks.
THEOREM FiringsInOrderHolds == Spec => []FiringsInOrder
<1>1. IInv => FiringsInOrder
  <2>. SUFFICES ASSUME IInv, step = "points", ~Untimed, time # Unknown, time # Before
                PROVE  time > earlier
    BY DEF FiringsInOrder
  <2>1. earlier < time /\ earlier \in Int /\ time \in Int
    BY DEF IInv, Timed
  <2>. QED
    BY <2>1
<1>. QED
  BY <1>1, ParsedAndTimed, PTL

\* From a block to the next a laser's time stays the same just when both are returns of
\* one firing.
THEOREM ReturnsTogetherHolds == Spec => []ReturnsTogether
<1>1. IInv => ReturnsTogether
  <2>. SUFFICES ASSUME IInv, step = "points", block < packet.blocks, ~Untimed,
                       ~Unwritten(block, laser), block > 0
                PROVE  Firing(block) = Firing(block - 1) <=>
                         PointTime(block, laser) = PointTime(block - 1, laser)
    BY DEF ReturnsTogether, Point
  <2>1. /\ block \in 0 .. packet.blocks - 1 /\ laser \in 0 .. packet.lasers - 1 /\ Times
        /\ block \in Nat /\ packet.blocks \in Nat
        /\ sender \in Lidars /\ packet \in Packets
    BY InPacket, TimesHold
  <2>2. block - 1 \in 0 .. packet.blocks - 1 /\ block - 1 \in Nat /\ block - 1 <= block
    BY <2>1
  <2>3. ~Unwritten(block - 1, laser)
    <3>1. CASE sender = "Pandar64"
      <4>1. packet.blocks \in {6, 7}
        BY <2>1, <3>1, Formats DEF Is64
      <4>. QED
        BY <2>1, <3>1, <4>1 DEF Unwritten
    <3>2. CASE sender # "Pandar64"
      BY <3>2 DEF Unwritten
    <3>. QED
      BY <3>1, <3>2
  <2>4. /\ PointTime(block, laser) \in Int /\ PointTime(block - 1, laser) \in Int
        /\ Firing(block - 1) < Firing(block) =>
             PointTime(block - 1, laser) < PointTime(block, laser)
        /\ Firing(block - 1) = Firing(block) =>
             PointTime(block - 1, laser) = PointTime(block, laser)
    BY <2>1, <2>2, <2>3 DEF Times
  <2>5. /\ Firing(block - 1) \in Nat /\ Firing(block) \in Nat
        /\ Firing(block - 1) <= Firing(block)
    BY <2>1, <2>2, FiringsRise
  <2>. QED
    BY <2>4, <2>5
<1>. QED
  BY <1>1, ParsedAndTimed, PTL

=============================================================================
