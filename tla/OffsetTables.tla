---------------------------- MODULE OffsetTables -----------------------------
(***************************************************************************)
(* The time offsets of blocks and lasers that PandarGeneral_Internal::Init *)
(* writes into the members of the driver, in nanoseconds.  A table is a    *)
(* function whose domain is the set of the cells Init writes.              *)
(***************************************************************************)
EXTENDS Integers, Sequences, Functions

\* The table left by a list of assignments <<lasers, offset>>: the later of two
\* to the same laser counts.
Assigned(list) ==
  [i \in UNION {list[k][1] : k \in DOMAIN list} |->
     LET last == CHOOSE k \in DOMAIN list :
                   /\ i \in list[k][1]
                   /\ \A j \in DOMAIN list : i \in list[j][1] => j <= k
     IN  list[last][2]]

Listed(seq) == [i \in 0 .. Len(seq) - 1 |-> seq[i + 1]]

\* The offset of a block when n blocks of one packet are interval apart and
\* those of a firing, returns many, share it.
Steps(n, returns, interval) == [b \in 0 .. n - 1 |-> ((n - 1 - b) \div returns) * interval]

Plus(table, offset) == [i \in DOMAIN table |-> table[i] + offset]

-----------------------------------------------------------------------------
(* Pandar40P and Pandar40M. *)

Block40OffsetSingle == Plus(Steps(10, 1, 55560), 28580)
Block40OffsetDual == Plus(Steps(10, 2, 55560), 28580)

Shots40 == <<
  <<{3, 39}, 3620>>, <<{35}, 4920>>, <<{27}, 6230>>, <<{11, 15}, 8190>>,
  <<{31}, 9500>>, <<{23}, 11470>>, <<{28}, 12770>>, <<{16}, 14740>>,
  <<{2, 38}, 16040>>, <<{34}, 17350>>, <<{24}, 18650>>, <<{8, 12}, 20620>>,
  <<{30}, 21920>>, <<{20}, 23890>>, <<{25}, 25190>>, <<{13}, 27160>>,
  <<{1, 37}, 28470>>, <<{33}, 29770>>, <<{5}, 31740>>, <<{21}, 31745>>,
  <<{9}, 33710>>, <<{29}, 35010>>, <<{17}, 36980>>, <<{22}, 38950>>,
  <<{10}, 40910>>, <<{0, 36}, 42220>>, <<{32}, 43520>>, <<{4, 18}, 45490>>,
  <<{6}, 47460>>, <<{26}, 48760>>, <<{14}, 50730>>, <<{19}, 52700>>,
  <<{9}, 54670>> >>

Laser40Offset == Assigned(Shots40)

-----------------------------------------------------------------------------
(* Pandar64: two lasers at a time, 16 times 1.304 us and then 1.968 us apart. *)

Block64OffsetSingle == Plus(Steps(6, 1, 55560), 42580)
Block64OffsetDual == Plus(Steps(6, 2, 55560), 42580)

Fired64 == <<
  {50, 60}, {44, 59}, {38, 56}, {8, 54}, {48, 62}, {42, 58}, {6, 55}, {52, 63},
  {46, 61}, {40, 57}, {5, 53}, {4, 47}, {3, 49}, {2, 51}, {1, 45}, {0, 43},
  {23, 32}, {26, 41}, {20, 35}, {14, 29}, {21, 36}, {15, 30}, {9, 24}, {18, 33},
  {12, 27}, {19, 34}, {13, 28}, {7, 22}, {16, 31}, {10, 25}, {17, 37}, {11, 39} >>

Laser64Offset == Assigned([k \in DOMAIN Fired64 |->
  <<Fired64[k], 3620 + IF k <= 16 THEN (k - 1) * 1304 ELSE 15 * 1304 + (k - 16) * 1968>>])

-----------------------------------------------------------------------------
(* Pandar20A and Pandar20B. *)

Block20OffsetSingle == Plus(Steps(20, 1, 55560), 28580)
Block20OffsetDual == Plus(Steps(20, 2, 55560), 28580)

Shots20A == <<
  <<{1, 19}, 3620>>, <<{16}, 4924>>, <<{14}, 9500>>, <<{11}, 11468>>,
  <<{0, 18}, 16044>>, <<{5, 7}, 20620>>, <<{10}, 23892>>, <<{17}, 28468>>,
  <<{15}, 29772>>, <<{3}, 31740>>, <<{13}, 35012>>, <<{9}, 36980>>,
  <<{6}, 40916>>, <<{2}, 45492>>, <<{4}, 47460>>, <<{12}, 48764>>,
  <<{8}, 50732>> >>

Laser20AOffset == Assigned(Shots20A)

Shots20B == <<
  <<{17}, 4924>>, <<{5}, 8196>>, <<{15}, 9500>>, <<{11}, 11468>>,
  <<{8}, 14740>>, <<{19}, 16044>>, <<{3, 6}, 20620>>, <<{14}, 21924>>,
  <<{10}, 23892>>, <<{18}, 28468>>, <<{16}, 29772>>, <<{1}, 31740>>,
  <<{13}, 35012>>, <<{4}, 40916>>, <<{0, 9}, 45492>>, <<{2}, 47460>>,
  <<{12}, 48764>>, <<{7}, 50732>> >>

Laser20BOffset == Assigned(Shots20B)

-----------------------------------------------------------------------------
(* PandarQT: offsets from the start of the packet, not from its end. *)

BlockQTOffsetSingle == Listed(<<25710, 192380, 359040, 525710>>)
BlockQTOffsetDual == Listed(<<25710, 25710, 192380, 192380>>)

ShotsQT == <<
  12310, 14370, 16430, 18490, 20540, 22600, 24660, 26710,
  29160, 31220, 33280, 35340, 37390, 39450, 41500, 43560,
  46610, 48670, 50730, 52780, 54840, 56900, 58950, 61010,
  63450, 65520, 67580, 69630, 71690, 73740, 75800, 77860,
  80900, 82970, 85020, 87080, 89140, 91190, 93250, 95300,
  97750, 99820, 101870, 103930, 105980, 108040, 110100, 112150,
  115200, 117260, 119320, 121380, 123430, 125490, 127540, 129600,
  132050, 134110, 136170, 138220, 140280, 142340, 144390, 146450>>

LaserQTOffset == Listed(ShotsQT)

-----------------------------------------------------------------------------
(* PandarXT-32, PandarXT-16 (every other laser) and PandarXTM (6 blocks). *)

BlockXTOffset(blocks, returns) ==
  [b \in 0 .. 7 |->
     5632 - (IF b < blocks THEN Steps(blocks, returns, 50000)[b] ELSE 0)]

LaserXTOffset == [i \in 0 .. 31 |-> 1512 * i + 368]
\* Mistake: the last row of the XT-16 is left out.
LaserXT16OffsetShort == [i \in 0 .. 14 |-> LaserXTOffset[i * 2]]
LaserXT16Offset == [i \in 0 .. 15 |-> LaserXTOffset[i * 2]]
\* Mistake: the lasers of the XTM are fired one after the other, not in two rows.
LaserXTMOffsetOneRow == [i \in 0 .. 31 |-> 2856 * i + 368]
LaserXTMOffset == [i \in 0 .. 31 |-> 2856 * (i % 16) + 368]
=============================================================================
