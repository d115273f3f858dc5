----------------------------- MODULE PointTimes ------------------------------
(***************************************************************************)
(* One lidar packet on its way from bytes to points with a time: the size  *)
(* picks the parser (ProcessLiarPacket), the parser walks the packet with  *)
(* an index (Parse...), and each unit of each block gets the packet's time *)
(* moved by the offset of its block and the offset of its laser            *)
(* (Calc...PointXYZIT, timestamp_type other than "realtime").              *)
(*                                                                         *)
(* Times are nanoseconds relative to the time in the packet.  Units at a   *)
(* wrong distance are skipped by the code; here every unit is kept, which  *)
(* only adds points to compare.  A packet with a wrong start is dropped    *)
(* and changes nothing.  The lidar on the port need not be the one the     *)
(* driver was told (lidar_type, which nothing checks), nor its echo byte   *)
(* one the driver knows.                                                   *)
(***************************************************************************)
EXTENDS OffsetTables, FiniteSetsExt

CONSTANTS
  Types,     \* the strings lidar_type may be
  Echoes,    \* the echo bytes of the packets
  Blocks64   \* how many blocks the packets of a Pandar64 may have

Lidars == {"Pandar40P", "Pandar64", "Pandar20A", "Pandar20B", "PandarQT",
           "PandarXT-32", "PandarXT-16", "PandarXTM"}

\* The code also knows "Pandar40M" and, in one place, "XT"; "other" stands for every
\* other string.
ASSUME TypesAssumption == Types \subseteq Lidars \cup {"Pandar40M", "XT", "other"}
ASSUME EchoesAssumption == Echoes \subseteq 0 .. 255
ASSUME Blocks64Assumption == Blocks64 \subseteq {6, 7}

Unknown == -1000000000   \* a time computed from a cell nobody wrote
Before == -999999999     \* earlier than every time

VARIABLES
  type,      \* m_sLidarType
  sender,    \* the lidar whose packets arrive
  packet,    \* the packet: its size, number of blocks, lasers, and echo byte
  step,      \* "receive", "blocks" or "points"
  index,     \* the parser's index into the packet
  timeAt, utcAt,  \* where the parser found the time and the date
  block, laser,   \* the block parsed next, then the unit computed next
  time,      \* the time of the last point
  latest,    \* the latest time of the points of the current firing
  earlier    \* the latest time of the points of the firings before it

vars == <<type, sender, packet, step, index, timeAt, utcAt, block, laser, time, latest,
          earlier>>

-----------------------------------------------------------------------------
(* The packets a lidar sends. *)

Lasers(t) ==
  CASE t = "Pandar40P" -> 40
    [] t \in {"Pandar64", "PandarQT"} -> 64
    [] t \in {"Pandar20A", "Pandar20B"} -> 20
    [] t \in {"PandarXT-32", "PandarXTM"} -> 32
    [] t = "PandarXT-16" -> 16

Blocks(t) ==
  CASE t = "Pandar40P" -> {10}
    [] t = "Pandar64" -> Blocks64
    [] t \in {"Pandar20A", "Pandar20B"} -> {20}
    [] t = "PandarQT" -> {4}
    [] t \in {"PandarXT-32", "PandarXT-16"} -> {8}
    [] t = "PandarXTM" -> {6}

\* The sizes of the headers, with and without a sequence number.
Sizes(t, blocks) ==
  CASE t = "Pandar40P" -> LET PACKET_SIZE == (3 * 40 + 4) * 10 + 16 + 6
                          IN  {PACKET_SIZE, PACKET_SIZE + 4}
    [] t = "Pandar64" -> {8 + (3 * 64 + 2) * blocks + tail : tail \in {22, 26}}
    [] t \in {"Pandar20A", "Pandar20B"} -> {8 + (3 * 20 + 2) * 20 + 22}
    [] t = "PandarQT" -> {12 + (4 * 64 + 2) * 4 + tail : tail \in {24, 28}}
    [] t = "PandarXT-32" -> {12 + (4 * 32 + 2) * 8 + 28}
    [] t = "PandarXT-16" -> {568}
    [] t = "PandarXTM" -> {820}

XTLidars == {"PandarXT-32", "PandarXT-16", "PandarXTM"}

\* How many blocks of a lidar's packet a firing fills when the echo byte is echo.
Returns(t, echo) ==
  CASE echo = 61 /\ t \in XTLidars -> 3
    [] echo = 57 /\ t # "PandarQT" -> 2
    [] echo \in {59, 60} /\ t \in XTLidars -> 2
    [] echo = 5 /\ t = "PandarQT" -> 2
    [] OTHER -> 1

Packets ==
  UNION {{[size |-> s, blocks |-> b, lasers |-> Lasers(sender), echo |-> e] :
            s \in Sizes(sender, b), e \in Echoes} : b \in Blocks(sender)}

-----------------------------------------------------------------------------
(* The parsers. *)

Sizes64 == Sizes("Pandar64", 6) \cup Sizes("Pandar64", 7)

\* The lidar whose packets a type is an XT's of.
XTTypes == [t \in XTLidars \cup {"XT"} |-> IF t = "XT" THEN "PandarXT-32" ELSE t]

\* Mistake: an XT's parser too is picked by the size alone.
ParserBySize(size) ==
  CASE size \in Sizes("Pandar40P", 10) -> "40"
    [] size \in Sizes64 -> "64"
    [] size \in Sizes("Pandar20A", 20) -> "20"
    [] size \in Sizes("PandarQT", 4) -> "QT"
    [] size \in UNION {Sizes(t, 8) : t \in XTLidars} -> "XT"
    [] OTHER -> "none"

\* Which parser ProcessLiarPacket picks: by size, and for an XT by its type.
Parser(size) ==
  CASE size \in Sizes("Pandar40P", 10) -> "40"
    [] size \in Sizes64 -> "64"
    [] size \in Sizes("Pandar20A", 20) -> "20"
    [] size \in Sizes("PandarQT", 4) -> "QT"
    [] type \in DOMAIN XTTypes /\ size \in Sizes(XTTypes[type], 8) -> "XT"
    [] OTHER -> "none"

\* What the parser adds to its index for the head, for a block's azimuth and for
\* a unit.
HeadSize(parser) ==
  CASE parser = "40" -> 0 [] parser \in {"64", "20"} -> 8 [] parser \in {"QT", "XT"} -> 12
UnitSize(parser) == IF parser \in {"40", "64", "20"} THEN 3 ELSE 4

\* Mistake: all parsers skip four bytes, as that of the Pandar40P.
AzimuthSizeFour(parser) == 4
AzimuthSize(parser) == IF parser = "40" THEN 4 ELSE 2

\* Mistake: the factory byte after the echo is not skipped.
TailNoFactory(parser) ==
  CASE parser \in {"40", "64", "20"} -> [time |-> 10, utc |-> 15, end |-> 21]
    [] parser = "QT" -> [time |-> 12, utc |-> 17, end |-> 23]
    [] parser = "XT" -> [time |-> 19, utc |-> 13, end |-> 23]

\* Where it finds, counted from the end of the last block, the time and the date,
\* and the byte behind the last it reads.
TailFields(parser) ==
  CASE parser \in {"40", "64", "20"} -> [time |-> 10, utc |-> 16, end |-> 22]
    [] parser = "QT" -> [time |-> 12, utc |-> 18, end |-> 24]
    [] parser = "XT" -> [time |-> 19, utc |-> 13, end |-> 23]

\* Where the pcap reader looks for the time and the date, by type; for a type it
\* does not know, nowhere.
PcapIndex(t) ==
  CASE t \in {"Pandar40P", "Pandar40M"} -> <<1250, 1256>>
    [] t = "Pandar64" -> <<1182, 1188>>
    [] t = "PandarQT" -> <<1056, 1062>>
    [] t \in {"Pandar20A", "Pandar20B"} -> <<1258, 1264>>
    [] t = "PandarXT-32" -> <<1071, 1065>>
    [] t = "PandarXT-16" -> <<559, 553>>
    [] t = "PandarXTM" -> <<811, 805>>
    [] OTHER -> <<0, 0>>

-----------------------------------------------------------------------------
(* The times. *)

\* Mistake: of the two returns only strongest-and-last (0x39) is taken for dual.
XTReturnsOneDual(echo) == CASE echo = 61 -> 3 [] echo = 57 -> 2 [] OTHER -> 1

\* The blocks of a firing an XT's echo byte stands for.
XTReturns(echo) == CASE echo = 61 -> 3 [] echo \in {57, 59, 60} -> 2 [] OTHER -> 1

\* The table of block offsets the echo byte picks; blockXTOffsetTriple_ is written
\* for the XTM only.
BlockOffset(parser, echo) ==
  CASE parser = "40" -> IF echo = 57 THEN Block40OffsetDual ELSE Block40OffsetSingle
    [] parser = "64" -> IF echo = 57 THEN Block64OffsetDual ELSE Block64OffsetSingle
    [] parser = "20" -> IF echo = 57 THEN Block20OffsetDual ELSE Block20OffsetSingle
    [] parser = "QT" -> IF echo = 5 THEN BlockQTOffsetDual ELSE BlockQTOffsetSingle
    [] parser = "XT" ->
         CASE type = "PandarXTM" -> BlockXTOffset(6, XTReturns(echo))
           [] type # "PandarXTM" /\ XTReturns(echo) < 3 -> BlockXTOffset(8, XTReturns(echo))
           [] OTHER -> <<>>

\* laserXTOffset_ is written for the three XTs, and not for "XT".
LaserOffset(parser) ==
  CASE parser = "40" -> Laser40Offset
    [] parser = "64" -> Laser64Offset
    [] parser = "20" -> IF type = "Pandar20A" THEN Laser20AOffset ELSE Laser20BOffset
    [] parser = "QT" -> LaserQTOffset
    [] parser = "XT" -> CASE type = "PandarXTM" -> LaserXTMOffset
                          [] type = "PandarXT-16" -> LaserXT16Offset
                          [] type = "PandarXT-32" -> LaserXTOffset
                          [] OTHER -> <<>>

\* Until the QT the offsets count back from the packet's time, then from it on; and
\* the parser of the Pandar20s knows two types.
Sign(parser) == IF parser \in {"QT", "XT"} THEN 1 ELSE -1
NoOffset(parser) == parser = "20" /\ type \notin {"Pandar20A", "Pandar20B"}
PointTime(b, i) ==
  LET parser == Parser(packet.size)
      blocks == BlockOffset(parser, packet.echo)
      lasers == LaserOffset(parser)
  IN  CASE NoOffset(parser) -> 0
        [] ~NoOffset(parser) /\ b \in DOMAIN blocks /\ i \in DOMAIN lasers ->
             Sign(parser) * (blocks[b] + lasers[i])
        [] OTHER -> Unknown

-----------------------------------------------------------------------------
Idle ==
  [size |-> 0, blocks |-> 0, lasers |-> 0, echo |-> 0]

Init ==
  /\ type \in Types /\ sender \in Lidars
  /\ packet = Idle /\ step = "receive" /\ index = 0 /\ timeAt = 0 /\ utcAt = 0
  /\ block = 0 /\ laser = 0 /\ time = Before /\ latest = Before /\ earlier = Before

\* A packet of a size nobody parses is dropped.
Drop ==
  /\ step = "receive" /\ \E p \in Packets : Parser(p.size) = "none"
  /\ UNCHANGED vars

Receive ==
  /\ step = "receive"
  /\ packet' \in {p \in Packets : Parser(p.size) # "none"}
  /\ step' = "blocks"
  /\ index' = HeadSize(Parser(packet'.size))
  /\ UNCHANGED <<type, sender, timeAt, utcAt, block, laser, time, latest, earlier>>

ParseBlock ==
  /\ step = "blocks" /\ block < packet.blocks
  /\ LET parser == Parser(packet.size)
     IN  index' = index + AzimuthSize(parser) + packet.lasers * UnitSize(parser)
  /\ block' = block + 1
  /\ UNCHANGED <<type, sender, packet, step, timeAt, utcAt, laser, time, latest, earlier>>

ParseTail ==
  /\ step = "blocks" /\ block = packet.blocks
  /\ LET tail == TailFields(Parser(packet.size))
     IN  /\ timeAt' = index + tail.time /\ utcAt' = index + tail.utc
         /\ index' = index + tail.end
  /\ step' = "points" /\ block' = 0
  /\ UNCHANGED <<type, sender, packet, laser, time, latest, earlier>>

\* The firing a block belongs to.
Firing(b) == b \div Returns(sender, packet.echo)

CalcPoint ==
  /\ step = "points" /\ block < packet.blocks
  /\ time' = PointTime(block, laser)
  /\ LET first == laser = 0 /\ block > 0 /\ Firing(block) # Firing(block - 1)
     IN  /\ earlier' = IF first THEN latest ELSE earlier
         /\ latest' = Max({latest, time'})
  /\ laser' = (laser + 1) % packet.lasers
  /\ block' = IF laser = packet.lasers - 1 THEN block + 1 ELSE block
  /\ UNCHANGED <<type, sender, packet, step, index, timeAt, utcAt>>

Done ==
  /\ step = "points" /\ block = packet.blocks
  /\ packet' = Idle /\ step' = "receive" /\ index' = 0 /\ timeAt' = 0 /\ utcAt' = 0
  /\ block' = 0 /\ time' = Before /\ latest' = Before /\ earlier' = Before
  /\ UNCHANGED <<type, sender, laser>>

Next == Drop \/ Receive \/ ParseBlock \/ ParseTail \/ CalcPoint \/ Done

Spec == Init /\ [][Next]_vars

-----------------------------------------------------------------------------
\* No parser reads behind the end of the packet, whose size was computed by the
\* macros of the headers and not by the parser's steps.
BytesInPacket == index <= packet.size

\* The driver was told the lidar on the port, by one of the names the code knows.
Own ==
  \/ type = sender
  \/ type = "Pandar40M" /\ sender = "Pandar40P"
  \/ type = "XT" /\ sender = "PandarXT-32"

\* The pcap reader, which has its own table of positions, finds the time and the
\* date where the parser does.  Its positions for a Pandar64 are those of six
\* blocks; in a packet of seven they lie in the last block.  "XT", which the parser
\* knows, is not in its table.
PcapAgrees ==
  step = "points" /\ Own =>
    (<<timeAt, utcAt>> = PcapIndex(type) <=>
       ~(type = "Pandar64" /\ packet.blocks = 7) /\ type # "XT")

\* A unit of the packet is about to get its angles and its time.
Point == step = "points" /\ block < packet.blocks

\* The rows of the vectors of the angles that Init writes for a type.
Rows(t) ==
  CASE t \in Lidars -> Lasers(t)
    [] t = "Pandar40M" -> Lasers("Pandar40P")
    [] OTHER -> 0

\* The vectors of the angles have a row for each laser of lidar_type, and nothing
\* compares it with the packet.  Computed with angles from behind them are only the
\* packets of three lidars, a Pandar20's on a driver for the smallest XT or for none
\* of Init's types, and a PandarXT-32's on a driver told "XT": the other XTs, whose
\* packets come in three sizes, are kept apart.
AnglesInRange ==
  Point /\ laser >= Rows(type) =>
    \/ sender \in {"Pandar40P", "Pandar64", "PandarQT"}
    \/ sender \in {"Pandar20A", "Pandar20B"} /\ type \in {"PandarXT-16", "XT", "other"}
    \/ sender = "PandarXT-32" /\ type = "XT"

\* The cells nobody writes: laser40Offset_[7], which Init leaves out, those of the
\* seventh block of a Pandar64, whose tables end with the sixth, all lasers of a
\* driver told "XT", and of the XTs but the XTM the blocks of three returns.
Unwritten(b, i) ==
  \/ sender = "Pandar40P" /\ i = 7
  \/ sender = "Pandar64" /\ b = 6
  \/ sender \in {"PandarXT-32", "PandarXT-16"} /\ (type = "XT" \/ packet.echo = 61)

\* Every point's time is computed from cells that Init or a header wrote ("init
\* the laser shot time offset, us", pandarGeneral_internal.cc:268) and that lie
\* inside their arrays, but for the four above: no echo byte, packet size or type,
\* right or wrong, leads to another.
CellsWritten == Point => (PointTime(block, laser) = Unknown <=> Unwritten(block, laser))

\* A Pandar20's points get no offsets on a driver that was told neither of the two.
Untimed ==
  sender \in {"Pandar20A", "Pandar20B"} /\ type \notin {"Pandar20A", "Pandar20B"}

\* The firings of a packet do not overlap in time: each point is later than all
\* points of the firings in earlier blocks, whatever lidar_type is.
FiringsInOrder ==
  step = "points" /\ ~Untimed /\ time \notin {Unknown, Before} => time > earlier

\* "dual return, block 0&1 (2&3 , 4*5 ...)'s timestamp is the same"
\* (pandarGeneral_internal.cc:1445): a laser's returns of one firing have one time,
\* and no two firings share it.
ReturnsTogether ==
  Point /\ ~Untimed /\ ~Unwritten(block, laser) /\ block > 0 =>
    (Firing(block) = Firing(block - 1) <=>
       PointTime(block, laser) = PointTime(block - 1, laser))
=============================================================================
