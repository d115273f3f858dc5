---------------------------- MODULE FrameSplitter ----------------------------
(***************************************************************************)
(* How the processing thread (ProcessLiarPacket, the Calc...PointXYZIT     *)
(* functions and EmitBackMessege of pandarGeneral_internal.cc) cuts the    *)
(* stream of packets into frames.  Every accepted packet joins the raw     *)
(* scan; every block of it is compared with the azimuth of the block       *)
(* before, may end the frame, and then adds its valid points to the next.  *)
(* The five lidar families run the same code on their own packet type; the *)
(* QT's differs in one line (see Calc).                                    *)
(*                                                                         *)
(* A packet that fails the size or the parse test changes nothing here.    *)
(* The node always registers pcl_callback_.  Azimuths are in grid units,   *)
(* Circle of them to the turn (36000 in the code).                         *)
(***************************************************************************)
EXTENDS Integers, SequencesExt

CONSTANTS
  Circle,      \* 36000
  Gap,         \* 600: a forward step of six degrees or more ends no frame
  Blocks,      \* blocks in a packet
  Lasers,      \* chLaserNumber
  Traffics     \* the drivers and their packets; see TrafficAssumption

ASSUME CircleAssumption == Circle \in Nat \ {0} /\ Gap \in 1 .. Circle
ASSUME FormatAssumption == Blocks \in Nat \ {0} /\ Lasers \in Nat \ {0}

\* structured is pcl_type_ (one list of points per laser), start is start_angle_,
\* qt tells CalcQTPointXYZIT from the other four; steps are how far the azimuth
\* may move from one block to the next, valid the lasers that may have a return
\* in a packet; packets and restarts bound what happens.
ASSUME TrafficAssumption ==
  \A t \in Traffics :
    /\ t.structured \in BOOLEAN /\ t.qt \in BOOLEAN /\ t.start \in 0 .. Circle - 1
    /\ t.steps \subseteq Int /\ t.valid \subseteq SUBSET (0 .. Lasers - 1)
    /\ t.packets \in Nat /\ t.restarts \in Nat

VARIABLES
  traffic,     \* the driver's parameters and what it may receive
  last,        \* last_azimuth_
  buffers,     \* iPointCloudIndex, the points below it in PointCloud, and
               \* PointCloudList: bags, which leave the order open
  scan,        \* scan->packets: packet numbers, Correction for the file
  frameId,     \* has outMsg been given its frame_id?
  accepted,    \* packets accepted so far; the current one's number
  block,       \* the next block of the current packet; Blocks when done
  valid,       \* the lasers with a valid return in the current packet
  pos,         \* where the lidar points, without reduction to one turn
  restarts,    \* times the processing thread was stopped and started again
  published    \* what pcl_callback_ was handed, in order

vars == <<traffic, last, buffers, scan, frameId, accepted, block, valid, pos, restarts,
          published>>

Rings == 0 .. Lasers - 1
Correction == 0

structured == traffic.structured
StartAngle == traffic.start

Init ==
  /\ traffic \in Traffics
  /\ last = 0
  /\ buffers = [index |-> 0, cloud |-> EmptyBag,
                list |-> [r \in Rings |-> EmptyBag]]
  /\ scan = <<>> /\ frameId = FALSE
  /\ accepted = 0 /\ block = Blocks /\ valid = {}
  /\ pos \in 0 .. Circle - 1
  /\ restarts = 0 /\ published = <<>>

-----------------------------------------------------------------------------
(* The comparison with the block before. *)

AzimuthGap(azimuth) == IF last > azimuth THEN 0 ELSE azimuth - last

\* Mistakes: a block exactly on start_angle_ does not end the frame; every wrap
\* of the azimuth ends it.
CrossesAfterStart(azimuth) ==
  /\ last # azimuth /\ AzimuthGap(azimuth) < Gap
  /\ \/ last > azimuth /\ StartAngle <= azimuth
     \/ last < StartAngle /\ StartAngle < azimuth

CrossesAtWrap(azimuth) ==
  /\ last # azimuth /\ AzimuthGap(azimuth) < Gap
  /\ \/ last > azimuth
     \/ last < StartAngle /\ StartAngle <= azimuth

Crosses(azimuth) ==
  /\ last # azimuth /\ AzimuthGap(azimuth) < Gap
  /\ \/ last > azimuth /\ StartAngle <= azimuth
     \/ last < StartAngle /\ StartAngle <= azimuth

HasPoints == buffers.index > 0 \/ buffers.list[0] # EmptyBag

-----------------------------------------------------------------------------
(* EmitBackMessege. *)

\* The lists of the lasers, one after the other.
Lists ==
  [p \in UNION {DOMAIN buffers.list[r] : r \in Rings} |-> buffers.list[p.ring][p]]

FramePoints == IF structured THEN Lists ELSE buffers.cloud

EmptiedBuffers ==
  IF structured THEN [buffers EXCEPT !.list = [r \in Rings |-> EmptyBag]]
                ELSE [buffers EXCEPT !.index = 0, !.cloud = EmptyBag]

\* scan->packets.clear()
ClearedScan == <<>>

Message == [scan |-> Append(scan, Correction), points |-> FramePoints, frameId |-> frameId]

-----------------------------------------------------------------------------
(* The Calc...PointXYZIT functions. *)

\* Turns are counted from the start angle; a point's turn is there for the
\* properties only.
Turn(p) == (p - StartAngle) \div Circle

BlockPoints(turn) ==
  {[packet |-> accepted, block |-> block, ring |-> r, turn |-> turn] : r \in valid}

OfRing(points, r) == SetToBag({p \in points : p.ring = r})

\* Mistake: the index moves for the skipped returns too.
CalcCountsSkipped(b, points) ==
  IF structured
    THEN [b EXCEPT !.list = [r \in Rings |-> b.list[r] (+) OfRing(points, r)]]
    ELSE [b EXCEPT !.cloud = @ (+) SetToBag(points), !.index = @ + Lasers]

\* The buffers b with one block's points added.  In CalcQTPointXYZIT the else
\* has no braces: the index moves whether or not PointCloud took the point.
Calc(b, points) ==
  IF structured
    THEN [b EXCEPT
            !.list = [r \in Rings |-> b.list[r] (+) OfRing(points, r)],
            !.index = IF traffic.qt THEN @ + Cardinality(points) ELSE @]
    ELSE [b EXCEPT !.cloud = @ (+) SetToBag(points), !.index = @ + Cardinality(points)]

-----------------------------------------------------------------------------
\* Mistake: a packet joins the scan only when the next one is there.
BeginWithoutScan ==
  /\ block = Blocks
  /\ accepted < traffic.packets
  /\ accepted' = accepted + 1
  /\ scan' = IF accepted = 0 THEN scan ELSE Append(scan, accepted)
  /\ \E v \in traffic.valid : valid' = v
  /\ block' = 0
  /\ UNCHANGED <<traffic, last, buffers, frameId, pos, restarts, published>>

\* A packet with the right size and a good parse: it joins the raw scan.
BeginPacket ==
  /\ block = Blocks
  /\ accepted < traffic.packets
  /\ accepted' = accepted + 1
  /\ scan' = Append(scan, accepted + 1)
  /\ \E v \in traffic.valid : valid' = v
  /\ block' = 0
  /\ UNCHANGED <<traffic, last, buffers, frameId, pos, restarts, published>>

\* Mistake: outMsg is labelled with the first frame.
LabelledByFrame == published # <<>>

\* outMsg gets its frame_id behind the loop over the blocks.
Labelled == block + 1 = Blocks

\* One turn of the loop over the blocks.
Block ==
  /\ block < Blocks
  /\ \E step \in traffic.steps :
       LET azimuth == (pos + step) % Circle
           emits == Crosses(azimuth) /\ HasPoints
           points == BlockPoints(Turn(pos + step))
       IN  /\ pos + step >= 0
           /\ pos' = pos + step
           /\ published' = IF emits THEN Append(published, Message) ELSE published
           /\ scan' = IF emits THEN ClearedScan ELSE scan
           /\ buffers' = Calc(IF emits THEN EmptiedBuffers ELSE buffers, points)
           /\ last' = azimuth
  /\ block' = block + 1
  /\ frameId' = (frameId \/ Labelled)
  /\ UNCHANGED <<traffic, accepted, valid, restarts>>

\* Mistake: the points of the frame under way go with the thread.
RestartForgets ==
  /\ block = Blocks /\ accepted > 0
  /\ restarts < traffic.restarts
  /\ restarts' = restarts + 1
  /\ scan' = <<>> /\ frameId' = FALSE
  /\ buffers' = EmptiedBuffers
  /\ UNCHANGED <<traffic, last, accepted, block, valid, pos, published>>

\* Stop joins the thread between two packets; the thread Start creates has its
\* own scan and outMsg. The buffers and last_azimuth_ are static or members.
Restart ==
  /\ block = Blocks /\ accepted > 0
  /\ restarts < traffic.restarts
  /\ restarts' = restarts + 1
  /\ scan' = <<>> /\ frameId' = FALSE
  /\ UNCHANGED <<traffic, last, buffers, accepted, block, valid, pos, published>>

Done == accepted = traffic.packets /\ block = Blocks /\ UNCHANGED vars

Next == BeginPacket \/ Block \/ Restart \/ Done

Spec == Init /\ [][Next]_vars

-----------------------------------------------------------------------------
Points == [packet : 1 .. accepted, block : 0 .. Blocks - 1, ring : Rings, turn : Int]

\* A bag that has each of its points once.
OncePoints(b) == b = SetToBag(DOMAIN b) /\ DOMAIN b \subseteq Points

\* Pending points: calculated and not yet handed over.
Pending == FramePoints

\* The index is the number of points that PointCloud holds; every list holds its
\* laser's points; and no point is there twice.
TypeOK ==
  /\ traffic \in Traffics
  /\ last \in 0 .. Circle - 1
  /\ buffers.index \in Nat
  /\ OncePoints(buffers.cloud) /\ DOMAIN buffers.list = Rings
  /\ \A r \in Rings : /\ OncePoints(buffers.list[r])
                      /\ \A p \in DOMAIN buffers.list[r] : p.ring = r
  /\ ~structured => buffers.index = Cardinality(DOMAIN buffers.cloud)
  /\ scan \in Seq(1 .. accepted)
  /\ frameId \in BOOLEAN
  /\ accepted \in 0 .. traffic.packets /\ block \in 0 .. Blocks
  /\ valid \in SUBSET Rings
  /\ pos \in Nat /\ restarts \in 0 .. traffic.restarts
  /\ \A i \in DOMAIN published : /\ published[i].scan \in Seq(0 .. accepted)
                                 /\ OncePoints(published[i].points)
                                 /\ published[i].frameId \in BOOLEAN

-----------------------------------------------------------------------------
(* The stream of frames: scans without the correction at their end.          *)

PublishedFrames ==
  [i \in DOMAIN published |->
     [points |-> published[i].points, scan |-> Front(published[i].scan)]]

Stream == INSTANCE FrameStream
            WITH emptyToo <- structured /\ traffic.qt, number <- accepted, turn <- Turn(pos),
                 pending <- Pending, raw <- scan, frames <- PublishedFrames

\* Whatever the azimuths do, across a stop and restart and with either layout of
\* the buffers, every valid return of every accepted packet is in exactly one frame
\* or waits for the next, every packet is in exactly one raw scan until a restart
\* drops the scan under way, and no frame is empty, whose first point
\* EmitBackMessege reads for the timestamp: save for the structured QT, whose index
\* is never reset.
ImplementsStream == Stream!StreamSpec

-----------------------------------------------------------------------------
\* The raw packets in the first i scans.
RawUpTo(i) ==
  Cardinality({p \in 1 .. accepted : \E j \in 1 .. i : p \in Range(published[j].scan)})

\* The packets of a frame's points are in its own raw scan, save for the one the
\* frame before ended in, which closed an earlier scan; until a restart.
ScanCoversFrame ==
  restarts = 0 =>
    \A i \in 1 .. Len(published) :
      \A p \in DOMAIN published[i].points :
        RawUpTo(i - 1) <= p.packet /\ p.packet <= RawUpTo(i)

\* No loss, no restart, no step over start_angle_ and the azimuth 0 at once, and a
\* return of laser 0 in every packet when there is one list for each laser.
Steady ==
  /\ traffic.steps \subseteq 0 .. Gap - 1 /\ traffic.restarts = 0
  /\ StartAngle = 0 \/ \A step \in traffic.steps : StartAngle + step <= Circle
  /\ structured => \A v \in traffic.valid : 0 \in v

\* A lidar that turns, without gaps of six degrees, gets one frame for each turn
\* past start_angle_, and the buffers hold nothing but the turn under way.
FramesAreTurns ==
  Steady =>
    /\ \A i \in 1 .. Len(published) :
         /\ \A p, q \in DOMAIN published[i].points : p.turn = q.turn
         /\ i > 1 => \A p \in DOMAIN published[i - 1].points :
                       \A q \in DOMAIN published[i].points : p.turn < q.turn
    /\ \A p \in DOMAIN Pending : p.turn = Turn(pos)

\* However many packets are lost between two blocks, and whether or not the
\* driver is stopped and started in between, no turn is cut in two: a frame ends
\* only when the azimuth has passed start_angle_, or has stepped back.  A step of
\* less than six degrees past start_angle_ ends it, but for one that passes the
\* azimuth 0 as well.
TurnEnds ==
  [][/\ published' # published => Turn(pos') > Turn(pos) \/ pos' < pos
     /\ HasPoints /\ pos' - pos \in 0 .. Gap - 1 /\ Turn(pos') > Turn(pos) =>
          (published' # published <=> pos' % Circle >= StartAngle)]_vars

\* outMsg gets its frame_id at the end of a thread's first packet: a frame without
\* one has no more than that packet in its raw scan, and a thread that has finished
\* a packet labels all its frames.
LabelledAfterFirst ==
  /\ \A i \in 1 .. Len(published) :
       published[i].frameId \/ Len(published[i].scan) <= 2
  /\ restarts = 0 =>
       \A i \in 1 .. Len(published) :
         published[i].frameId \/ Range(published[i].scan) \subseteq {Correction, 1}

\* Every step of the azimuth over start_angle_ publishes the frame under way.
StepOverStartPublishes ==
  [][Turn(pos') # Turn(pos) /\ Pending # EmptyBag => published' # published]_vars

=============================================================================
