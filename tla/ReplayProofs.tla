----------------------------- MODULE ReplayProofs -----------------------------
(***************************************************************************)
(* Proofs about the replay of a rosbag or a capture, for every number of   *)
(* scans, packets in a scan, depth of the subscription, and for every      *)
(* capture.                                                                *)
(***************************************************************************)
EXTENDS Replay, SequenceTheorems, FiniteSetTheorems, TLAPS

-----------------------------------------------------------------------------
(* The pauses of the reader.                                                 *)

\* As long as every pause came from the time of a packet, last_time is when the
\* last checkpoint was due, last_pkt_ts its time, and the reader reads on only
\* when the clock is there.
ReaderInv ==
  /\ ReaderType
  /\ {due.time, due.offset} \subseteq Int /\ due.set \in BOOLEAN
  /\ ~due.set => lastPkt = 0
  /\ due.set /\ ~astray =>
       /\ lastPkt # 0 /\ lastTime = due.time /\ due.time = lastPkt + due.offset
       /\ reader = "pause" => wake = due.time
       /\ reader = "next" => now >= due.time
  /\ due = [time |-> due.time, offset |-> due.offset, set |-> due.set]
  /\ reader = "pause" => due.set

Datagrams == [kind : {"lidar", "short", "long"}, time : Nat \ {0}]

LEMMA ReaderParams ==
  ASSUME capture \in Captures \cup {<<>>}
  PROVE  /\ capture \in Seq(Datagrams) /\ GapCount \in Nat \ {0} /\ Garbage \subseteq Int
         /\ Counts \subseteq Int /\ MaxNow \in Nat /\ Len(capture) \in Nat
<1>1. <<>> \in Seq(Datagrams)
  OBVIOUS
<1>2. capture \in Seq(Datagrams)
  BY <1>1, CaptureAssumption DEF CaptureAssumption, Datagrams
<1>. QED
  BY <1>2, CaptureAssumption DEF CaptureAssumption

LEMMA ReaderInitHolds ==
  ASSUME NEW works, ReaderInit(works)
  PROVE  ReaderInv
<1>. USE DEF ReaderInit
<1>1. due.time = 0 /\ due.offset = 0 /\ due.set = FALSE /\ due = NoDue
  BY DEF NoDue
<1>2. ReaderType
  <2>1. capture \in Captures \cup {<<>>} /\ now = 0 /\ read = 0 /\ astray = FALSE
        /\ indexed \in BOOLEAN
    OBVIOUS
  <2>2. now \in 0 .. MaxNow /\ read \in 0 .. Len(capture)
    BY <2>1, ReaderParams
  <2>3. stamp \in Int /\ count \in Int /\ lastPkt \in Int /\ lastTime \in Int /\ wake \in Int
    BY <2>1, ReaderParams
  <2>4. reader \in {"next", "pace", "pause", "ended"} /\ astray \in BOOLEAN
    BY <2>1
  <2>. QED
    BY <2>1, <2>2, <2>3, <2>4 DEF ReaderType
<1>3. reader # "pause" /\ lastPkt = 0
  OBVIOUS
<1>. QED
  BY <1>1, <1>2, <1>3 DEF ReaderInv, NoDue

LEMMA TickKeeps ==
  ASSUME ReaderInv, Tick
  PROVE  ReaderInv'
<1>1. now' = now + 1 /\ now' \in 0 .. MaxNow /\ now \in Nat
  BY ReaderParams DEF Tick, ReaderInv, ReaderType
<1>2. UNCHANGED <<capture, indexed, reader, read, stamp, count, lastPkt, lastTime, wake, due, astray>>
  BY DEF Tick
<1>3. ReaderType'
  BY <1>1, <1>2 DEF ReaderInv, ReaderType
<1>. QED
  BY <1>1, <1>2, <1>3 DEF ReaderInv

LEMMA NextKeeps ==
  ASSUME ReaderInv, NextPacket
  PROVE  ReaderInv'
<1>1. /\ reader = "next" /\ read < Len(capture) /\ read' = read + 1
      /\ UNCHANGED <<now, capture, indexed, lastPkt, lastTime, wake, due, astray>>
  BY DEF NextPacket
<1>2. capture \in Seq(Datagrams) /\ Garbage \subseteq Int /\ read \in Nat /\ count \in Int
      /\ stamp \in Int /\ Len(capture) \in Nat
  BY ReaderParams DEF ReaderInv, ReaderType
<1>3. Datagram \in Datagrams
  BY <1>1, <1>2 DEF Datagram
<1>4. stamp' \in Int
  <2>1. CASE Datagram.kind = "lidar"
    BY <1>3, <2>1 DEF NextPacket, Datagrams
  <2>2. CASE Datagram.kind = "short"
    BY <1>2, <2>2 DEF NextPacket
  <2>3. CASE Datagram.kind = "long"
    BY <1>2, <2>3 DEF NextPacket
  <2>. QED
    BY <1>3, <2>1, <2>2, <2>3 DEF Datagrams
<1>5. count' \in Int /\ reader' \in {"next", "pace"}
  BY <1>2 DEF NextPacket
<1>6. ReaderType'
  BY <1>1, <1>2, <1>4, <1>5 DEF ReaderInv, ReaderType
<1>. QED
  BY <1>1, <1>5, <1>6 DEF ReaderInv

LEMMA EndKeeps ==
  ASSUME ReaderInv, EndOfFile
  PROVE  ReaderInv'
<1>1. reader' = "ended"
      /\ UNCHANGED <<now, capture, indexed, read, stamp, count, lastPkt, lastTime, wake, due, astray>>
  BY DEF EndOfFile
<1>2. ReaderType'
  BY <1>1 DEF ReaderInv, ReaderType
<1>. QED
  BY <1>1, <1>2 DEF ReaderInv

LEMMA PauseKeeps ==
  ASSUME ReaderInv, PauseEnds
  PROVE  ReaderInv'
<1>1. /\ reader = "pause" /\ now >= wake /\ reader' = "next"
      /\ UNCHANGED <<now, capture, indexed, read, stamp, count, lastPkt, lastTime, wake, due, astray>>
  BY DEF PauseEnds
<1>2. ReaderType'
  BY <1>1 DEF ReaderInv, ReaderType
<1>. QED
  BY <1>1, <1>2 DEF ReaderInv

\* A checkpoint of an honest time is due when its time says, on the clock set by
\* the first.
LEMMA PaceKeeps ==
  ASSUME ReaderInv, Pace
  PROVE  ReaderInv'
<1>1. /\ {stamp, lastPkt, lastTime, wake, now, due.time, due.offset} \subseteq Int
      /\ due.set \in BOOLEAN /\ astray \in BOOLEAN
  BY ReaderParams DEF ReaderInv, ReaderType
<1>2. /\ lastPkt' = stamp /\ astray' = (astray \/ ~Honest)
      /\ UNCHANGED <<now, capture, indexed, read, stamp, count>>
      /\ lastPkt = 0 => lastTime' = now /\ reader' = "next" /\ wake' = wake
      /\ lastPkt # 0 => /\ lastTime' = now + SleepTime /\ wake' = now + SleepTime
                        /\ reader' = (IF SleepTime > 0 THEN "pause" ELSE "next")
  BY DEF Pace, TimeAfter
<1>3. due' = IF due.set THEN [due EXCEPT !.time = stamp + due.offset]
                        ELSE [time |-> now, offset |-> now - stamp, set |-> TRUE]
  BY DEF Pace
<1>4. /\ due'.time = (IF due.set THEN stamp + due.offset ELSE now) /\ due'.set = TRUE
      /\ due'.offset = (IF due.set THEN due.offset ELSE now - stamp)
      /\ due' = [time |-> due'.time, offset |-> due'.offset, set |-> due'.set]
  <2>1. due = [time |-> due.time, offset |-> due.offset, set |-> due.set]
    BY DEF ReaderInv
  <2>. DEFINE t == due.time
              o == due.offset
              s == due.set
  <2>2. s => due' = [time |-> stamp + o, offset |-> o, set |-> s]
    <3>. HIDE DEF t, o, s
    <3>1. due = [time |-> t, offset |-> o, set |-> s]
      BY <2>1 DEF t, o, s
    <3>2. s => due' = [due EXCEPT !.time = stamp + o]
      BY <1>3 DEF o, s
    <3>. QED
      BY <3>1, <3>2
  <2>. HIDE DEF o
  <2>. QED
    BY <1>1, <1>3, <2>2 DEF o
<1>5. SleepTime = (stamp - lastPkt) - (now - lastTime) /\ SleepTime \in Int
  BY <1>1 DEF SleepTime
<1>6. ~astray' => stamp # 0 /\ ~astray
  <2>1. ~astray' => Honest /\ ~astray
    BY <1>2, Zenon
  <2>2. ASSUME NEW i \in 1 .. read, capture[i].kind = "lidar", stamp = capture[i].time
        PROVE  stamp # 0
    <3>1. capture \in Seq(Datagrams) /\ i \in 1 .. Len(capture)
      BY <2>2, ReaderParams DEF ReaderInv, ReaderType
    <3>2. capture[i] \in Datagrams
      BY <3>1
    <3>. QED
      BY <2>2, <3>2 DEF Datagrams
  <2>. QED
    BY <2>1, <2>2 DEF Honest
<1>7. ReaderType'
  <2>1. lastTime' \in Int /\ wake' \in Int /\ lastPkt' \in Int
    BY <1>1, <1>2, <1>5
  <2>2. reader' \in {"next", "pause"}
    BY <1>2
  <2>3. astray' \in BOOLEAN
    BY <1>2
  <2>. QED
    BY <1>2, <2>1, <2>2, <2>3 DEF ReaderInv, ReaderType
<1>8. {due'.time, due'.offset} \subseteq Int
  BY <1>1, <1>4
<1>9. ASSUME ~astray'
      PROVE  /\ lastPkt' # 0 /\ lastTime' = due'.time /\ due'.time = lastPkt' + due'.offset
             /\ reader' = "pause" => wake' = due'.time
             /\ reader' = "next" => now' >= due'.time
  <2>1. CASE due.set
    <3>1. lastPkt # 0 /\ lastTime = due.time /\ due.time = lastPkt + due.offset
      BY <1>6, <1>9, <2>1 DEF ReaderInv
    <3>2. due'.time = stamp + due.offset /\ due'.offset = due.offset
      BY <1>4, <2>1
    <3>3. now + SleepTime = stamp + due.offset
      BY <1>1, <1>5, <3>1
    <3>. QED
      BY <1>1, <1>2, <1>5, <1>6, <1>9, <3>1, <3>2, <3>3
  <2>2. CASE ~due.set
    <3>1. lastPkt = 0
      BY <2>2 DEF ReaderInv
    <3>2. due'.time = now /\ due'.offset = now - stamp
      BY <1>4, <2>2
    <3>. QED
      BY <1>1, <1>2, <1>6, <1>9, <3>1, <3>2
  <2>. QED
    BY <2>1, <2>2
<1>. QED
  BY <1>4, <1>7, <1>8, <1>9 DEF ReaderInv

\* What the actions of the node do to the reader.
LEMMA ReaderStep ==
  ASSUME [Next]_vars
  PROVE  NextPacket \/ EndOfFile \/ Pace \/ PauseEnds \/ Tick \/ UNCHANGED readerVars
BY DEF Next, Play, ScanCallback, PushPacket, LoadFromScan, ReadCapture, Pacing, Clock, FinishPush,
       Take, Process, vars

LEMMA ReaderInductive == Spec => []ReaderInv
<1>1. Init => ReaderInv
  BY ReaderInitHolds DEF Init
<1>2. ReaderInv /\ [Next]_vars => ReaderInv'
  <2>. SUFFICES ASSUME ReaderInv, [Next]_vars PROVE ReaderInv'
    OBVIOUS
  <2>1. CASE UNCHANGED readerVars
    <3>1. ReaderType'
      BY <2>1 DEF readerVars, ReaderInv, ReaderType
    <3>. QED
      BY <2>1, <3>1 DEF readerVars, ReaderInv
  <2>. QED
    BY <2>1, ReaderStep, NextKeeps, EndKeeps, PaceKeeps, PauseKeeps, TickKeeps
<1>. QED
  BY <1>1, <1>2, PTL DEF Spec

\* However late the reader is now and then, no datagram is handed over before the
\* last checkpoint was due since the first, and no pause goes beyond.
THEOREM OnScheduleHolds == Spec => OnSchedule
<1>1. ReaderInv => (reader = "pause" /\ ~astray => wake = due.time)
  BY DEF ReaderInv
<1>2. ReaderInv /\ [Next]_vars => [read' # read /\ due.set /\ ~astray => now >= due.time]_vars
  <2>. SUFFICES ASSUME ReaderInv, [Next]_vars, read' # read, due.set, ~astray
                PROVE  now >= due.time
    OBVIOUS
  <2>1. NextPacket
    BY ReaderStep DEF EndOfFile, Pace, PauseEnds, Tick, readerVars
  <2>. QED
    BY <2>1 DEF NextPacket, ReaderInv
<1>. QED
  BY <1>1, <1>2, ReaderInductive, PTL DEF Spec, OnSchedule

-----------------------------------------------------------------------------
(* The ring.                                                                 *)

RingP == INSTANCE PacketsBufferProofs

LEMMA SameProducer == Ring!Producer <=> RingP!Producer
BY DEF Ring!Producer, RingP!Producer, Ring!PushFirst, RingP!PushFirst, Ring!Arrival, RingP!Arrival,
   Ring!Lag, RingP!Lag, Ring!PushAdvance, RingP!PushAdvance, Ring!FinishPush, RingP!FinishPush,
   Ring!PushOutOfRange, RingP!PushOutOfRange, Ring!StoreFirst, RingP!StoreFirst,
   Ring!PushRefuse, RingP!PushRefuse, Ring!PushAccept, RingP!PushAccept,
   Ring!PushWrap, RingP!PushWrap, Ring!PushStore, RingP!PushStore, Ring!Slots, RingP!Slots,
   Ring!consumerVars, RingP!consumerVars

LEMMA SameConsumer == Ring!Consumer <=> RingP!Consumer
BY DEF Ring!Consumer, RingP!Consumer, Ring!PollDirect, RingP!PollDirect,
   Ring!PollWrapped, RingP!PollWrapped, Ring!Reach, RingP!Reach, Ring!Reaching, RingP!Reaching,
   Ring!Lag, RingP!Lag, Ring!FinishTake, RingP!FinishTake, Ring!Read, RingP!Read,
   Ring!MoveIterCalc, RingP!MoveIterCalc, Ring!WrapIterCalc, RingP!WrapIterCalc,
   Ring!producerVars, RingP!producerVars

LEMMA DatagramIs ==
  ASSUME ReaderInv, NextPacket
  PROVE  /\ Datagram \in Datagrams /\ read \in Nat /\ Datagram = capture[read + 1]
         /\ read' = read + 1 /\ capture' = capture /\ reader = "next"
<1>1. capture \in Seq(Datagrams) /\ Len(capture) \in Nat /\ read \in Nat
  BY ReaderParams DEF ReaderInv, ReaderType
<1>2. read < Len(capture) /\ read' = read + 1 /\ capture' = capture /\ reader = "next"
  BY DEF NextPacket
<1>3. read + 1 \in 1 .. Len(capture)
  BY <1>1, <1>2
<1>. QED
  BY <1>1, <1>2, <1>3 DEF Datagram

LEMMA FillIs ==
  ASSUME ReaderInv, ReadCapture
  PROVE  \/ capture[read + 1].kind = "lidar" /\ Push(Captured(read + 1))
         \/ capture[read + 1].kind = "long" /\ Push(Foreign)
         \/ capture[read + 1].kind = "short" /\ UNCHANGED <<ringVars, pushed>>
<1>1. NextPacket /\ FillPacket
  BY DEF ReadCapture
<1>2. Datagram \in Datagrams /\ Datagram = capture[read + 1]
  BY <1>1, DatagramIs
<1>. QED
  BY <1>1, <1>2 DEF FillPacket, Datagrams

\* Every step of the node is one of the ring's or leaves the ring alone.
LEMMA RingStep ==
  ASSUME ReaderInv, [Next]_vars
  PROVE  Ring!Producer \/ Ring!Consumer \/ UNCHANGED ringVars
<1>1. CASE ReadCapture
  BY <1>1, FillIs DEF Push
<1>2. CASE PushPacket
  BY <1>2 DEF PushPacket, Push
<1>3. CASE FinishPush \/ Take
  BY <1>3 DEF FinishPush, Take
<1>4. CASE Play \/ ScanCallback \/ LoadFromScan
  BY <1>4 DEF Play, ScanCallback, LoadFromScan
<1>5. CASE Pacing \/ Clock \/ Process
  BY <1>5 DEF Pacing, Clock, Process
<1>6. CASE UNCHANGED vars
  BY <1>6 DEF vars
<1>. QED
  BY <1>1, <1>2, <1>3, <1>4, <1>5, <1>6 DEF Next

LEMMA RingRuns == Spec => RingP!Spec
<1>1. Init => RingP!Init
  BY DEF Init, Ring!Init, RingP!Init, Ring!Slots, RingP!Slots
<1>2. ReaderInv /\ [Next]_vars => [RingP!Next]_(RingP!vars)
  <2>. SUFFICES ASSUME ReaderInv, [Next]_vars PROVE [RingP!Next]_(RingP!vars)
    OBVIOUS
  <2>1. ASSUME UNCHANGED ringVars PROVE UNCHANGED RingP!vars
    BY <2>1 DEF ringVars, RingP!vars
  <2>2. ASSUME Ring!Producer PROVE RingP!Next
    BY <2>2, SameProducer DEF RingP!Next
  <2>3. ASSUME Ring!Consumer PROVE RingP!Next
    BY <2>3, SameConsumer DEF RingP!Next
  <2>. QED
    BY <2>1, <2>2, <2>3, RingStep
<1>. QED
  BY <1>1, <1>2, ReaderInductive, PTL DEF Spec, RingP!Spec

\* What the rest needs of it: the number taken last is one of a packet pushed, and
\* until the ring is exposed it is that of the packet taken last.
RingInv ==
  /\ Ring!TypeOK /\ got <= arrived
  /\ ~exposed => got = taken

LEMMA RingHolds == Spec => []RingInv
<1>1. RingP!Spec => []RingP!IInv
  BY RingAssumption, RingP!Inductive
     DEF RingAssumption, RingP!SizesAssumption, RingP!BoundsAssumption
<1>2. RingP!Spec => []RingP!WereHandedOver
  BY RingAssumption, RingP!HandedOver
     DEF RingAssumption, RingP!SizesAssumption, RingP!BoundsAssumption
<1>3. RingP!IInv /\ RingP!WereHandedOver => RingInv
  <2>. SUFFICES ASSUME RingP!IInv, RingP!WereHandedOver PROVE RingInv
    OBVIOUS
  <2>1. Ring!TypeOK
    BY DEF RingP!IInv, RingP!TypeOK, Ring!TypeOK, RingP!Slots, Ring!Slots, RingP!Packets,
           Ring!Packets
  <2>2. ~exposed => got = taken
    BY Zenon DEF RingP!IInv, RingP!Orderly
  <2>. QED
    BY <2>1, <2>2 DEF RingInv, RingP!WereHandedOver
<1>. QED
  BY <1>1, <1>2, <1>3, RingRuns, PTL

LEMMA RingTypes ==
  ASSUME RingInv
  PROVE  /\ arrived \in Nat /\ taken \in Nat /\ got \in 0 .. arrived /\ exposed \in BOOLEAN
         /\ cpc \in {"poll", "pollWrapped", "read", "move", "wrap"}
<1>1. MaxArrived \in Nat
  BY RingAssumption DEF RingAssumption
<1>. QED
  BY <1>1 DEF RingInv, Ring!TypeOK, Ring!Packets

LEMMA ExposedStays == ASSUME ReaderInv, [Next]_vars, exposed PROVE exposed'
<1>1. ASSUME Ring!Producer PROVE exposed'
  BY <1>1, Zenon DEF Ring!Producer, Ring!PushFirst, Ring!PushAdvance, Ring!Arrival
<1>2. ASSUME Ring!Consumer PROVE exposed'
  BY <1>2, Zenon DEF Ring!Consumer, Ring!PollDirect, Ring!PollWrapped, Ring!Reach
<1>3. ASSUME UNCHANGED ringVars PROVE exposed'
  BY <1>3 DEF ringVars
<1>. QED
  BY <1>1, <1>2, <1>3, RingStep

-----------------------------------------------------------------------------
(* The packets and the scans.                                                *)

Angles == {"default", "bag", "file"}
Lidars == [scan : Nat \ {0}, place : 1 .. PerScan]
Packets == [scan : Nat, place : -1 .. PerScan]

\* Packets of the lidar and at the end a correction: a scan of the bag, or one the
\* node made of what it took from the ring.
Recordings == {s \in Seq(Packets) : /\ s # <<>> /\ s[Len(s)].place = 0
                                    /\ \A m \in 1 .. Len(s) - 1 : s[m] \in Lidars}

\* What is left of scan k of the bag while it is pushed packet by packet.
Rest(s, k) ==
  /\ s \in Seq(Packets) /\ Len(s) <= PerScan + 1
  /\ \A m \in 1 .. Len(s) : s[m] = BagScan(k)[PerScan + 1 - Len(s) + m]

LEMMA Bag == /\ Scans \in Nat /\ PerScan \in Nat \ {0} /\ Depth \in Nat \ {0} /\ MaxTaken \in Nat
             /\ Republish \in BOOLEAN /\ FileExists \in BOOLEAN
  BY BagAssumption, RingAssumption DEF BagAssumption, RingAssumption

LEMMA LidarsAre == /\ Lidars \subseteq Packets
                   /\ \A p \in Lidars : p # Foreign /\ p.scan \in Nat \ {0} /\ p.place \in 1 .. PerScan
  BY Bag DEF Lidars, Packets, Foreign

LEMMA BagScanIs ==
  ASSUME NEW k \in Nat \ {0}
  PROVE  /\ BagScan(k) \in Seq(Packets) /\ Len(BagScan(k)) = PerScan + 1
         /\ BagScan(k) \in Recordings /\ Rest(BagScan(k), k)
         /\ BagScan(k)[1] = Packet(k, 1) /\ BagScan(k)[1].scan = k
<1>1. PerScan \in Nat \ {0}
  BY Bag
<1>2. /\ Packet(k, 0) \in Packets
      /\ \A n \in 1 .. PerScan : Packet(k, n) \in Packets /\ Packet(k, n) \in Lidars
  BY <1>1 DEF Packet, Packets, Lidars
<1>3. \A n \in 1 .. PerScan + 1 : BagScan(k)[n] = IF n > PerScan THEN Packet(k, 0) ELSE Packet(k, n)
  BY DEF BagScan
<1>4. BagScan(k) \in [1 .. PerScan + 1 -> Packets]
  <2>1. \A n \in 1 .. PerScan + 1 : BagScan(k)[n] \in Packets
    BY <1>1, <1>2, <1>3
  <2>. QED
    BY <2>1 DEF BagScan
<1>5. BagScan(k) \in Seq(Packets) /\ Len(BagScan(k)) = PerScan + 1
  BY <1>1, <1>4
<1>6. BagScan(k)[1] = Packet(k, 1) /\ BagScan(k)[1].scan = k
  BY <1>1, <1>3 DEF Packet
<1>7. Rest(BagScan(k), k)
  <2>1. \A m \in 1 .. PerScan + 1 : PerScan + 1 - (PerScan + 1) + m = m
    BY <1>1
  <2>. QED
    BY <1>1, <1>5, <2>1 DEF Rest
<1>8. BagScan(k) \in Recordings
  <2>1. BagScan(k)[PerScan + 1].place = 0
    <3>1. PerScan + 1 \in 1 .. PerScan + 1 /\ PerScan + 1 > PerScan
      BY <1>1
    <3>2. BagScan(k)[PerScan + 1] = Packet(k, 0)
      BY <1>3, <3>1
    <3>. QED
      BY <3>2 DEF Packet
  <2>2. \A m \in 1 .. PerScan : BagScan(k)[m] \in Lidars
    BY <1>1, <1>2, <1>3
  <2>3. BagScan(k) # <<>> /\ PerScan + 1 - 1 = PerScan
    BY <1>1, <1>5
  <2>. DEFINE s == BagScan(k)
  <2>4. s \in Seq(Packets) /\ Len(s) = PerScan + 1 /\ s # <<>> /\ s[PerScan + 1].place = 0
        /\ \A m \in 1 .. PerScan : s[m] \in Lidars
    BY <1>5, <2>1, <2>2, <2>3
  <2>. HIDE DEF s
  <2>5. s \in Recordings
    <3>1. Len(s) - 1 = PerScan
      BY <1>1, <2>4
    <3>. QED
      BY <2>4, <3>1 DEF Recordings
  <2>. QED
    BY <2>5 DEF s
<1>. QED
  BY <1>5, <1>6, <1>7, <1>8

\* The first packet of what is left of a recording.
LEMMA RecordingHead ==
  ASSUME NEW s \in Recordings
  PROVE  /\ Head(s) = s[1] /\ Len(s) \in Nat \ {0}
         /\ Head(s).place > 0 => Head(s) \in Lidars /\ Len(s) > 1 /\ Tail(s) \in Recordings
         /\ Head(s).place = 0 => Len(s) = 1 /\ Tail(s) = <<>>
<1>1. s \in Seq(Packets) /\ s # <<>> /\ s[Len(s)].place = 0
      /\ \A m \in 1 .. Len(s) - 1 : s[m] \in Lidars
  BY DEF Recordings
<1>. PICK l \in Nat \ {0} : l = Len(s)
  BY <1>1
<1>2. Head(s) = s[1]
  BY <1>1
<1>3. CASE l = 1
  <2>1. s[1].place = 0
    BY <1>1, <1>3
  <2>2. Tail(s) \in Seq(Packets) /\ Len(Tail(s)) = 0
    <3>1. Tail(s) \in Seq(Packets) /\ Len(Tail(s)) = Len(s) - 1
      BY <1>1, HeadTailProperties
    <3>. QED
      BY <1>3, <3>1
  <2>3. Tail(s) = <<>>
    BY <2>2, EmptySeq
  <2>. QED
    BY <1>2, <1>3, <2>1, <2>3
<1>4. CASE l > 1
  <2>1. s[1] \in Lidars /\ s[1].place > 0
    <3>1. 1 \in 1 .. l - 1
      BY <1>4
    <3>2. s[1] \in Lidars
      BY <1>1, <3>1
    <3>. QED
      BY <3>2, LidarsAre
  <2>2. /\ Tail(s) \in Seq(Packets) /\ Len(Tail(s)) = l - 1
        /\ \A m \in 1 .. l - 1 : Tail(s)[m] = s[m + 1]
    BY <1>1, <1>4
  <2>3. Tail(s) # <<>> /\ Tail(s)[l - 1] = s[l]
    <3>1. l - 1 \in 1 .. l - 1 /\ l - 1 + 1 = l
      BY <1>4
    <3>2. Tail(s)[l - 1] = s[l - 1 + 1]
      BY <2>2, <3>1
    <3>3. Len(Tail(s)) # 0
      BY <1>4, <2>2
    <3>4. Tail(s) # <<>>
      BY <3>3
    <3>. QED
      BY <3>1, <3>2, <3>4
  <2>4. \A m \in 1 .. l - 1 - 1 : m \in 1 .. l - 1 /\ m + 1 \in 1 .. l - 1
    BY <1>4
  <2>5. \A m \in 1 .. l - 1 - 1 : Tail(s)[m] \in Lidars
    BY <1>1, <2>2, <2>4
  <2>. DEFINE t == Tail(s)
  <2>6. t \in Seq(Packets) /\ t # <<>> /\ Len(t) = l - 1 /\ t[l - 1].place = 0
        /\ \A m \in 1 .. l - 1 - 1 : t[m] \in Lidars
    BY <1>1, <2>2, <2>3, <2>5
  <2>. HIDE DEF t
  <2>7. t \in Recordings
    BY <2>6 DEF Recordings
  <2>. QED
    BY <1>2, <1>4, <2>1, <2>7 DEF t
<1>. QED
  BY <1>3, <1>4

\* The first packet of what is left of scan k.
LEMMA HeadIs ==
  ASSUME NEW k \in Nat \ {0}, NEW s, Rest(s, k), s # <<>>
  PROVE  /\ Len(s) \in 1 .. PerScan + 1 /\ Head(s) = s[1]
         /\ Len(s) = 1 => Head(s) = Packet(k, 0)
         /\ Len(s) > 1 => /\ Head(s) = Packet(k, PerScan + 2 - Len(s))
                          /\ PerScan + 2 - Len(s) \in 1 .. PerScan
         /\ Head(s).place > 0 <=> Len(s) > 1
         /\ Rest(Tail(s), k) /\ Len(Tail(s)) = Len(s) - 1
<1>1. PerScan \in Nat \ {0}
  BY Bag
<1>2. s \in Seq(Packets) /\ Len(s) \in 1 .. PerScan + 1 /\ Head(s) = s[1]
  BY <1>1 DEF Rest
<1>. PICK l \in 1 .. PerScan + 1 : l = Len(s)
  BY <1>2
<1>3. s[1] = BagScan(k)[PerScan + 1 - l + 1] /\ PerScan + 1 - l + 1 \in 1 .. PerScan + 1
  BY <1>1, <1>2 DEF Rest
<1>4. l = 1 => s[1] = Packet(k, 0)
  <2>1. l = 1 => PerScan + 1 - l + 1 > PerScan
    BY <1>1
  <2>. QED
    BY <1>3, <2>1 DEF BagScan
<1>5. l > 1 => s[1] = Packet(k, PerScan + 2 - l) /\ PerScan + 2 - l \in 1 .. PerScan
  <2>1. PerScan + 1 - l + 1 = PerScan + 2 - l /\ (l > 1 => ~(PerScan + 2 - l > PerScan))
    BY <1>1
  <2>2. l > 1 => PerScan + 2 - l \in 1 .. PerScan
    BY <1>1
  <2>. QED
    BY <1>3, <2>1, <2>2 DEF BagScan
<1>6. s[1].place > 0 <=> l > 1
  BY <1>4, <1>5 DEF Packet
<1>7. Rest(Tail(s), k) /\ Len(Tail(s)) = l - 1
  <2>1. Tail(s) \in Seq(Packets) /\ Len(Tail(s)) = l - 1 /\ \A m \in 1 .. l - 1 : Tail(s)[m] = s[m + 1]
    BY <1>2
  <2>2. ASSUME NEW m \in 1 .. l - 1
        PROVE  s[m + 1] = BagScan(k)[PerScan + 1 - (l - 1) + m]
    <3>1. m + 1 \in 1 .. l /\ PerScan + 1 - l + (m + 1) = PerScan + 1 - (l - 1) + m
      BY <1>1
    <3>2. s[m + 1] = BagScan(k)[PerScan + 1 - l + (m + 1)]
      BY <3>1 DEF Rest
    <3>. QED
      BY <3>1, <3>2
  <2>. QED
    BY <1>1, <2>1, <2>2 DEF Rest
<1>. QED
  BY <1>2, <1>4, <1>5, <1>6, <1>7

\* The number of a capture's lidar packets.
LidarIn(n) == Cardinality({i \in 1 .. n : capture[i].kind = "lidar"})
\* The m-th of them.
Nth(m) == Packet(((m - 1) \div PerScan) + 1, ((m - 1) % PerScan) + 1)

LEMMA NthIs ==
  ASSUME NEW m \in Nat \ {0}
  PROVE  /\ Nth(m) \in Lidars
         /\ IF Nth(m).place = PerScan
              THEN Nth(m + 1).scan = Nth(m).scan + 1 /\ Nth(m + 1).place = 1
              ELSE Nth(m + 1).scan = Nth(m).scan /\ Nth(m + 1).place = Nth(m).place + 1
<1>. DEFINE P == PerScan
            x == m - 1
            d == x \div P
            r == x % P
<1>1. P \in Nat \ {0} /\ x \in Nat /\ m + 1 - 1 = x + 1
  BY Bag
<1>. HIDE DEF P, x
<1>2. x = P * d + r /\ r \in 0 .. P - 1 /\ d \in Int
  BY <1>1
<1>3. d >= 0
  <2>. HIDE DEF d, r
  <2>1. ~(d <= -1)
    BY <1>1, <1>2
  <2>. QED
    BY <1>2, <2>1
<1>4. IF r = P - 1 THEN (x + 1) % P = 0 /\ (x + 1) \div P = d + 1
                   ELSE (x + 1) % P = r + 1 /\ (x + 1) \div P = d
  <2>. HIDE DEF d, r
  <2>1. CASE r = P - 1
    <3>1. P * (d + 1) = P * d + P
      BY <1>1, <1>2
    <3>. DEFINE pd == P * d
                k == d + 1
    <3>2. pd \in Int /\ x = pd + r /\ P * k = pd + P
      BY <1>1, <1>2, <3>1
    <3>. HIDE DEF pd, k
    <3>3. x + 1 = P * k + 0 /\ k \in Int
      <4>1. x + 1 = pd + P
        BY <1>1, <1>2, <2>1, <3>2
      <4>2. k \in Int
        BY <1>2 DEF k
      <4>. QED
        BY <3>2, <4>1, <4>2
    <3>4. (x + 1) % P = 0 /\ (x + 1) \div P = k
      BY <1>1, <3>3
    <3>. QED
      BY <2>1, <3>4 DEF k
  <2>2. CASE r # P - 1
    <3>1. x + 1 = P * d + (r + 1) /\ r + 1 \in 0 .. P - 1
      BY <1>1, <1>2, <2>2
    <3>2. (x + 1) % P = r + 1 /\ (x + 1) \div P = d
      BY <1>1, <1>2, <3>1
    <3>. QED
      BY <2>2, <3>2
  <2>. QED
    BY <2>1, <2>2
<1>5. Nth(m) = Packet(d + 1, r + 1)
  BY DEF Nth, P, x
<1>6. Nth(m + 1) = Packet(((x + 1) \div P) + 1, ((x + 1) % P) + 1)
  BY <1>1 DEF Nth, P
<1>. HIDE DEF d, r
<1>7. Nth(m) \in Lidars
  <2>1. d + 1 \in Nat \ {0} /\ r + 1 \in 1 .. P
    BY <1>1, <1>2, <1>3
  <2>. QED
    BY <1>5, <2>1 DEF Packet, Lidars, P
<1>8. Nth(m).place = PerScan <=> r = P - 1
  BY <1>1, <1>2, <1>5 DEF Packet, P
<1>. QED
  BY <1>1, <1>2, <1>4, <1>5, <1>6, <1>7, <1>8 DEF Packet

LEMMA CountOne ==
  ASSUME NEW n \in Nat, NEW S \in SUBSET (1 .. n)
  PROVE  /\ IsFiniteSet(S) /\ Cardinality(S) \in Nat
         /\ Cardinality(S \cup {n + 1}) = Cardinality(S) + 1
<1>1. IsFiniteSet(1 .. n)
  BY FS_Interval
<1>2. IsFiniteSet(S)
  BY <1>1, FS_Subset
<1>3. n + 1 \notin S
  OBVIOUS
<1>. QED
  BY <1>2, <1>3, FS_AddElement, FS_CardinalityType

LEMMA LidarInStep ==
  ASSUME NEW n \in Nat
  PROVE  /\ LidarIn(n) \in Nat
         /\ LidarIn(n + 1) = LidarIn(n) + (IF capture[n + 1].kind = "lidar" THEN 1 ELSE 0)
<1>. DEFINE S == {i \in 1 .. n : capture[i].kind = "lidar"}
            T == {i \in 1 .. n + 1 : capture[i].kind = "lidar"}
<1>1. S \in SUBSET (1 .. n)
  OBVIOUS
<1>2. Cardinality(S) \in Nat /\ Cardinality(S \cup {n + 1}) = Cardinality(S) + 1
  BY <1>1, CountOne
<1>3. T = IF capture[n + 1].kind = "lidar" THEN S \cup {n + 1} ELSE S
  <2>1. 1 .. n + 1 = (1 .. n) \cup {n + 1}
    OBVIOUS
  <2>. QED
    BY <2>1
<1>. HIDE DEF S, T
<1>4. Cardinality(T) = Cardinality(S) + (IF capture[n + 1].kind = "lidar" THEN 1 ELSE 0)
  BY <1>2, <1>3
<1>. QED
  BY <1>2, <1>4 DEF LidarIn, S, T

LEMMA CapturedIs ==
  ASSUME NEW n \in Nat, capture[n + 1].kind = "lidar"
  PROVE  Captured(n + 1) = Nth(LidarIn(n + 1)) /\ Captured(n + 1) \in Lidars
<1>1. LidarIn(n + 1) \in Nat \ {0}
  <2>1. LidarIn(n) \in Nat /\ LidarIn(n + 1) = LidarIn(n) + 1
    BY LidarInStep, Zenon
  <2>. QED
    BY <2>1
<1>2. Captured(n + 1) = Nth(LidarIn(n + 1))
  BY DEF Captured, Nth, LidarIn
<1>. QED
  BY <1>1, <1>2, NthIs

-----------------------------------------------------------------------------
(* Every action keeps the types.                                             *)

NodeInv ==
  /\ source \in {"rosbag", "pcap"} /\ played \in 0 .. Scans /\ flag \in BOOLEAN /\ angles \in Angles
  /\ pushed \in Seq(Lidars \cup {Foreign}) /\ Len(pushed) = arrived
  /\ made \in Seq([packet : Lidars, angles : Angles]) /\ Len(made) <= done
  /\ pushed = <<>> => made = <<>>

\* What is taken is processed before the next poll.
DoneInv ==
  /\ done \in Nat /\ done \in {taken - 1, taken}
  /\ cpc \in {"pollWrapped", "read", "move"} => done = taken

\* Of a bag nothing is pushed but packets of the lidar.
BagInv ==
  /\ topic \in Seq(Recordings) /\ Len(topic) <= Depth
  /\ scan \in Recordings \cup {<<>>}
  /\ raw \in Seq(Lidars)
  /\ source = "pcap" => scan = <<>> /\ topic = <<>>
  /\ source = "rosbag" => reader = "ended" /\ pushed \in Seq(Lidars)

BasicInv == ReaderInv /\ RingInv /\ NodeInv /\ DoneInv /\ BagInv

LEMMA InitTypes == Init => NodeInv /\ DoneInv /\ BagInv
<1>. SUFFICES ASSUME Init PROVE NodeInv /\ DoneInv /\ BagInv
  OBVIOUS
<1>1. /\ source \in {"rosbag", "pcap"} /\ played = 0 /\ topic = <<>> /\ scan = <<>> /\ flag = FALSE
      /\ angles \in {"file", "default"} /\ pushed = <<>> /\ done = 0
      /\ arrived = 0 /\ taken = 0 /\ cpc = "poll"
      /\ raw = <<>> /\ made = <<>> /\ (source = "rosbag" => reader = "ended")
  BY DEF Init, Ring!Init, ReaderInit
<1>2. played \in 0 .. Scans
  BY <1>1, Bag
<1>3. angles \in Angles
  BY <1>1 DEF Angles
<1>4. flag \in BOOLEAN
  BY <1>1
<1>5. /\ made \in Seq([packet : Lidars, angles : Angles]) /\ Len(made) = 0 /\ Len(pushed) = 0
      /\ pushed \in Seq(Lidars \cup {Foreign}) /\ pushed \in Seq(Lidars)
  BY <1>1
<1>6. NodeInv
  BY <1>1, <1>2, <1>3, <1>4, <1>5 DEF NodeInv
<1>7. DoneInv
  BY <1>1 DEF DoneInv
<1>8. topic \in Seq(Recordings) /\ raw \in Seq(Lidars) /\ Len(topic) = 0
  BY <1>1
<1>9. BagInv
  BY <1>1, <1>5, <1>8, Bag DEF BagInv
<1>. QED
  BY <1>6, <1>7, <1>9

LEMMA KeptIs ==
  ASSUME topic \in Seq(Recordings), Len(topic) <= Depth, NEW s \in Recordings
  PROVE  /\ Kept(s) \in Seq(Recordings) /\ Len(Kept(s)) <= Depth /\ Len(Kept(s)) > 0
         /\ Kept(s)[Len(Kept(s))] = s
         /\ \E o \in {0, 1} : /\ \A i \in 1 .. Len(Kept(s)) - 1 : Kept(s)[i] = topic[i + o]
                              /\ Len(Kept(s)) - 1 + o = Len(topic)
<1>1. Depth \in Nat \ {0} /\ Len(topic) \in Nat
  BY Bag
<1>2. CASE Len(topic) < Depth
  <2>1. Kept(s) = Append(topic, s)
    BY <1>2 DEF Kept
  <2>2. /\ Append(topic, s) \in Seq(Recordings) /\ Len(Append(topic, s)) = Len(topic) + 1
        /\ Append(topic, s)[Len(topic) + 1] = s
        /\ \A i \in 1 .. Len(topic) : Append(topic, s)[i] = topic[i + 0]
    OBVIOUS
  <2>. QED
    BY <1>1, <1>2, <2>1, <2>2
<1>3. CASE ~(Len(topic) < Depth)
  <2>. DEFINE t == Tail(topic)
  <2>1. /\ t \in Seq(Recordings) /\ Len(t) = Len(topic) - 1 /\ \A i \in 1 .. Len(t) : t[i] = topic[i + 1]
        /\ Len(t) \in Nat
    BY <1>1, <1>3
  <2>2. Kept(s) = Append(t, s)
    BY <1>3 DEF Kept
  <2>. HIDE DEF t
  <2>3. /\ Append(t, s) \in Seq(Recordings) /\ Len(Append(t, s)) = Len(t) + 1
        /\ Append(t, s)[Len(t) + 1] = s
        /\ \A i \in 1 .. Len(t) : Append(t, s)[i] = t[i]
    BY <2>1
  <2>. QED
    BY <1>1, <1>3, <2>1, <2>2, <2>3
<1>. QED
  BY <1>2, <1>3

\* What a push does to the rest.
LEMMA PushIs ==
  ASSUME BasicInv, NEW p \in Lidars \cup {Foreign}, Push(p)
  PROVE  /\ UNCHANGED <<taken, got, cpc>> /\ arrived' = arrived + 1 /\ pushed' = Append(pushed, p)
         /\ pushed' \in Seq(Lidars \cup {Foreign}) /\ Len(pushed') = Len(pushed) + 1
         /\ pushed' # <<>> /\ pushed'[Len(pushed) + 1] = p /\ Len(pushed) \in Nat
         /\ \A i \in 1 .. Len(pushed) : pushed'[i] = pushed[i]
<1>1. UNCHANGED <<taken, got, cpc>> /\ arrived' = arrived + 1 /\ pushed' = Append(pushed, p)
  BY DEF Push, Ring!Producer, Ring!consumerVars, Ring!PushFirst, Ring!PushAdvance, Ring!Arrival,
         Ring!FinishPush, Ring!StoreFirst, Ring!PushRefuse, Ring!PushAccept, Ring!PushWrap,
         Ring!PushStore, Ring!PushOutOfRange
<1>2. pushed \in Seq(Lidars \cup {Foreign})
  BY DEF BasicInv, NodeInv
<1>3. /\ pushed' \in Seq(Lidars \cup {Foreign}) /\ Len(pushed') = Len(pushed) + 1
      /\ pushed'[Len(pushed) + 1] = p /\ \A i \in 1 .. Len(pushed) : pushed'[i] = pushed[i]
      /\ Len(pushed) \in Nat
  BY <1>1, <1>2
<1>4. pushed' # <<>>
  BY <1>2, <1>3
<1>. QED
  BY <1>1, <1>3, <1>4

LEMMA FinishIs ==
  ASSUME FinishPush
  PROVE  /\ UNCHANGED <<taken, got, cpc, arrived>>
         /\ UNCHANGED <<source, bagVars, pushed, madeVars, readerVars>>
BY DEF FinishPush, Ring!Producer, Ring!consumerVars, Ring!PushFirst, Ring!PushAdvance, Ring!Arrival,
       Ring!FinishPush, Ring!StoreFirst, Ring!PushRefuse, Ring!PushAccept, Ring!PushWrap,
       Ring!PushStore, Ring!PushOutOfRange

\* What the process thread does to the ring.
LEMMA TakeIs ==
  ASSUME BasicInv, Take
  PROVE  /\ DoneInv' /\ arrived' = arrived
         /\ UNCHANGED <<source, bagVars, pushed, madeVars, readerVars>>
<1>1. /\ cpc = "poll" => done = taken
      /\ UNCHANGED <<source, bagVars, pushed, madeVars, readerVars>> /\ done' = done
  BY DEF Take, madeVars
<1>2. arrived' = arrived
  BY DEF Take, Ring!Consumer, Ring!producerVars
<1>3. /\ done \in Nat /\ done \in {taken - 1, taken} /\ taken \in Nat
      /\ cpc \in {"pollWrapped", "read", "move"} => done = taken
      /\ cpc \in {"poll", "pollWrapped", "read", "move", "wrap"}
  BY RingTypes DEF BasicInv, DoneInv
<1>4. CASE cpc = "move"
  <2>1. taken' = taken + 1 /\ cpc' \in {"wrap", "poll"} /\ done = taken
    BY <1>3, <1>4 DEF Take, Ring!Consumer, Ring!PollDirect, Ring!PollWrapped, Ring!FinishTake,
                      Ring!Read, Ring!MoveIterCalc, Ring!WrapIterCalc
  <2>. QED
    BY <1>1, <1>2, <1>3, <2>1 DEF DoneInv
<1>5. CASE cpc # "move"
  <2>1. taken' = taken /\ (cpc' = "poll" \/ done = taken)
    BY <1>1, <1>3, <1>5 DEF Take, Ring!Consumer, Ring!PollDirect, Ring!PollWrapped, Ring!Reach,
                     Ring!FinishTake, Ring!Read, Ring!MoveIterCalc, Ring!WrapIterCalc
  <2>. QED
    BY <1>1, <1>2, <1>3, <2>1 DEF DoneInv
<1>. QED
  BY <1>1, <1>2, <1>4, <1>5

LEMMA DoneStays ==
  ASSUME DoneInv, UNCHANGED <<done, taken, cpc>>
  PROVE  DoneInv'
  BY DEF DoneInv

LEMMA PlayTypes ==
  ASSUME BasicInv, Play
  PROVE  NodeInv' /\ DoneInv' /\ BagInv'
<1>1. /\ source = "rosbag" /\ played < Scans /\ played' = played + 1
      /\ topic' = Kept(BagScan(played + 1))
      /\ UNCHANGED <<source, scan, flag, angles, ringVars, pushed, madeVars, readerVars>>
  BY DEF Play
<1>2. played' \in 0 .. Scans /\ played + 1 \in Nat \ {0}
  BY <1>1, Bag DEF BasicInv, NodeInv
<1>3. UNCHANGED <<source, scan, flag, angles, pushed, raw, made, done, taken, cpc, arrived, reader>>
  BY <1>1 DEF ringVars, madeVars, readerVars
<1>4. NodeInv'
  BY <1>2, <1>3 DEF BasicInv, NodeInv
<1>5. topic' \in Seq(Recordings) /\ Len(topic') <= Depth
  <2>. DEFINE s == BagScan(played + 1)
  <2>1. topic \in Seq(Recordings) /\ Len(topic) <= Depth /\ s \in Recordings /\ topic' = Kept(s)
    BY <1>1, <1>2, BagScanIs DEF BasicInv, BagInv
  <2>. HIDE DEF s
  <2>. QED
    BY <2>1, KeptIs
<1>6. BagInv'
  BY <1>1, <1>3, <1>5 DEF BasicInv, BagInv
<1>. QED
  BY <1>3, <1>4, <1>6, DoneStays DEF BasicInv

LEMMA CallbackTypes ==
  ASSUME BasicInv, ScanCallback
  PROVE  NodeInv' /\ DoneInv' /\ BagInv'
<1>1. /\ scan = <<>> /\ topic # <<>> /\ scan' = Head(topic) /\ topic' = Tail(topic)
      /\ UNCHANGED <<source, played, flag, angles, ringVars, pushed, madeVars, readerVars>>
  BY DEF ScanCallback
<1>2. UNCHANGED <<source, played, flag, angles, pushed, raw, made, done, taken, cpc, arrived, reader>>
  BY <1>1 DEF ringVars, madeVars, readerVars
<1>3. NodeInv'
  BY <1>2 DEF BasicInv, NodeInv
<1>4. /\ topic \in Seq(Recordings) /\ Len(topic) <= Depth /\ Len(topic) \in Nat \ {0}
      /\ source = "rosbag"
  BY <1>1 DEF BasicInv, BagInv, NodeInv
<1>5. topic' \in Seq(Recordings) /\ Len(topic') = Len(topic) - 1 /\ scan' \in Recordings
  BY <1>1, <1>4
<1>6. Len(topic') <= Depth
  BY <1>4, <1>5, Bag
<1>7. BagInv'
  BY <1>2, <1>4, <1>5, <1>6 DEF BasicInv, BagInv
<1>. QED
  BY <1>2, <1>3, <1>7, DoneStays DEF BasicInv

LEMMA PushNode ==
  ASSUME BasicInv, NEW p \in Lidars \cup {Foreign}, Push(p),
         UNCHANGED <<source, played, flag, angles, madeVars>>
  PROVE  NodeInv' /\ DoneInv'
<1>1. /\ UNCHANGED <<taken, cpc>> /\ arrived' = arrived + 1
      /\ pushed' \in Seq(Lidars \cup {Foreign}) /\ Len(pushed') = Len(pushed) + 1 /\ pushed' # <<>>
  BY PushIs
<1>2. UNCHANGED <<source, played, flag, angles, made, done>>
  BY DEF madeVars
<1>3. NodeInv'
  BY <1>1, <1>2 DEF BasicInv, NodeInv
<1>. QED
  BY <1>1, <1>2, <1>3, DoneStays DEF BasicInv

LEMMA PushTypes ==
  ASSUME BasicInv, PushPacket
  PROVE  /\ NodeInv' /\ DoneInv' /\ BagInv'
         /\ Head(scan) \in Lidars /\ source = "rosbag"
<1>1. /\ scan # <<>> /\ Head(scan).place > 0 /\ Push(Head(scan)) /\ scan' = Tail(scan)
      /\ UNCHANGED <<source, played, topic, flag, angles, madeVars, readerVars>>
  BY DEF PushPacket
<1>2. source = "rosbag" /\ scan \in Recordings /\ pushed \in Seq(Lidars)
  BY <1>1 DEF BasicInv, BagInv, NodeInv
<1>3. Head(scan) \in Lidars /\ scan' \in Recordings
  BY <1>1, <1>2, RecordingHead
<1>4. NodeInv' /\ DoneInv'
  BY <1>1, <1>3, PushNode
<1>5. pushed' \in Seq(Lidars)
  <2>1. pushed' = Append(pushed, Head(scan))
    BY <1>1 DEF Push
  <2>. QED
    BY <1>2, <1>3, <2>1
<1>6. BagInv'
  BY <1>1, <1>2, <1>3, <1>5 DEF BasicInv, BagInv, madeVars, readerVars
<1>. QED
  BY <1>2, <1>3, <1>4, <1>6

LEMMA LoadTypes ==
  ASSUME BasicInv, LoadFromScan
  PROVE  /\ NodeInv' /\ DoneInv' /\ BagInv'
         /\ source = "rosbag" /\ Len(scan) = 1 /\ scan' = <<>>
<1>1. /\ scan # <<>> /\ Head(scan).place = 0 /\ scan' = Tail(scan)
      /\ UNCHANGED <<source, played, topic, ringVars, pushed, madeVars, readerVars>>
  BY DEF LoadFromScan
<1>2. angles' \in Angles /\ flag' \in BOOLEAN
  <2>1. angles \in Angles /\ flag \in BOOLEAN
    BY DEF BasicInv, NodeInv
  <2>2. CASE flag
    BY <2>1, <2>2 DEF LoadFromScan
  <2>3. CASE ~flag
    <3>1. flag' = TRUE
      BY <2>3 DEF LoadFromScan, FlagAfter
    <3>2. angles' = CASE Head(scan).scan \notin Broken -> "bag"
                      [] ~(Head(scan).scan \notin Broken) /\ FileExists -> "file"
                      [] OTHER -> angles
      BY <2>3 DEF LoadFromScan
    <3>3. angles' \in Angles
      BY <2>1, <3>2 DEF Angles
    <3>. QED
      BY <3>1, <3>3
  <2>. QED
    BY <2>2, <2>3
<1>3. UNCHANGED <<source, played, topic, pushed, raw, made, done, taken, cpc, arrived, reader>>
  BY <1>1 DEF ringVars, madeVars, readerVars
<1>4. NodeInv'
  BY <1>2, <1>3 DEF BasicInv, NodeInv
<1>5. source = "rosbag" /\ scan \in Recordings
  BY <1>1 DEF BasicInv, BagInv, NodeInv
<1>6. Len(scan) = 1 /\ scan' = <<>>
  BY <1>1, <1>5, RecordingHead
<1>7. BagInv'
  BY <1>3, <1>5, <1>6 DEF BasicInv, BagInv
<1>. QED
  BY <1>3, <1>4, <1>5, <1>6, <1>7, DoneStays DEF BasicInv

\* A capture's datagrams go no further than the ring.
LEMMA CaptureTypes ==
  ASSUME BasicInv, ReadCapture
  PROVE  /\ NodeInv' /\ DoneInv' /\ BagInv' /\ source = "pcap"
         /\ UNCHANGED <<source, bagVars, madeVars>>
<1>1. NextPacket /\ UNCHANGED <<source, bagVars, madeVars>>
  BY DEF ReadCapture
<1>2. reader = "next" /\ read \in Nat
  BY <1>1, DatagramIs DEF BasicInv
<1>3. source = "pcap"
  BY <1>2 DEF BasicInv, BagInv, NodeInv
<1>4. UNCHANGED <<source, played, topic, scan, flag, angles, raw, made, done>>
  BY <1>1 DEF bagVars, madeVars
<1>5. ASSUME NEW p \in Lidars \cup {Foreign}, Push(p)
      PROVE  NodeInv' /\ DoneInv'
  BY <1>1, <1>4, <1>5, PushNode
<1>6. NodeInv' /\ DoneInv'
  <2>1. CASE capture[read + 1].kind = "lidar" /\ Push(Captured(read + 1))
    <3>1. Captured(read + 1) \in Lidars
      BY <1>2, <2>1, CapturedIs
    <3>. QED
      BY <1>5, <2>1, <3>1
  <2>2. CASE Push(Foreign)
    BY <1>5, <2>2
  <2>3. CASE UNCHANGED <<ringVars, pushed>>
    <3>1. UNCHANGED <<pushed, arrived, taken, cpc>>
      BY <2>3 DEF ringVars
    <3>2. NodeInv'
      BY <1>4, <3>1 DEF BasicInv, NodeInv
    <3>. QED
      BY <1>4, <3>1, <3>2, DoneStays DEF BasicInv
  <2>. QED
    BY <2>1, <2>2, <2>3, FillIs DEF BasicInv
<1>7. BagInv'
  BY <1>3, <1>4 DEF BasicInv, BagInv
<1>. QED
  BY <1>1, <1>3, <1>6, <1>7

\* What the process thread has taken, and what it does with it.
ProcessedAs(p) ==
  /\ done' = done + 1 /\ done' = taken
  /\ UNCHANGED <<source, played, scan, flag, angles, ringVars, pushed, readerVars>>
  /\ ~exposed => got = done + 1
  /\ got # 0 => got \in 1 .. Len(pushed) /\ p = pushed[got]
  /\ p \in Lidars \cup {Foreign}
  /\ p = Foreign => UNCHANGED <<topic, raw, made>>
  /\ p # Foreign =>
       /\ got # 0
       /\ made' \in Seq([packet : Lidars, angles : Angles]) /\ Len(made') = Len(made) + 1
       /\ made'[Len(made) + 1].packet = p /\ made'[Len(made) + 1].angles = angles
       /\ \A i \in 1 .. Len(made) : made'[i] = made[i]
       /\ raw' \in Seq(Lidars)
       /\ topic' = topic \/ /\ Republish /\ source = "rosbag"
                            /\ topic' \in Seq(Recordings) /\ Len(topic') <= Depth

LEMMA ProcessIs ==
  ASSUME BasicInv, Process
  PROVE  ProcessedAs(Taken)
<1>. DEFINE p == Taken
            entry == [packet |-> p, angles |-> angles]
            s == Append(raw, p) \o <<Packet(0, 0)>>
<1>1. /\ done < taken /\ done' = done + 1
      /\ UNCHANGED <<source, played, scan, flag, angles, ringVars, pushed, readerVars>>
  BY DEF Process
<1>2. /\ p = Foreign => UNCHANGED <<topic, raw, made>>
      /\ p # Foreign => /\ made' = Append(made, entry)
                        /\ raw' = (IF p.place = PerScan THEN <<>> ELSE Append(raw, p))
                        /\ topic' = IF p.place = PerScan /\ Republishes /\ source = "rosbag"
                                      THEN Kept(s) ELSE topic
  BY DEF Process
<1>3. /\ done \in Nat /\ taken \in Nat /\ done \in {taken - 1, taken} /\ got \in 0 .. arrived
      /\ arrived \in Nat /\ Len(pushed) = arrived /\ pushed \in Seq(Lidars \cup {Foreign})
      /\ ~exposed => got = taken
  BY RingTypes DEF BasicInv, DoneInv, NodeInv, RingInv
<1>4. done' = taken /\ (~exposed => got = done + 1)
  BY <1>1, <1>3
<1>5. got # 0 => got \in 1 .. Len(pushed) /\ p = pushed[got]
  BY <1>3 DEF Taken
<1>6. p \in Lidars \cup {Foreign}
  <2>1. CASE got = 0
    BY <2>1 DEF Taken
  <2>2. CASE got # 0
    BY <1>3, <1>5, <2>2
  <2>. QED
    BY <2>1, <2>2
<1>7. p # Foreign => got # 0 /\ p \in Lidars
  BY <1>6 DEF Taken
<1>. HIDE DEF p
<1>8. ASSUME p # Foreign
      PROVE  /\ made' \in Seq([packet : Lidars, angles : Angles]) /\ Len(made') = Len(made) + 1
             /\ made'[Len(made) + 1].packet = p /\ made'[Len(made) + 1].angles = angles
             /\ \A i \in 1 .. Len(made) : made'[i] = made[i]
  <2>1. made \in Seq([packet : Lidars, angles : Angles]) /\ angles \in Angles
    BY DEF BasicInv, NodeInv
  <2>2. entry \in [packet : Lidars, angles : Angles] /\ entry.packet = p /\ entry.angles = angles
    BY <1>7, <1>8, <2>1
  <2>3. made' = Append(made, entry)
    BY <1>2, <1>8
  <2>. HIDE DEF entry
  <2>. QED
    BY <2>1, <2>2, <2>3, AppendProperties
<1>9. ASSUME p # Foreign
      PROVE  /\ raw' \in Seq(Lidars) /\ Append(raw, p) \in Seq(Lidars)
  <2>1. raw \in Seq(Lidars) /\ p \in Lidars
    BY <1>7, <1>9 DEF BasicInv, BagInv
  <2>2. Append(raw, p) \in Seq(Lidars)
    BY <2>1, AppendProperties
  <2>3. <<>> \in Seq(Lidars)
    OBVIOUS
  <2>. QED
    BY <1>2, <1>9, <2>2, <2>3
<1>10. ASSUME p # Foreign
       PROVE  s \in Recordings
  <2>. DEFINE a == Append(raw, p)
              e == Packet(0, 0)
              t == a \o <<e>>
  <2>1. a \in Seq(Lidars)
    BY <1>9, <1>10
  <2>2. e \in Packets /\ e.place = 0 /\ Lidars \subseteq Packets
    BY Bag, LidarsAre DEF Packet, Packets
  <2>. HIDE DEF a, e
  <2>3. a \in Seq(Packets) /\ Len(a) \in Nat /\ <<e>> \in Seq(Packets) /\ Len(<<e>>) = 1
    BY <2>1, <2>2
  <2>4. /\ t \in Seq(Packets) /\ Len(t) = Len(a) + 1 /\ t[Len(a) + 1] = e
        /\ \A m \in 1 .. Len(a) : t[m] = a[m]
    BY <2>2, <2>3
  <2>. HIDE DEF t
  <2>5. t # <<>> /\ Len(t) - 1 = Len(a)
    BY <2>3, <2>4
  <2>6. \A m \in 1 .. Len(a) : t[m] \in Lidars
    BY <2>1, <2>4
  <2>7. t \in Recordings
    BY <2>2, <2>4, <2>5, <2>6 DEF Recordings
  <2>. QED
    BY <2>7 DEF t, a, e
<1>. HIDE DEF s
<1>11. ASSUME p # Foreign, topic' # topic
       PROVE  Republish /\ source = "rosbag" /\ topic' \in Seq(Recordings) /\ Len(topic') <= Depth
  <2>1. Republish /\ source = "rosbag" /\ topic' = Kept(s) /\ s \in Recordings
    BY <1>2, <1>10, <1>11 DEF Republishes
  <2>. QED
    BY <2>1, KeptIs DEF BasicInv, BagInv
<1>. QED
  <2>1. ProcessedAs(p)
    BY <1>1, <1>2, <1>4, <1>5, <1>6, <1>7, <1>8, <1>9, <1>11 DEF ProcessedAs
  <2>. QED
    BY <2>1 DEF p

LEMMA ProcessTypes ==
  ASSUME BasicInv, Process
  PROVE  NodeInv' /\ DoneInv' /\ BagInv'
<1>. PICK p : ProcessedAs(p)
  BY ProcessIs
<1>1. UNCHANGED <<source, played, scan, flag, angles, pushed, taken, cpc, arrived, reader>>
      /\ done' = done + 1 /\ done' = taken
  BY DEF ProcessedAs, ringVars, readerVars
<1>2. done \in Nat /\ taken \in Nat /\ Len(made) \in Nat /\ Len(made) <= done
  BY RingTypes DEF BasicInv, DoneInv, NodeInv
<1>3. DoneInv'
  BY <1>1, <1>2 DEF DoneInv
<1>4. NodeInv'
  <2>1. CASE p = Foreign
    <3>1. made' = made
      BY <2>1 DEF ProcessedAs
    <3>. QED
      BY <1>1, <1>2, <3>1 DEF BasicInv, NodeInv
  <2>2. CASE p # Foreign
    <3>1. /\ made' \in Seq([packet : Lidars, angles : Angles]) /\ Len(made') = Len(made) + 1
          /\ got \in 1 .. Len(pushed)
      BY <2>2, Zenon DEF ProcessedAs
    <3>2. pushed' # <<>>
      BY <1>1, <3>1
    <3>3. Len(made') <= done'
      BY <1>1, <1>2, <3>1
    <3>. QED
      BY <1>1, <3>1, <3>2, <3>3 DEF BasicInv, NodeInv
  <2>. QED
    BY <2>1, <2>2
<1>5. BagInv'
  <2>1. /\ raw' \in Seq(Lidars) /\ topic' \in Seq(Recordings) /\ Len(topic') <= Depth
        /\ source = "pcap" => topic' = <<>>
    BY DEF ProcessedAs, BasicInv, BagInv
  <2>. QED
    BY <1>1, <2>1 DEF BasicInv, BagInv
<1>. QED
  BY <1>3, <1>4, <1>5

LEMMA BasicInductive == Spec => []BasicInv
<1>1. Init => NodeInv /\ DoneInv /\ BagInv
  BY InitTypes
<1>2. ReaderInv /\ RingInv /\ NodeInv /\ DoneInv /\ BagInv /\ [Next]_vars
        => (NodeInv /\ DoneInv /\ BagInv)'
  <2>. SUFFICES ASSUME BasicInv, [Next]_vars PROVE NodeInv' /\ DoneInv' /\ BagInv'
    BY DEF BasicInv
  <2>1. CASE Play
    BY <2>1, PlayTypes
  <2>2. CASE ScanCallback
    BY <2>2, CallbackTypes
  <2>3. CASE PushPacket
    BY <2>3, PushTypes
  <2>4. CASE LoadFromScan
    BY <2>4, LoadTypes
  <2>5. CASE ReadCapture
    BY <2>5, CaptureTypes
  <2>6. CASE Process
    BY <2>6, ProcessTypes
  <2>7. ASSUME UNCHANGED <<source, bagVars, pushed, madeVars, arrived>>,
               reader = "ended" => reader' = "ended"
        PROVE  NodeInv' /\ BagInv'
    BY <2>7 DEF BasicInv, NodeInv, BagInv, bagVars, madeVars
  <2>8. ASSUME UNCHANGED <<ringVars, madeVars>> PROVE DoneInv'
    BY <2>8, DoneStays DEF BasicInv, ringVars, madeVars
  <2>9. CASE FinishPush
    <3>1. UNCHANGED <<source, bagVars, pushed, madeVars, readerVars, taken, cpc, arrived>>
      BY <2>9, FinishIs
    <3>2. UNCHANGED done /\ UNCHANGED reader
      BY <3>1 DEF madeVars, readerVars
    <3>3. DoneInv'
      BY <3>1, <3>2, DoneStays DEF BasicInv
    <3>. QED
      BY <2>7, <3>1, <3>2, <3>3
  <2>10. CASE Take
    <3>1. DoneInv' /\ UNCHANGED <<source, bagVars, pushed, madeVars, arrived>> /\ UNCHANGED readerVars
      BY <2>10, TakeIs
    <3>2. UNCHANGED reader
      BY <3>1 DEF readerVars
    <3>. QED
      BY <2>7, <3>1, <3>2
  <2>11. CASE Pacing \/ Clock \/ UNCHANGED vars
    <3>1. UNCHANGED <<source, bagVars, ringVars, pushed, madeVars>>
      BY <2>11 DEF Pacing, Clock, vars
    <3>2. reader = "ended" => reader' = "ended"
      BY <2>11 DEF Pacing, EndOfFile, Pace, PauseEnds, Clock, Tick, vars, readerVars
    <3>. QED
      BY <2>7, <2>8, <3>1, <3>2 DEF ringVars
  <2>. QED
    BY <2>1, <2>2, <2>3, <2>4, <2>5, <2>6, <2>9, <2>10, <2>11 DEF Next
<1>. QED
  BY <1>1, <1>2, ReaderInductive, RingHolds, PTL DEF Spec, BasicInv

\* Whatever the ring loses or repeats and whether or not the node hears itself, the
\* queues hold packets and scans of the recording, and no more scans than the
\* subscription's depth.
THEOREM TypeCorrect == Spec => []TypeOK
<1>1. BasicInv => TypeOK
  <2>. SUFFICES ASSUME BasicInv PROVE TypeOK
    OBVIOUS
  <2>1. ASSUME NEW i \in DOMAIN pushed
        PROVE  \/ pushed[i].scan >= 1 /\ pushed[i].place \in 1 .. PerScan
               \/ pushed[i] = Foreign
    <3>1. pushed[i] \in Lidars \cup {Foreign}
      BY DEF BasicInv, NodeInv
    <3>. QED
      BY <3>1 DEF Lidars
  <2>2. ReaderType /\ Len(topic) <= Depth
    BY DEF BasicInv, ReaderInv, BagInv
  <2>3. Ring!TypeOK /\ got <= arrived /\ done \in {taken - 1, taken}
    BY DEF BasicInv, RingInv, DoneInv
  <2>4. Len(pushed) = arrived /\ Len(made) <= done
    BY DEF BasicInv, NodeInv
  <2>5. source \in {"rosbag", "pcap"} /\ played \in 0 .. Scans /\ flag \in BOOLEAN
        /\ angles \in {"default", "bag", "file"}
    BY DEF BasicInv, NodeInv, Angles
  <2>. QED
    BY <2>1, <2>2, <2>3, <2>4, <2>5 DEF TypeOK
<1>. QED
  BY <1>1, BasicInductive, PTL

-----------------------------------------------------------------------------
(* The angles.                                                               *)

\* What the correction of scan k leaves.
Settled(k) == CASE k \notin Broken -> "bag"
                [] k \in Broken /\ FileExists -> "file"
                [] OTHER -> "default"

Loaded == IF FileExists THEN "file" ELSE "default"

\* Until a correction has been met, everything pushed is of one recorded scan whose
\* own correction comes next, and before the first push no scan has been published
\* on the topic either.
FirstScan ==
  /\ angles = "default"
  /\ pushed = <<>> => \A i \in 1 .. Len(topic) : \E k \in Nat \ {0} : topic[i] = BagScan(k)
  /\ \E k \in Nat \ {0} :
       /\ Rest(scan, k)
       /\ Len(pushed) = (IF scan = <<>> THEN 0 ELSE PerScan + 1 - Len(scan))
       /\ \A i \in 1 .. Len(pushed) : pushed[i] = Packet(k, i)

SettledInv ==
  /\ source = "rosbag" =>
       /\ ~flag => FirstScan
       /\ flag => pushed # <<>> /\ angles = Settled(pushed[1].scan)
       /\ \A i \in 1 .. Len(made) : made[i].packet.scan > pushed[1].scan =>
                                      made[i].angles = Settled(pushed[1].scan)
  /\ source = "pcap" => angles = Loaded /\ \A i \in 1 .. Len(made) : made[i].angles = Loaded

LEMMA PlaySettles ==
  ASSUME BasicInv, SettledInv, Play
  PROVE  SettledInv'
<1>1. /\ source = "rosbag" /\ topic' = Kept(BagScan(played + 1)) /\ played + 1 \in Nat \ {0}
      /\ UNCHANGED <<source, scan, flag, angles, pushed, made>>
  BY Bag DEF Play, madeVars, BasicInv, NodeInv
<1>2. ASSUME ~flag
      PROVE  FirstScan'
  <2>. DEFINE w == BagScan(played + 1)
  <2>1. FirstScan
    BY <1>1, <1>2 DEF SettledInv
  <2>2. topic' = Kept(w) /\ w \in Recordings
    BY <1>1, BagScanIs
  <2>. HIDE DEF w
  <2>3. /\ topic \in Seq(Recordings) /\ Len(topic) <= Depth
    BY DEF BasicInv, BagInv
  <2>4. /\ topic' \in Seq(Recordings) /\ topic'[Len(topic')] = w
        /\ \E o \in {0, 1} : /\ \A i \in 1 .. Len(topic') - 1 : topic'[i] = topic[i + o]
                             /\ Len(topic') - 1 + o = Len(topic)
    BY <2>2, <2>3, KeptIs
  <2>5. PICK o \in {0, 1} : /\ \A i \in 1 .. Len(topic') - 1 : topic'[i] = topic[i + o]
                            /\ Len(topic') - 1 + o = Len(topic)
    BY <2>4
  <2>6. Len(topic') \in Nat
    BY <2>4
  <2>7. ASSUME pushed = <<>>, NEW i \in 1 .. Len(topic')
        PROVE  \E k \in Nat \ {0} : topic'[i] = BagScan(k)
    <3>1. CASE i = Len(topic')
      BY <1>1, <2>4, <3>1 DEF w
    <3>2. CASE i # Len(topic')
      <4>1. topic'[i] = topic[i + o] /\ i + o \in 1 .. Len(topic)
        BY <2>5, <2>6, <3>2
      <4>. QED
        BY <2>1, <2>7, <4>1 DEF FirstScan
    <3>. QED
      BY <3>1, <3>2
  <2>. QED
    BY <1>1, <2>1, <2>7 DEF FirstScan
<1>. QED
  BY <1>1, <1>2 DEF SettledInv

LEMMA CallbackSettles ==
  ASSUME BasicInv, SettledInv, ScanCallback
  PROVE  SettledInv'
<1>1. /\ scan = <<>> /\ topic # <<>> /\ scan' = Head(topic) /\ topic' = Tail(topic)
      /\ UNCHANGED <<source, flag, angles, pushed, made>>
  BY DEF ScanCallback, madeVars
<1>2. source = "rosbag" /\ topic \in Seq(Recordings) /\ Len(topic) \in Nat \ {0}
  BY <1>1 DEF BasicInv, BagInv, NodeInv
<1>3. /\ Len(topic') = Len(topic) - 1 /\ \A i \in 1 .. Len(topic') : topic'[i] = topic[i + 1]
      /\ Head(topic) = topic[1]
  BY <1>1, <1>2
<1>4. ASSUME ~flag
      PROVE  FirstScan'
  <2>1. FirstScan
    BY <1>2, <1>4 DEF SettledInv
  <2>2. Len(pushed) = 0 /\ pushed = <<>>
    <3>1. Len(pushed) = 0
      BY <1>1, <2>1 DEF FirstScan
    <3>. QED
      BY <3>1, EmptySeq DEF BasicInv, NodeInv
  <2>3. \A i \in 1 .. Len(topic') : \E k \in Nat \ {0} : topic'[i] = BagScan(k)
    <3>1. ASSUME NEW i \in 1 .. Len(topic')
          PROVE  i + 1 \in 1 .. Len(topic) /\ topic'[i] = topic[i + 1]
      BY <1>2, <1>3
    <3>. QED
      BY <2>1, <2>2, <3>1 DEF FirstScan
  <2>4. PICK k \in Nat \ {0} : scan' = BagScan(k)
    <3>1. 1 \in 1 .. Len(topic)
      BY <1>2
    <3>. QED
      BY <1>1, <1>3, <2>1, <2>2, <3>1 DEF FirstScan
  <2>5. Rest(scan', k) /\ Len(scan') = PerScan + 1
    BY <2>4, BagScanIs
  <2>6. /\ Len(pushed') = (IF scan' = <<>> THEN 0 ELSE PerScan + 1 - Len(scan'))
        /\ \A i \in 1 .. Len(pushed') : pushed'[i] = Packet(k, i)
    BY <1>1, <2>2, <2>5, Bag
  <2>. QED
    BY <1>1, <2>1, <2>3, <2>5, <2>6 DEF FirstScan
<1>. QED
  BY <1>1, <1>2, <1>4 DEF SettledInv

LEMMA PushSettles ==
  ASSUME BasicInv, SettledInv, PushPacket
  PROVE  SettledInv'
<1>1. /\ scan # <<>> /\ Head(scan).place > 0 /\ Push(Head(scan)) /\ scan' = Tail(scan)
      /\ UNCHANGED <<source, topic, flag, angles, made>>
  BY DEF PushPacket, madeVars
<1>2. source = "rosbag" /\ Head(scan) \in Lidars
  BY PushTypes
<1>3. /\ Len(pushed') = Len(pushed) + 1 /\ pushed' # <<>> /\ pushed'[Len(pushed) + 1] = Head(scan)
      /\ \A i \in 1 .. Len(pushed) : pushed'[i] = pushed[i]
      /\ Len(pushed) \in Nat
  BY <1>1, <1>2, PushIs
<1>4. pushed # <<>> => pushed'[1] = pushed[1]
  <2>1. pushed # <<>> => 1 \in 1 .. Len(pushed)
    BY <1>3, EmptySeq DEF BasicInv, NodeInv
  <2>. QED
    BY <1>3, <2>1
<1>5. ASSUME ~flag
      PROVE  FirstScan'
  <2>1. FirstScan
    BY <1>2, <1>5 DEF SettledInv
  <2>2. PICK k \in Nat \ {0} :
          /\ Rest(scan, k) /\ Len(pushed) = PerScan + 1 - Len(scan)
          /\ \A i \in 1 .. Len(pushed) : pushed[i] = Packet(k, i)
    BY <1>1, <2>1 DEF FirstScan
  <2>3. /\ Len(scan) \in 1 .. PerScan + 1 /\ Len(scan) > 1
        /\ Head(scan) = Packet(k, PerScan + 2 - Len(scan)) /\ Rest(scan', k)
        /\ Len(scan') = Len(scan) - 1 /\ PerScan \in Nat
    BY <1>1, <2>2, HeadIs, Bag
  <2>4. Len(pushed') = PerScan + 1 - Len(scan') /\ PerScan + 2 - Len(scan) = Len(pushed) + 1
    BY <1>3, <2>2, <2>3
  <2>5. scan' # <<>>
    BY <2>3
  <2>6. \A i \in 1 .. Len(pushed') : pushed'[i] = Packet(k, i)
    <3>1. ASSUME NEW i \in 1 .. Len(pushed')
          PROVE  pushed'[i] = Packet(k, i)
      <4>1. CASE i = Len(pushed) + 1
        BY <1>3, <2>3, <2>4, <4>1
      <4>2. CASE i \in 1 .. Len(pushed)
        BY <1>3, <2>2, <4>2
      <4>. QED
        BY <1>3, <4>1, <4>2
    <3>. QED
      BY <3>1
  <2>. QED
    BY <1>1, <1>3, <2>1, <2>2, <2>3, <2>4, <2>5, <2>6 DEF FirstScan
<1>6. pushed = <<>> => Len(made) = 0
  BY DEF BasicInv, NodeInv
<1>. QED
  BY <1>1, <1>2, <1>3, <1>4, <1>5, <1>6 DEF SettledInv

LEMMA LoadSettles ==
  ASSUME BasicInv, SettledInv, LoadFromScan
  PROVE  SettledInv'
<1>1. /\ scan # <<>> /\ UNCHANGED <<source, topic, pushed, made>>
      /\ source = "rosbag" /\ Len(scan) = 1
  BY LoadTypes DEF LoadFromScan, madeVars
<1>2. CASE flag
  BY <1>1, <1>2 DEF LoadFromScan, SettledInv
<1>3. CASE ~flag
  <2>1. FirstScan
    BY <1>1, <1>3 DEF SettledInv
  <2>2. PICK k \in Nat \ {0} :
          /\ Rest(scan, k) /\ Len(pushed) = PerScan + 1 - Len(scan)
          /\ \A i \in 1 .. Len(pushed) : pushed[i] = Packet(k, i)
    BY <1>1, <2>1 DEF FirstScan
  <2>3. Head(scan) = Packet(k, 0)
    BY <1>1, <2>2, HeadIs
  <2>4. pushed # <<>> /\ pushed[1].scan = k
    <3>1. Len(pushed) = PerScan /\ 1 \in 1 .. Len(pushed)
      BY <1>1, <2>2, Bag
    <3>2. pushed[1] = Packet(k, 1)
      BY <2>2, <3>1
    <3>. QED
      BY <3>1, <3>2, Bag DEF Packet
  <2>5. flag' = TRUE
    BY <1>3 DEF LoadFromScan, FlagAfter
  <2>6. angles' = Settled(k)
    <3>1. Head(scan).scan = k /\ angles = "default"
      BY <2>1, <2>3 DEF Packet, FirstScan
    <3>2. angles' = CASE k \notin Broken -> "bag"
                      [] ~(k \notin Broken) /\ FileExists -> "file"
                      [] OTHER -> "default"
      BY <1>3, <3>1 DEF LoadFromScan
    <3>. QED
      BY <3>2 DEF Settled
  <2>. QED
    BY <1>1, <2>4, <2>5, <2>6 DEF SettledInv
<1>. QED
  BY <1>2, <1>3

LEMMA ProcessSettles ==
  ASSUME BasicInv, SettledInv, Process
  PROVE  SettledInv'
<1>. PICK p : ProcessedAs(p)
  BY ProcessIs
<1>1. UNCHANGED <<source, scan, flag, angles, pushed>>
  BY DEF ProcessedAs
<1>2. CASE p = Foreign
  BY <1>1, <1>2 DEF ProcessedAs, SettledInv, FirstScan
<1>3. CASE p # Foreign
  <2>1. /\ p \in Lidars /\ got \in 1 .. Len(pushed) /\ p = pushed[got]
        /\ Len(made') = Len(made) + 1 /\ Len(made) \in Nat
        /\ made'[Len(made) + 1].packet = p /\ made'[Len(made) + 1].angles = angles
        /\ \A i \in 1 .. Len(made) : made'[i] = made[i]
    BY <1>3 DEF ProcessedAs, BasicInv, NodeInv
  <2>2. CASE source = "pcap"
    <3>1. angles = Loaded /\ \A i \in 1 .. Len(made) : made[i].angles = Loaded
      BY <2>2 DEF SettledInv
    <3>2. ASSUME NEW i \in 1 .. Len(made) + 1
          PROVE  made'[i].angles = Loaded
      <4>1. CASE i = Len(made) + 1
        BY <2>1, <3>1, <4>1
      <4>2. CASE i \in 1 .. Len(made)
        BY <2>1, <3>1, <4>2
      <4>. QED
        BY <2>1, <4>1, <4>2
    <3>. QED
      BY <1>1, <2>1, <2>2, <3>1, <3>2 DEF SettledInv
  <2>3. CASE source = "rosbag"
    <3>1. pushed # <<>>
      BY <2>1
    <3>2. ASSUME ~flag
          PROVE  p.scan = pushed[1].scan /\ FirstScan'
      <4>1. FirstScan
        BY <2>3, <3>2 DEF SettledInv
      <4>2. PICK k \in Nat \ {0} : \A i \in 1 .. Len(pushed) : pushed[i] = Packet(k, i)
        BY <4>1 DEF FirstScan
      <4>3. Len(pushed) \in Nat
        BY DEF BasicInv, NodeInv
      <4>4. 1 \in 1 .. Len(pushed)
        BY <2>1, <4>3
      <4>5. p = Packet(k, got) /\ pushed[1] = Packet(k, 1)
        BY <2>1, <4>2, <4>4
      <4>. QED
        BY <1>1, <3>1, <4>1, <4>5 DEF FirstScan, Packet
    <3>3. ASSUME NEW i \in 1 .. Len(made) + 1, made'[i].packet.scan > pushed[1].scan
          PROVE  made'[i].angles = Settled(pushed[1].scan)
      <4>1. CASE i = Len(made) + 1
        <5>1. p.scan > pushed[1].scan /\ p.scan \in Nat
          BY <2>1, <3>3, <4>1, LidarsAre
        <5>2. flag
          BY <3>2, <5>1
        <5>. QED
          BY <2>1, <2>3, <4>1, <5>2 DEF SettledInv
      <4>2. CASE i \in 1 .. Len(made)
        BY <2>1, <2>3, <3>3, <4>2 DEF SettledInv
      <4>. QED
        BY <2>1, <4>1, <4>2
    <3>. QED
      BY <1>1, <2>1, <2>3, <3>1, <3>2, <3>3 DEF SettledInv
  <2>. QED
    BY <2>2, <2>3 DEF BasicInv, NodeInv
<1>. QED
  BY <1>2, <1>3

LEMMA SettledInductive == Spec => []SettledInv
<1>1. Init => SettledInv
  <2>. SUFFICES ASSUME Init PROVE SettledInv
    OBVIOUS
  <2>1. /\ scan = <<>> /\ flag = FALSE /\ Len(pushed) = 0 /\ Len(made) = 0 /\ Len(topic) = 0
        /\ source = "rosbag" => angles = "default"
        /\ source = "pcap" => angles = Loaded
    BY DEF Init, Loaded
  <2>2. Rest(scan, 1)
    BY <2>1, Bag DEF Rest
  <2>3. source = "rosbag" => FirstScan
    BY <2>1, <2>2 DEF FirstScan
  <2>. QED
    BY <2>1, <2>3 DEF SettledInv
<1>2. BasicInv /\ SettledInv /\ [Next]_vars => SettledInv'
  <2>. SUFFICES ASSUME BasicInv, SettledInv, [Next]_vars PROVE SettledInv'
    OBVIOUS
  <2>1. CASE Play
    BY <2>1, PlaySettles
  <2>2. CASE ScanCallback
    BY <2>2, CallbackSettles
  <2>3. CASE PushPacket
    BY <2>3, PushSettles
  <2>4. CASE LoadFromScan
    BY <2>4, LoadSettles
  <2>5. CASE ReadCapture
    <3>1. source = "pcap" /\ UNCHANGED <<source, bagVars, madeVars>>
      BY <2>5, CaptureTypes
    <3>. QED
      BY <3>1 DEF SettledInv, bagVars, madeVars
  <2>6. CASE Process
    BY <2>6, ProcessSettles
  <2>7. ASSUME UNCHANGED <<source, bagVars, pushed, madeVars>> PROVE SettledInv'
    BY <2>7 DEF SettledInv, FirstScan, bagVars, madeVars
  <2>. QED
    BY <2>1, <2>2, <2>3, <2>4, <2>5, <2>6, <2>7, FinishIs, TakeIs
       DEF Next, Pacing, Clock, vars
<1>. QED
  BY <1>1, <1>2, BasicInductive, PTL DEF Spec

\* Only packets of the first scan pushed can meet the angles of Init, all later ones
\* those its correction left, whatever the ring loses or repeats and even when the
\* node hears itself; and all packets of a capture meet the file's.
THEOREM SettledAnglesHolds == Spec => []SettledAngles
<1>1. BasicInv /\ SettledInv => SettledAngles
  <2>. SUFFICES ASSUME BasicInv, SettledInv, NEW i \in DOMAIN made
                PROVE  /\ source = "rosbag" /\ made[i].packet.scan > pushed[1].scan =>
                            made[i].angles = Settled(pushed[1].scan)
                       /\ source = "pcap" => made[i].angles = Loaded
    BY DEF SettledAngles, Settled, Loaded
  <2>1. i \in 1 .. Len(made)
    BY DEF BasicInv, NodeInv
  <2>. QED
    BY <2>1 DEF SettledInv
<1>. QED
  BY <1>1, BasicInductive, SettledInductive, PTL

-----------------------------------------------------------------------------
(* The order of the packets.                                                 *)

BagScans == {BagScan(k) : k \in Nat \ {0}}

Successive(p, q) ==
  \/ q.scan = p.scan /\ q.place = p.place + 1
  \/ q.scan > p.scan /\ q.place = 1 /\ p.place = PerScan

\* How far the scan in progress is pushed.
Joint(k) ==
  IF Len(scan) \in 1 .. PerScan
    THEN pushed # <<>> /\ pushed[Len(pushed)] = Packet(k, PerScan + 1 - Len(scan))
    ELSE pushed # <<>> => pushed[Len(pushed)].place = PerScan

\* The newest scan of which something was pushed, or that is about to be.
Newest == CASE Len(scan) = PerScan + 1 -> scan[1].scan
            [] Len(scan) # PerScan + 1 /\ pushed # <<>> -> pushed[Len(pushed)].scan
            [] OTHER -> 0

\* The subscription's scans are newer than what was pushed, in the order they were
\* recorded in, when the node does not hear itself.
OrderInv ==
  source = "rosbag" =>
    /\ \A i \in 1 .. Len(topic) : topic[i] \in BagScans
    /\ \E k \in Nat \ {0} : Rest(scan, k) /\ Joint(k)
    /\ \A i \in 1 .. Len(topic) : topic[i][1].scan \in 1 .. played /\ Newest < topic[i][1].scan
    /\ \A i, j \in 1 .. Len(topic) : i < j => topic[i][1].scan < topic[j][1].scan
    /\ Newest \in 0 .. played
    /\ Len(scan) = PerScan + 1 /\ pushed # <<>> => pushed[Len(pushed)].scan < scan[1].scan
    /\ \A i \in 1 .. Len(pushed) - 1 : Successive(pushed[i], pushed[i + 1])

LEMMA PlayOrders ==
  ASSUME BasicInv, OrderInv, Play
  PROVE  OrderInv'
<1>1. /\ source = "rosbag" /\ topic' = Kept(BagScan(played + 1)) /\ played + 1 \in Nat \ {0}
      /\ played' = played + 1 /\ played \in Nat /\ UNCHANGED <<source, scan, pushed>>
  BY Bag DEF Play, BasicInv, NodeInv
<1>. DEFINE w == BagScan(played + 1)
<1>2. topic' = Kept(w) /\ w \in Recordings /\ w \in BagScans /\ w[1].scan = played + 1
  BY <1>1, BagScanIs DEF BagScans
<1>. HIDE DEF w
<1>3. topic \in Seq(Recordings) /\ Len(topic) <= Depth
  BY DEF BasicInv, BagInv
<1>4. /\ topic' \in Seq(Recordings) /\ Len(topic') <= Depth /\ topic'[Len(topic')] = w
      /\ \E o \in {0, 1} : /\ \A i \in 1 .. Len(topic') - 1 : topic'[i] = topic[i + o]
                           /\ Len(topic') - 1 + o = Len(topic)
  BY <1>2, <1>3, KeptIs
<1>5. PICK o \in {0, 1} : /\ \A i \in 1 .. Len(topic') - 1 : topic'[i] = topic[i + o]
                          /\ Len(topic') - 1 + o = Len(topic)
  BY <1>4
<1>. PICK n \in Nat : n = Len(topic')
  BY <1>4
<1>6. \A i \in 1 .. n - 1 : topic'[i] = topic[i + o] /\ i + o \in 1 .. Len(topic)
  BY <1>5
<1>7. topic'[n][1].scan = played + 1 /\ topic'[n] \in BagScans
  BY <1>2, <1>4
<1>8. /\ \A i \in 1 .. Len(topic) : topic[i] \in BagScans
      /\ \E k \in Nat \ {0} : Rest(scan, k) /\ Joint(k)
      /\ \A i \in 1 .. Len(topic) : topic[i][1].scan \in 1 .. played /\ Newest < topic[i][1].scan
      /\ \A i, j \in 1 .. Len(topic) : i < j => topic[i][1].scan < topic[j][1].scan
      /\ Newest \in 0 .. played
  BY <1>1 DEF OrderInv
<1>9. Newest' = Newest
  BY <1>1 DEF Newest
<1>10. ASSUME NEW i \in 1 .. n
       PROVE  /\ topic'[i][1].scan \in 1 .. played + 1 /\ Newest < topic'[i][1].scan
              /\ topic'[i] \in BagScans
  <2>1. CASE i = n
    BY <1>1, <1>7, <1>8, <2>1
  <2>2. CASE i \in 1 .. n - 1
    BY <1>1, <1>6, <1>8, <2>2
  <2>. QED
    BY <2>1, <2>2
<1>11. ASSUME NEW i \in 1 .. n, NEW j \in 1 .. n, i < j
       PROVE  topic'[i][1].scan < topic'[j][1].scan
  <2>1. i \in 1 .. n - 1
    BY <1>11
  <2>2. CASE j = n
    <3>1. topic'[i] = topic[i + o] /\ i + o \in 1 .. Len(topic)
      BY <1>6, <2>1
    <3>2. topic[i + o][1].scan \in 1 .. played
      BY <1>8, <3>1
    <3>. QED
      BY <1>1, <1>7, <2>2, <3>1, <3>2
  <2>3. CASE j \in 1 .. n - 1
    <3>1. i + o < j + o
      BY <1>11
    <3>2. /\ topic'[i] = topic[i + o] /\ i + o \in 1 .. Len(topic)
          /\ topic'[j] = topic[j + o] /\ j + o \in 1 .. Len(topic)
      BY <1>6, <2>1, <2>3
    <3>3. topic[i + o][1].scan < topic[j + o][1].scan
      BY <1>8, <3>1, <3>2
    <3>. QED
      BY <3>2, <3>3
  <2>. QED
    BY <2>2, <2>3
<1>12. \E k \in Nat \ {0} : Rest(scan', k) /\ Joint(k)'
  BY <1>1, <1>8 DEF Joint
<1>. QED
  BY <1>1, <1>8, <1>9, <1>10, <1>11, <1>12 DEF OrderInv

LEMMA CallbackOrders ==
  ASSUME BasicInv, OrderInv, ScanCallback
  PROVE  OrderInv'
<1>1. /\ scan = <<>> /\ topic # <<>> /\ scan' = Head(topic) /\ topic' = Tail(topic)
      /\ UNCHANGED <<source, played, pushed>>
  BY DEF ScanCallback
<1>2. source = "rosbag" /\ topic \in Seq(Recordings) /\ Len(topic) \in Nat \ {0}
  BY <1>1 DEF BasicInv, BagInv, NodeInv
<1>3. /\ Len(topic') = Len(topic) - 1 /\ \A i \in 1 .. Len(topic') : topic'[i] = topic[i + 1]
      /\ Head(topic) = topic[1]
  BY <1>1, <1>2
<1>4. Len(scan') = PerScan + 1 /\ \E k \in Nat \ {0} : Rest(scan', k) /\ Joint(k)'
  <2>1. 1 \in 1 .. Len(topic)
    BY <1>2
  <2>2. PICK k \in Nat \ {0} : topic[1] = BagScan(k)
    BY <1>2, <2>1 DEF OrderInv, BagScans
  <2>3. Rest(scan', k) /\ Len(scan') = PerScan + 1
    BY <1>1, <1>3, <2>2, BagScanIs
  <2>4. Joint(k)'
    <3>1. Len(scan) \notin 1 .. PerScan /\ Len(scan') \notin 1 .. PerScan
      BY <1>1, <2>3, Bag
    <3>2. pushed # <<>> => pushed[Len(pushed)].place = PerScan
      BY <1>2, <3>1 DEF OrderInv, Joint
    <3>. QED
      BY <1>1, <3>1, <3>2 DEF Joint
  <2>. QED
    BY <2>3, <2>4
<1>5. /\ \A i \in 1 .. Len(topic) : topic[i] \in BagScans
      /\ \A i \in 1 .. Len(topic) : topic[i][1].scan \in 1 .. played /\ Newest < topic[i][1].scan
      /\ \A i, j \in 1 .. Len(topic) : i < j => topic[i][1].scan < topic[j][1].scan
      /\ \A i \in 1 .. Len(pushed) - 1 : Successive(pushed[i], pushed[i + 1])
      /\ played \in Nat
  <2>1. played \in Nat
    BY Bag DEF BasicInv, NodeInv
  <2>. QED
    BY <1>2, <2>1 DEF OrderInv
<1>6. Newest' = topic[1][1].scan
  BY <1>1, <1>3, <1>4 DEF Newest
<1>7. pushed # <<>> => Newest = pushed[Len(pushed)].scan
  BY <1>1, Bag DEF Newest
<1>8. ASSUME NEW i \in 1 .. Len(topic')
      PROVE  /\ topic'[i][1].scan \in 1 .. played /\ topic[1][1].scan < topic'[i][1].scan
             /\ topic'[i] \in BagScans
  <2>1. topic'[i] = topic[i + 1] /\ i + 1 \in 1 .. Len(topic) /\ 1 \in 1 .. Len(topic) /\ 1 < i + 1
    BY <1>2, <1>3
  <2>. QED
    BY <1>5, <2>1
<1>9. ASSUME NEW i \in 1 .. Len(topic'), NEW j \in 1 .. Len(topic'), i < j
      PROVE  topic'[i][1].scan < topic'[j][1].scan
  <2>1. /\ topic'[i] = topic[i + 1] /\ i + 1 \in 1 .. Len(topic)
        /\ topic'[j] = topic[j + 1] /\ j + 1 \in 1 .. Len(topic) /\ i + 1 < j + 1
    BY <1>2, <1>3, <1>9
  <2>. QED
    BY <1>5, <2>1
<1>10. Newest' \in 0 .. played
  <2>1. 1 \in 1 .. Len(topic)
    BY <1>2
  <2>. QED
    BY <1>5, <1>6, <2>1
<1>11. pushed # <<>> => pushed[Len(pushed)].scan < topic[1][1].scan
  <2>1. 1 \in 1 .. Len(topic)
    BY <1>2
  <2>. QED
    BY <1>5, <1>7, <2>1
<1>. QED
  BY <1>1, <1>3, <1>4, <1>5, <1>6, <1>8, <1>9, <1>10, <1>11 DEF OrderInv

LEMMA PushOrders ==
  ASSUME BasicInv, OrderInv, PushPacket
  PROVE  OrderInv'
<1>1. /\ scan # <<>> /\ Head(scan).place > 0 /\ Push(Head(scan)) /\ scan' = Tail(scan)
      /\ UNCHANGED <<source, played, topic>>
  BY DEF PushPacket
<1>2. source = "rosbag"
  BY PushTypes
<1>3. PICK k \in Nat \ {0} : Rest(scan, k) /\ Joint(k)
  BY <1>2 DEF OrderInv
<1>. PICK l : l = Len(scan)
  OBVIOUS
<1>4. /\ l \in 2 .. PerScan + 1 /\ Head(scan) = Packet(k, PerScan + 2 - l) /\ Head(scan) = scan[1]
      /\ PerScan + 2 - l \in 1 .. PerScan /\ Len(scan') = l - 1 /\ PerScan \in Nat \ {0}
      /\ Rest(scan', k)
  <2>1. /\ Len(scan) \in 1 .. PerScan + 1 /\ Len(scan) > 1 /\ Head(scan) = scan[1]
        /\ Head(scan) = Packet(k, PerScan + 2 - Len(scan)) /\ PerScan + 2 - Len(scan) \in 1 .. PerScan
        /\ Len(scan') = Len(scan) - 1 /\ Rest(scan', k)
    BY <1>1, <1>3, HeadIs
  <2>2. PerScan \in Nat \ {0}
    BY Bag
  <2>3. l \in 2 .. PerScan + 1
    BY <2>1, <2>2
  <2>. QED
    BY <2>1, <2>2, <2>3
<1>. DEFINE p == Head(scan)
<1>5. p \in Lidars /\ p.scan = k /\ p.place = PerScan + 2 - l
  BY <1>3, <1>4 DEF Packet, Lidars
<1>. HIDE DEF p
<1>6. /\ Len(pushed') = Len(pushed) + 1 /\ pushed' # <<>> /\ pushed'[Len(pushed) + 1] = p
      /\ \A i \in 1 .. Len(pushed) : pushed'[i] = pushed[i]
      /\ Len(pushed) \in Nat
  BY <1>1, <1>5, PushIs DEF p
<1>. PICK n \in Nat : n = Len(pushed)
  BY <1>6
<1>7. l # PerScan + 1 => /\ l \in 1 .. PerScan /\ pushed # <<>> /\ pushed[n] = Packet(k, PerScan + 1 - l)
  <2>1. l # PerScan + 1 => l \in 1 .. PerScan
    BY <1>4
  <2>. QED
    BY <1>3, <2>1 DEF Joint
<1>8. l = PerScan + 1 /\ pushed # <<>> => pushed[n].place = PerScan /\ pushed[n].scan < k
  <2>1. l = PerScan + 1 => l \notin 1 .. PerScan
    BY <1>4
  <2>2. l = PerScan + 1 /\ pushed # <<>> => pushed[n].scan < scan[1].scan
    BY <1>2 DEF OrderInv
  <2>3. scan[1].scan = k
    BY <1>4, <1>5 DEF p
  <2>. QED
    BY <1>3, <2>1, <2>2, <2>3 DEF Joint
<1>9. Newest = k
  <2>1. CASE l = PerScan + 1
    BY <1>4, <1>5, <2>1 DEF Newest, p
  <2>2. CASE l # PerScan + 1
    BY <1>7, <2>2 DEF Newest, Packet
  <2>. QED
    BY <2>1, <2>2
<1>10. Newest' = k /\ Len(scan') # PerScan + 1
  <2>1. Len(scan') # PerScan + 1
    BY <1>4
  <2>2. pushed'[Len(pushed')].scan = k
    BY <1>5, <1>6
  <2>. QED
    BY <1>6, <2>1, <2>2 DEF Newest
<1>11. pushed # <<>> => Successive(pushed[n], p)
  <2>1. CASE l = PerScan + 1
    <3>1. p.place = 1
      BY <1>4, <1>5, <2>1
    <3>. QED
      BY <1>5, <1>8, <2>1, <3>1 DEF Successive
  <2>2. CASE l # PerScan + 1
    <3>1. PerScan + 2 - l = PerScan + 1 - l + 1
      BY <1>4
    <3>. QED
      BY <1>5, <1>7, <2>2, <3>1 DEF Successive, Packet
  <2>. QED
    BY <2>1, <2>2
<1>12. ASSUME NEW i \in 1 .. n
       PROVE  Successive(pushed'[i], pushed'[i + 1])
  <2>1. pushed # <<>>
    BY <1>12
  <2>2. CASE i = n
    BY <1>6, <1>11, <2>1, <2>2
  <2>3. CASE i \in 1 .. n - 1
    <3>1. Successive(pushed[i], pushed[i + 1])
      BY <1>2, <2>3 DEF OrderInv
    <3>. QED
      BY <1>6, <2>3, <3>1
  <2>. QED
    BY <2>2, <2>3
<1>13. Len(pushed') - 1 = n
  BY <1>6
<1>14. Joint(k)'
  <2>1. Len(scan') \in 1 .. PerScan /\ PerScan + 1 - Len(scan') = PerScan + 2 - l
    BY <1>4
  <2>2. pushed'[Len(pushed')] = Packet(k, PerScan + 1 - Len(scan'))
    BY <1>4, <1>6, <2>1 DEF p
  <2>. QED
    BY <1>6, <2>1, <2>2 DEF Joint
<1>15. \A i \in 1 .. Len(topic) : topic[i] \in BagScans
  BY <1>2 DEF OrderInv
<1>16. \E kk \in Nat \ {0} : Rest(scan', kk) /\ Joint(kk)'
  BY <1>3, <1>4, <1>14
<1>. QED
  BY <1>1, <1>2, <1>9, <1>10, <1>12, <1>13, <1>15, <1>16 DEF OrderInv

LEMMA LoadOrders ==
  ASSUME BasicInv, OrderInv, LoadFromScan
  PROVE  OrderInv'
<1>1. /\ scan # <<>> /\ Len(scan) = 1 /\ scan' = <<>> /\ source = "rosbag"
      /\ UNCHANGED <<source, played, topic, pushed>>
  BY LoadTypes DEF LoadFromScan
<1>2. PICK k \in Nat \ {0} : Rest(scan, k) /\ Joint(k)
  BY <1>1 DEF OrderInv
<1>3. /\ Len(scan) # PerScan + 1 /\ Len(scan') # PerScan + 1 /\ Len(scan) \in 1 .. PerScan
      /\ Len(scan') \notin 1 .. PerScan /\ PerScan + 1 - 1 = PerScan
  BY <1>1, Bag
<1>4. Newest' = Newest
  BY <1>1, <1>3 DEF Newest
<1>5. Rest(scan', k)
  BY <1>1, <1>2, HeadIs DEF LoadFromScan
<1>6. Joint(k)'
  <2>1. pushed # <<>> /\ pushed[Len(pushed)] = Packet(k, PerScan)
    BY <1>1, <1>2, <1>3 DEF Joint
  <2>2. pushed[Len(pushed)].place = PerScan
    BY <2>1 DEF Packet
  <2>. QED
    BY <1>1, <1>3, <2>2 DEF Joint
<1>7. \E kk \in Nat \ {0} : Rest(scan', kk) /\ Joint(kk)'
  BY <1>2, <1>5, <1>6
<1>. QED
  BY <1>1, <1>3, <1>4, <1>7 DEF OrderInv

LEMMA OrderInductive ==
  ASSUME Republish = FALSE
  PROVE  Spec => []OrderInv
<1>1. Init => OrderInv
  <2>. SUFFICES ASSUME Init PROVE OrderInv
    OBVIOUS
  <2>1. scan = <<>> /\ pushed = <<>> /\ topic = <<>> /\ played = 0 /\ Len(scan) = 0
        /\ Len(topic) = 0 /\ Len(pushed) = 0
    BY DEF Init
  <2>2. Len(scan) # PerScan + 1
    BY <2>1, Bag
  <2>3. Newest = 0
    BY <2>1, <2>2 DEF Newest
  <2>4. Rest(scan, 1) /\ Joint(1)
    BY <2>1, Bag DEF Rest, Joint
  <2>. QED
    BY <2>1, <2>2, <2>3, <2>4 DEF OrderInv
<1>2. BasicInv /\ OrderInv /\ [Next]_vars => OrderInv'
  <2>. SUFFICES ASSUME BasicInv, OrderInv, [Next]_vars PROVE OrderInv'
    OBVIOUS
  <2>1. CASE Play
    BY <2>1, PlayOrders
  <2>2. CASE ScanCallback
    BY <2>2, CallbackOrders
  <2>3. CASE PushPacket
    BY <2>3, PushOrders
  <2>4. CASE LoadFromScan
    BY <2>4, LoadOrders
  <2>5. CASE ReadCapture
    <3>1. source = "pcap" /\ source' = source
      BY <2>5, CaptureTypes
    <3>. QED
      BY <3>1 DEF OrderInv
  <2>6. ASSUME UNCHANGED <<source, played, scan, topic, pushed>>
        PROVE  OrderInv'
    BY <2>6 DEF OrderInv, Newest, Joint
  <2>7. CASE Process
    <3>1. UNCHANGED <<source, played, scan, topic, pushed>>
      BY <2>7, ProcessIs DEF ProcessedAs
    <3>. QED
      BY <2>6, <3>1
  <2>8. ASSUME UNCHANGED <<source, bagVars, pushed>> PROVE OrderInv'
    BY <2>6, <2>8 DEF bagVars
  <2>. QED
    BY <2>1, <2>2, <2>3, <2>4, <2>5, <2>7, <2>8, FinishIs, TakeIs DEF Next, Pacing, Clock, vars
<1>. QED
  BY <1>1, <1>2, BasicInductive, PTL DEF Spec

-----------------------------------------------------------------------------
(* The order of a capture's packets.                                         *)

\* How many of the first j packets of s are the lidar's.
LidarsOf(s, j) == Cardinality({i \in 1 .. j : s[i] # Foreign})

LEMMA LidarsOfStep ==
  ASSUME NEW s, NEW j \in Nat
  PROVE  /\ LidarsOf(s, j) \in Nat
         /\ LidarsOf(s, j + 1) = LidarsOf(s, j) + (IF s[j + 1] # Foreign THEN 1 ELSE 0)
<1>. DEFINE S == {i \in 1 .. j : s[i] # Foreign}
            T == {i \in 1 .. j + 1 : s[i] # Foreign}
<1>1. S \in SUBSET (1 .. j)
  OBVIOUS
<1>2. Cardinality(S) \in Nat /\ Cardinality(S \cup {j + 1}) = Cardinality(S) + 1
  BY <1>1, CountOne
<1>3. T = IF s[j + 1] # Foreign THEN S \cup {j + 1} ELSE S
  <2>1. 1 .. j + 1 = (1 .. j) \cup {j + 1}
    OBVIOUS
  <2>. QED
    BY <2>1
<1>. HIDE DEF S, T
<1>4. Cardinality(T) = Cardinality(S) + (IF s[j + 1] # Foreign THEN 1 ELSE 0)
  BY <1>2, <1>3
<1>. QED
  BY <1>2, <1>4 DEF LidarsOf, S, T

LEMMA LidarsOfSame ==
  ASSUME NEW s, NEW t, NEW j \in Nat, \A i \in 1 .. j : s[i] = t[i]
  PROVE  LidarsOf(s, j) = LidarsOf(t, j)
<1>1. {i \in 1 .. j : s[i] # Foreign} = {i \in 1 .. j : t[i] # Foreign}
  OBVIOUS
<1>. QED
  BY <1>1 DEF LidarsOf

LEMMA NoLidars ==
  /\ LidarIn(0) = 0
  /\ \A s : LidarsOf(s, 0) = 0
<1>1. {i \in 1 .. 0 : capture[i].kind = "lidar"} = {}
  OBVIOUS
<1>2. \A s : {i \in 1 .. 0 : s[i] # Foreign} = {}
  OBVIOUS
<1>. QED
  BY <1>1, <1>2, FS_EmptySet DEF LidarIn, LidarsOf

\* The lidar packets pushed are those of the capture in its order, and until the
\* ring is exposed the process thread skips the foreign ones only.
PcapInv ==
  source = "pcap" =>
    /\ LidarsOf(pushed, Len(pushed)) = LidarIn(read)
    /\ \A j \in 1 .. Len(pushed) : pushed[j] # Foreign => pushed[j] = Nth(LidarsOf(pushed, j))
    /\ ~exposed => /\ Len(made) = LidarsOf(pushed, done) /\ done <= Len(pushed)
                   /\ \A i \in 1 .. Len(made) : made[i].packet = Nth(i)

LEMMA CaptureOrders ==
  ASSUME BasicInv, PcapInv, ReadCapture, exposed => exposed'
  PROVE  PcapInv'
<1>. DEFINE l == Len(pushed)
            lidar == capture[read + 1].kind = "lidar"
<1>1. source = "pcap" /\ UNCHANGED <<source, done, made>> /\ NextPacket
  BY CaptureTypes DEF ReadCapture, madeVars
<1>2. read' = read + 1 /\ capture' = capture /\ read \in Nat
  BY <1>1, DatagramIs DEF BasicInv
<1>3. /\ l \in Nat /\ done \in Nat
      /\ LidarsOf(pushed, l) = LidarIn(read)
      /\ \A j \in 1 .. l : pushed[j] # Foreign => pushed[j] = Nth(LidarsOf(pushed, j))
      /\ ~exposed => /\ Len(made) = LidarsOf(pushed, done) /\ done <= l
                     /\ \A i \in 1 .. Len(made) : made[i].packet = Nth(i)
  BY <1>1 DEF BasicInv, NodeInv, DoneInv, PcapInv
<1>. HIDE DEF l
<1>4. LidarIn(read)' = LidarIn(read) + (IF lidar THEN 1 ELSE 0)
  <2>1. LidarIn(read)' = LidarIn(read + 1)
    BY <1>2 DEF LidarIn
  <2>. QED
    BY <1>2, <2>1, LidarInStep
<1>5. ASSUME NEW p \in Lidars \cup {Foreign}, Push(p), lidar <=> p # Foreign,
             lidar => p = Nth(LidarIn(read) + 1)
      PROVE  PcapInv'
  <2>1. /\ Len(pushed') = l + 1 /\ pushed'[l + 1] = p
        /\ \A i \in 1 .. l : pushed'[i] = pushed[i]
    BY <1>5, PushIs DEF l
  <2>2. ASSUME NEW j \in 0 .. l
        PROVE  LidarsOf(pushed', j) = LidarsOf(pushed, j)
    <3>1. j \in Nat /\ \A i \in 1 .. j : pushed'[i] = pushed[i]
      BY <1>3, <2>1
    <3>. QED
      BY <3>1, LidarsOfSame
  <2>3. LidarsOf(pushed', l + 1) = LidarIn(read) + (IF lidar THEN 1 ELSE 0)
    <3>1. LidarsOf(pushed', l) = LidarIn(read)
      BY <1>3, <2>2
    <3>2. LidarsOf(pushed', l + 1) = LidarsOf(pushed', l) + (IF p # Foreign THEN 1 ELSE 0)
      BY <1>3, <2>1, LidarsOfStep
    <3>. QED
      BY <1>5, <3>1, <3>2
  <2>4. ASSUME NEW j \in 1 .. l + 1, pushed'[j] # Foreign
        PROVE  pushed'[j] = Nth(LidarsOf(pushed', j))
    <3>1. CASE j = l + 1
      BY <1>5, <2>1, <2>3, <2>4, <3>1
    <3>2. CASE j \in 1 .. l
      BY <1>3, <2>1, <2>2, <2>4, <3>2
    <3>. QED
      BY <1>3, <3>1, <3>2
  <2>5. ~exposed => /\ Len(made) = LidarsOf(pushed', done) /\ done <= l + 1
                    /\ \A i \in 1 .. Len(made) : made[i].packet = Nth(i)
    <3>1. ~exposed => done \in 0 .. l
      BY <1>3
    <3>. QED
      BY <1>3, <2>2, <3>1
  <2>6. \A j \in 1 .. l + 1 : pushed'[j] # Foreign => pushed'[j] = Nth(LidarsOf(pushed', j))
    BY <2>4
  <2>7. LidarsOf(pushed', Len(pushed')) = LidarIn(read)'
    BY <1>4, <2>1, <2>3
  <2>. QED
    BY <1>1, <2>1, <2>5, <2>6, <2>7 DEF PcapInv, Nth
<1>6. CASE lidar /\ Push(Captured(read + 1))
  <2>1. lidar /\ Push(Captured(read + 1))
    BY <1>6
  <2>2. Captured(read + 1) \in Lidars /\ Captured(read + 1) = Nth(LidarIn(read + 1))
    BY <1>2, <2>1, CapturedIs
  <2>3. LidarIn(read + 1) = LidarIn(read) + 1
    BY <1>2, <2>1, LidarInStep
  <2>4. Captured(read + 1) # Foreign
    BY <2>2, LidarsAre
  <2>. QED
    BY <1>5, <2>1, <2>2, <2>3, <2>4
<1>7. CASE ~lidar /\ Push(Foreign)
  BY <1>5, <1>7
<1>8. CASE ~lidar /\ UNCHANGED <<ringVars, pushed>>
  <2>1. LidarIn(read)' = LidarIn(read)
    <3>1. LidarIn(read) \in Nat
      BY <1>2, LidarInStep
    <3>. QED
      BY <1>4, <1>8, <3>1
  <2>2. pushed' = pushed
    BY <1>8
  <2>. QED
    BY <1>1, <1>3, <2>1, <2>2 DEF PcapInv, Nth, l
<1>. QED
  BY <1>6, <1>7, <1>8, FillIs DEF BasicInv

LEMMA ProcessOrders ==
  ASSUME BasicInv, PcapInv, Process, source = "pcap"
  PROVE  PcapInv'
<1>. PICK p : ProcessedAs(p)
  BY ProcessIs
<1>1. UNCHANGED <<source, pushed, exposed, arrived, read, capture>> /\ done' = done + 1
  BY DEF ProcessedAs, ringVars, readerVars
<1>2. LidarIn(read)' = LidarIn(read)
  BY <1>1 DEF LidarIn
<1>3. done \in Nat /\ Len(made) \in Nat /\ arrived \in Nat /\ Len(pushed) = arrived /\ got \in 0 .. arrived
  BY RingTypes DEF BasicInv, DoneInv, NodeInv
<1>4. /\ LidarsOf(pushed, Len(pushed)) = LidarIn(read)
      /\ \A j \in 1 .. Len(pushed) : pushed[j] # Foreign => pushed[j] = Nth(LidarsOf(pushed, j))
      /\ ~exposed => /\ Len(made) = LidarsOf(pushed, done)
                     /\ \A i \in 1 .. Len(made) : made[i].packet = Nth(i)
  BY DEF PcapInv
<1>5. ASSUME ~exposed
      PROVE  /\ Len(made') = LidarsOf(pushed, done + 1) /\ done + 1 <= Len(pushed)
             /\ \A i \in 1 .. Len(made') : made'[i].packet = Nth(i)
  <2>1. got = done + 1 /\ got \in 1 .. Len(pushed)
    BY <1>3, <1>5 DEF ProcessedAs
  <2>2. p = pushed[done + 1]
    BY <2>1 DEF ProcessedAs
  <2>3. LidarsOf(pushed, done + 1) = Len(made) + (IF p # Foreign THEN 1 ELSE 0)
    BY <1>3, <1>4, <1>5, <2>2, LidarsOfStep
  <2>4. CASE p = Foreign
    <3>1. made' = made
      BY <2>4 DEF ProcessedAs
    <3>. QED
      BY <1>3, <1>4, <1>5, <2>1, <2>3, <2>4, <3>1
  <2>5. CASE p # Foreign
    <3>1. LidarsOf(pushed, done + 1) = Len(made) + 1
      BY <2>3, <2>5
    <3>2. p = Nth(Len(made) + 1)
      BY <1>4, <2>1, <2>2, <2>5, <3>1
    <3>3. /\ Len(made') = Len(made) + 1 /\ made'[Len(made) + 1].packet = p
          /\ \A i \in 1 .. Len(made) : made'[i] = made[i]
      BY <2>5 DEF ProcessedAs
    <3>4. ASSUME NEW i \in 1 .. Len(made) + 1
          PROVE  made'[i].packet = Nth(i)
      <4>1. CASE i = Len(made) + 1
        BY <3>2, <3>3, <4>1
      <4>2. CASE i \in 1 .. Len(made)
        BY <1>4, <1>5, <3>3, <4>2
      <4>. QED
        BY <1>3, <4>1, <4>2
    <3>. QED
      BY <2>1, <3>1, <3>3, <3>4
  <2>. QED
    BY <2>4, <2>5
<1>. QED
  BY <1>1, <1>2, <1>4, <1>5 DEF PcapInv, Nth

LEMMA PcapInductive == Spec => []PcapInv
<1>1. Init => PcapInv
  <2>. SUFFICES ASSUME Init PROVE PcapInv
    OBVIOUS
  <2>1. read = 0 /\ done = 0 /\ Len(pushed) = 0 /\ Len(made) = 0
    BY DEF Init, ReaderInit
  <2>. QED
    BY <2>1, NoLidars DEF PcapInv
<1>2. BasicInv /\ PcapInv /\ [Next]_vars => PcapInv'
  <2>. SUFFICES ASSUME BasicInv, PcapInv, [Next]_vars PROVE PcapInv'
    OBVIOUS
  <2>0. exposed => exposed'
    BY ExposedStays DEF BasicInv
  <2>1. ASSUME UNCHANGED <<source, pushed, madeVars, read, capture>>
        PROVE  PcapInv'
    <3>1. LidarIn(read)' = LidarIn(read)
      BY <2>1 DEF LidarIn
    <3>. QED
      BY <2>0, <2>1, <3>1 DEF PcapInv, Nth, madeVars
  <2>2. CASE Play \/ ScanCallback \/ LoadFromScan
    BY <2>1, <2>2 DEF Play, ScanCallback, LoadFromScan, readerVars
  <2>3. CASE PushPacket
    <3>1. source' = source /\ source # "pcap"
      BY <2>3, PushTypes DEF PushPacket
    <3>. QED
      BY <3>1 DEF PcapInv
  <2>4. CASE ReadCapture
    BY <2>0, <2>4, CaptureOrders
  <2>5. CASE Process
    <3>1. CASE source = "pcap"
      BY <2>5, <3>1, ProcessOrders
    <3>2. CASE source # "pcap"
      BY <2>5, <3>2 DEF Process, PcapInv
    <3>. QED
      BY <3>1, <3>2
  <2>6. CASE Pacing
    <3>1. UNCHANGED <<source, pushed, madeVars, read, capture>>
      BY <2>6 DEF Pacing, EndOfFile, Pace, PauseEnds
    <3>. QED
      BY <2>1, <3>1
  <2>7. CASE Clock
    BY <2>1, <2>7 DEF Clock, Tick
  <2>8. CASE FinishPush
    <3>1. UNCHANGED <<source, pushed, madeVars, read, capture>>
      BY <2>8, FinishIs DEF readerVars
    <3>. QED
      BY <2>1, <3>1
  <2>9. CASE Take
    <3>1. UNCHANGED <<source, pushed, madeVars, read, capture>>
      BY <2>9, TakeIs DEF readerVars
    <3>. QED
      BY <2>1, <3>1
  <2>10. CASE UNCHANGED vars
    BY <2>1, <2>10 DEF vars, readerVars
  <2>. QED
    BY <2>2, <2>3, <2>4, <2>5, <2>6, <2>7, <2>8, <2>9, <2>10 DEF Next
<1>. QED
  BY <1>1, <1>2, BasicInductive, PTL DEF Spec

-----------------------------------------------------------------------------
(* What is processed.                                                        *)

\* Until the ring is exposed, what is processed of a bag is what was pushed, in
\* the same order.
MadeInv ==
  source = "rosbag" /\ ~exposed =>
    /\ Len(made) = done /\ done <= Len(pushed)
    /\ \A i \in 1 .. done : made[i].packet = pushed[i]

LEMMA ProcessMakes ==
  ASSUME BasicInv, MadeInv, Process, source = "rosbag", ~exposed
  PROVE  MadeInv'
<1>. PICK p : ProcessedAs(p)
  BY ProcessIs
<1>1. UNCHANGED <<source, pushed>> /\ done' = done + 1 /\ got = done + 1
  BY DEF ProcessedAs
<1>2. done \in Nat /\ Len(made) = done /\ \A i \in 1 .. done : made[i].packet = pushed[i]
  BY DEF BasicInv, DoneInv, MadeInv
<1>3. p = pushed[done + 1] /\ done + 1 \in 1 .. Len(pushed)
  BY <1>1, <1>2 DEF ProcessedAs
<1>4. p # Foreign
  <2>1. pushed \in Seq(Lidars)
    BY DEF BasicInv, BagInv
  <2>. QED
    BY <1>3, <2>1, LidarsAre
<1>5. /\ Len(made') = Len(made) + 1 /\ made'[Len(made) + 1].packet = p
      /\ \A i \in 1 .. Len(made) : made'[i] = made[i]
  BY <1>4 DEF ProcessedAs
<1>6. ASSUME NEW i \in 1 .. done + 1
      PROVE  made'[i].packet = pushed[i]
  <2>1. CASE i = done + 1
    BY <1>2, <1>3, <1>5, <2>1
  <2>2. CASE i \in 1 .. done
    BY <1>2, <1>5, <2>2
  <2>. QED
    BY <1>2, <2>1, <2>2
<1>7. Len(made') = done + 1 /\ done + 1 <= Len(pushed)
  BY <1>2, <1>3, <1>5
<1>. QED
  BY <1>1, <1>6, <1>7 DEF MadeInv

LEMMA MadeInductive == Spec => []MadeInv
<1>1. Init => MadeInv
  BY DEF Init, MadeInv
<1>2. BasicInv /\ MadeInv /\ [Next]_vars => MadeInv'
  <2>. SUFFICES ASSUME BasicInv, MadeInv, [Next]_vars, source' = "rosbag", ~exposed'
                PROVE  MadeInv'
    BY DEF MadeInv
  <2>1. ~exposed
    BY ExposedStays DEF BasicInv
  <2>2. ASSUME UNCHANGED <<source, pushed, madeVars>> PROVE MadeInv'
    BY <2>1, <2>2 DEF MadeInv, madeVars
  <2>3. CASE PushPacket
    <3>1. Push(Head(scan)) /\ UNCHANGED <<source, made, done>> /\ Head(scan) \in Lidars
      BY <2>3, PushTypes DEF PushPacket, madeVars
    <3>2. /\ Len(pushed') = Len(pushed) + 1 /\ Len(pushed) \in Nat
          /\ \A i \in 1 .. Len(pushed) : pushed'[i] = pushed[i]
      BY <3>1, PushIs
    <3>3. /\ Len(made) = done /\ done <= Len(pushed) /\ done \in Nat
          /\ \A i \in 1 .. done : made[i].packet = pushed[i]
      BY <2>1, <3>1 DEF MadeInv, BasicInv, DoneInv
    <3>4. done <= Len(pushed') /\ \A i \in 1 .. done : made[i].packet = pushed'[i]
      BY <3>2, <3>3
    <3>. QED
      BY <3>1, <3>3, <3>4 DEF MadeInv
  <2>4. CASE ReadCapture
    <3>1. source = "pcap" /\ source' = source
      BY <2>4, CaptureTypes
    <3>. QED
      BY <3>1
  <2>5. CASE Process
    <3>1. source = "rosbag"
      BY <2>5 DEF Process
    <3>. QED
      BY <2>1, <2>5, <3>1, ProcessMakes
  <2>6. CASE Play \/ ScanCallback \/ LoadFromScan \/ Pacing \/ Clock
    BY <2>2, <2>6 DEF Play, ScanCallback, LoadFromScan, Pacing, Clock
  <2>7. CASE FinishPush \/ Take \/ UNCHANGED vars
    BY <2>2, <2>7, FinishIs, TakeIs DEF vars
  <2>. QED
    BY <2>3, <2>4, <2>5, <2>6, <2>7 DEF Next
<1>. QED
  BY <1>1, <1>2, BasicInductive, PTL DEF Spec

\* Until the ring is exposed, what is processed goes on from packet to packet and
\* from the last of a scan to the first of a later one, of a capture to the first of
\* the next: when the node publishes no scans itself, the subscription forgets only
\* whole ones.
THEOREM ContinuousHolds ==
  ASSUME Republish = FALSE
  PROVE  Spec => []Continuous
<1>1. BasicInv /\ OrderInv /\ PcapInv /\ MadeInv => Continuous
  <2>. SUFFICES ASSUME BasicInv, OrderInv, PcapInv, MadeInv, ~exposed, NEW i \in 1 .. Len(made) - 1
                PROVE  \/ /\ made[i + 1].packet.scan = made[i].packet.scan
                          /\ made[i + 1].packet.place = made[i].packet.place + 1
                       \/ /\ made[i + 1].packet.scan > made[i].packet.scan
                          /\ made[i + 1].packet.place = 1 /\ made[i].packet.place = PerScan
                          /\ source = "pcap" => made[i + 1].packet.scan = made[i].packet.scan + 1
    BY DEF Continuous
  <2>1. Len(made) \in Nat /\ Len(pushed) \in Nat /\ done \in Nat
        /\ source \in {"rosbag", "pcap"}
    BY DEF BasicInv, NodeInv, DoneInv
  <2>2. i \in 1 .. Len(made) /\ i + 1 \in 1 .. Len(made) /\ i \in Nat \ {0}
    BY <2>1
  <2>3. CASE source = "rosbag"
    <3>1. /\ Len(made) = done /\ done <= Len(pushed)
          /\ \A j \in 1 .. done : made[j].packet = pushed[j]
      BY <2>3 DEF MadeInv
    <3>2. made[i].packet = pushed[i] /\ made[i + 1].packet = pushed[i + 1]
      BY <2>2, <3>1
    <3>3. Successive(pushed[i], pushed[i + 1])
      <4>1. i \in 1 .. Len(pushed) - 1
        BY <2>1, <3>1
      <4>. QED
        BY <2>3, <4>1 DEF OrderInv
    <3>. QED
      BY <2>3, <3>2, <3>3 DEF Successive
  <2>4. CASE source = "pcap"
    <3>1. made[i].packet = Nth(i) /\ made[i + 1].packet = Nth(i + 1)
      BY <2>2, <2>4 DEF PcapInv
    <3>. DEFINE p == Nth(i)
                q == Nth(i + 1)
    <3>2. /\ p \in Lidars
          /\ IF p.place = PerScan THEN q.scan = p.scan + 1 /\ q.place = 1
                                  ELSE q.scan = p.scan /\ q.place = p.place + 1
      BY <2>2, NthIs
    <3>3. p.scan \in Nat
      BY <3>2 DEF Lidars
    <3>. HIDE DEF p, q
    <3>4. made[i].packet = p /\ made[i + 1].packet = q
      BY <3>1 DEF p, q
    <3>. QED
      BY <3>2, <3>3, <3>4
  <2>. QED
    BY <2>1, <2>3, <2>4
<1>. QED
  BY <1>1, BasicInductive, OrderInductive, PcapInductive, MadeInductive, PTL

=============================================================================
