------------------------------- MODULE Replay --------------------------------
(***************************************************************************)
(* The node replaying what was recorded, as timer_callback sets it up.     *)
(*                                                                         *)
(* A rosbag (data_type "rosbag"): the player publishes the recorded scans  *)
(* on pandar_packets, the subscription keeps the last of them, and         *)
(* scanCallback hands each packet to PushScanPacket on the node's thread.  *)
(* A capture (pcap_file): the thread of PcapReader hands each datagram to  *)
(* FillPacket.  Either way the process thread computes points with         *)
(* whatever angles are loaded at that moment.                              *)
(*                                                                         *)
(* Between the two threads is the ring of PacketsBuffer, step by step, in  *)
(* which a packet is the number it was handed to push_back with.  A scan   *)
(* is what the driver recorded: the packets of a frame, the last of which  *)
(* ends it, and the correction saved with it.  A load is one step here;    *)
(* Correction is about its rows.                                           *)
(***************************************************************************)
EXTENDS PcapReader, SequencesExt

CONSTANTS
  Scans,       \* scans in the bag
  PerScan,     \* packets in a scan, without the correction
  Depth,       \* how many scans the subscription keeps
  Republish,   \* is publish_type "raw" or "both"?
  FileExists,  \* can lidar_correction_file be opened?
  Broken,      \* the scans whose correction has the wrong length
  N, Window, MaxArrived, MaxTaken  \* the ring and its bounds, see PacketsBuffer

ASSUME BagAssumption ==
  /\ Scans \in Nat /\ PerScan \in Nat \ {0} /\ Depth \in Nat \ {0}
  /\ Republish \in BOOLEAN /\ FileExists \in BOOLEAN /\ Broken \subseteq 1 .. Scans
ASSUME RingAssumption ==
  /\ N \in Nat /\ Window \in Nat /\ 0 < Window /\ 2 * Window <= N
  /\ MaxArrived \in Nat /\ MaxTaken \in Nat

VARIABLES
  source,     \* what is replayed: "rosbag" or "pcap"
  played,     \* scans published by the player
  topic,      \* the scans the subscription holds
  scan,       \* what PushScanPacket still has to go through
  flag,       \* got_lidar_correction_flag
  angles,     \* where the angles are from: "default", "bag" or "file"
  push, calc, startFlag, slot, ppc, cpc, arrived, refused, copy, taken, got, exposed,
              \* the ring, see PacketsBuffer
  pushed,     \* the packets handed to push_back, in order
  done,       \* how many of those taken from the ring are processed
  raw,        \* scan->packets of the process thread
  made        \* the packets processed, with the angles they met

Ring == INSTANCE PacketsBuffer

bagVars == <<played, topic, scan, flag, angles>>
ringVars == <<push, calc, startFlag, slot, ppc, cpc, arrived, refused, copy, taken, got, exposed>>
madeVars == <<done, raw, made>>
vars == <<source, bagVars, ringVars, pushed, madeVars, readerVars>>

\* A packet is the scan it was recorded in and its place there, 0 for the
\* correction; scan 0 has the corrections this node saves.  Foreign is a datagram
\* of a capture that is no packet of the lidar.
Packet(k, n) == [scan |-> k, place |-> n]
Foreign == [scan |-> 0, place |-> -1]
BagScan(k) == [n \in 1 .. PerScan + 1 |-> Packet(k, IF n > PerScan THEN 0 ELSE n)]

\* The pcap branch loads the file before Start and leaves the flag alone; it
\* subscribes to nothing. The rosbag branch starts a reader of no file.
Init ==
  /\ source \in {"rosbag", "pcap"} /\ ReaderInit(source = "pcap")
  /\ played = 0 /\ topic = <<>> /\ scan = <<>>
  /\ flag = FALSE
  /\ angles = (IF source = "pcap" /\ FileExists THEN "file" ELSE "default")
  /\ Ring!Init /\ pushed = <<>> /\ done = 0 /\ raw = <<>> /\ made = <<>>

-----------------------------------------------------------------------------
\* Mistake: the subscription keeps every scan.
KeptAll(s) == Append(topic, s)
\* Keep last: a full subscription forgets its oldest scan.
Kept(s) == IF Len(topic) < Depth THEN Append(topic, s) ELSE Append(Tail(topic), s)

Play ==
  /\ source = "rosbag" /\ played < Scans
  /\ played' = played + 1
  /\ topic' = Kept(BagScan(played + 1))
  /\ UNCHANGED <<source, scan, flag, angles, ringVars, pushed, madeVars, readerVars>>

ScanCallback ==
  /\ scan = <<>> /\ topic # <<>> /\ ppc = "idle"
  /\ scan' = Head(topic) /\ topic' = Tail(topic)
  /\ UNCHANGED <<source, played, flag, angles, ringVars, pushed, madeVars, readerVars>>

\* push_back is entered; the thread is in it until ppc is "idle" again.
Push(packet) ==
  /\ ppc = "idle" /\ Ring!Producer
  /\ pushed' = Append(pushed, packet)

FinishPush ==
  /\ ppc # "idle" /\ Ring!Producer
  /\ UNCHANGED <<source, bagVars, pushed, madeVars, readerVars>>

PushPacket ==
  /\ scan # <<>> /\ Head(scan).place > 0
  /\ Push(Head(scan))
  /\ scan' = Tail(scan)
  /\ UNCHANGED <<source, played, topic, flag, angles, madeVars, readerVars>>

\* Mistake: only a load from the bag sets the flag.
FlagAfterBag(intact) == flag \/ intact
\* Set by a load from the bag, and by the fallback whether or not it finds a file.
FlagAfter(intact) == TRUE

\* A correction counts once; one of the wrong length is replaced by the file.
LoadFromScan ==
  /\ scan # <<>> /\ Head(scan).place = 0 /\ ppc = "idle"
  /\ scan' = Tail(scan)
  /\ IF flag THEN UNCHANGED <<flag, angles>>
     ELSE LET intact == Head(scan).scan \notin Broken
          IN  /\ angles' = CASE intact -> "bag"
                             [] ~intact /\ FileExists -> "file"
                             [] OTHER -> angles
              /\ flag' = FlagAfter(intact)
  /\ UNCHANGED <<source, played, topic, ringVars, pushed, madeVars, readerVars>>

\* The lidar packets of a capture make scans of PerScan as the recorded ones do.
Captured(n) ==
  LET nth == Cardinality({i \in 1 .. n : capture[i].kind = "lidar"}) - 1
  IN  Packet((nth \div PerScan) + 1, (nth % PerScan) + 1)

\* FillPacket: a datagram of the size of a GPS one goes no further.
FillPacket ==
  CASE Datagram.kind = "lidar" -> Push(Captured(read + 1))
    [] Datagram.kind = "long" -> Push(Foreign)
    [] Datagram.kind = "short" -> UNCHANGED <<ringVars, pushed>>

ReadCapture ==
  /\ ppc = "idle" /\ NextPacket /\ FillPacket
  /\ UNCHANGED <<source, bagVars, madeVars>>

Pacing ==
  /\ ppc = "idle" /\ (EndOfFile \/ Pace \/ PauseEnds)
  /\ UNCHANGED <<source, bagVars, ringVars, pushed, madeVars>>

Clock ==
  /\ reader # "ended" /\ Tick
  /\ UNCHANGED <<source, bagVars, ringVars, pushed, madeVars>>

\* The process thread polls and takes the next packet when the last one is processed.
Take ==
  /\ cpc = "poll" => done = taken
  /\ Ring!Consumer
  /\ UNCHANGED <<source, bagVars, pushed, madeVars, readerVars>>

\* Mistake: raw scans are published whatever publish_type says.
RepublishesAlways == TRUE
\* On a topic that only the rosbag branch subscribes to.
Republishes == Republish

\* A slot nothing was stored in has a packet of size 0, which is none of the lidar's.
Taken == IF got = 0 THEN Foreign ELSE pushed[got]

Process ==
  /\ done < taken /\ cpc = "poll"
  /\ done' = done + 1
  /\ LET packet == Taken
         ends == packet.place = PerScan
     IN  IF packet = Foreign THEN UNCHANGED <<topic, raw, made>>
         ELSE /\ made' = Append(made, [packet |-> packet, angles |-> angles])
              /\ raw' = IF ends THEN <<>> ELSE Append(raw, packet)
              /\ topic' = IF ends /\ Republishes /\ source = "rosbag"
                            THEN Kept(Append(raw, packet) \o <<Packet(0, 0)>>) ELSE topic
  /\ UNCHANGED <<source, played, scan, flag, angles, ringVars, pushed, readerVars>>

\* A push past the array is undefined, and the model stops there.
Next ==
  /\ ppc # "undefined"
  /\ \/ Play \/ ScanCallback \/ PushPacket \/ LoadFromScan
     \/ ReadCapture \/ Pacing \/ Clock \/ FinishPush \/ Take \/ Process

\* A push that is begun is finished, and the process thread polls again every
\* millisecond; the player, the executor and the reader may stop.
Spec ==
  /\ Init /\ [][Next]_vars
  /\ WF_vars(FinishPush) /\ WF_vars(Take \/ Process)

-----------------------------------------------------------------------------
\* The queues hold scans and packets of the recording.
TypeOK ==
  /\ source \in {"rosbag", "pcap"} /\ ReaderType
  /\ played \in 0 .. Scans
  /\ Len(topic) <= Depth
  /\ flag \in BOOLEAN /\ angles \in {"default", "bag", "file"}
  /\ Ring!TypeOK /\ Len(pushed) = arrived /\ got <= arrived
  /\ done \in {taken - 1, taken} /\ Len(made) <= done
  /\ \A i \in DOMAIN pushed :
       \/ pushed[i].scan >= 1 /\ pushed[i].place \in 1 .. PerScan
       \/ pushed[i] = Foreign

\* Until the ring is exposed, with publish_type "points" each recorded packet is
\* processed at most once and in the order of the recording, and when the subscription
\* forgets scans, it forgets whole scans: the node never hears itself.  Of a capture
\* nothing is forgotten.
Continuous ==
  ~exposed =>
    \A i \in 1 .. Len(made) - 1 :
      LET p == made[i].packet
          q == made[i + 1].packet
      IN  \/ q.scan = p.scan /\ q.place = p.place + 1
          \/ /\ q.scan > p.scan /\ q.place = 1 /\ p.place = PerScan
             /\ source = "pcap" => q.scan = p.scan + 1

\* The correction comes at the end of its scan and is loaded by another thread
\* than the one that computes, yet only packets of the first scan received can
\* meet the angles of Init: all later ones meet what that scan's correction, or
\* the file in its place, left, whatever the ring loses or repeats.  All packets of
\* a capture meet the file's.
SettledAngles ==
  \A i \in DOMAIN made :
    LET first == pushed[1].scan
    IN  /\ source = "rosbag" /\ made[i].packet.scan > first =>
             made[i].angles = CASE first \notin Broken -> "bag"
                                [] first \in Broken /\ FileExists -> "file"
                                [] OTHER -> "default"
        /\ source = "pcap" =>
             made[i].angles = IF FileExists THEN "file" ELSE "default"

\* However late the reader is now and then, its pauses keep to the lidar's clock:
\* after a checkpoint no datagram is handed over before that checkpoint was due
\* since the first, and no pause goes beyond.  GPS datagrams do not disturb it; only
\* a checkpoint on a longer foreign datagram does.
OnSchedule ==
  /\ [](reader = "pause" /\ ~astray => wake = due.time)
  /\ [][read' # read /\ due.set /\ ~astray => now >= due.time]_vars

\* In a ring that is never exposed, every packet pushed is processed once it has a
\* successor, unless more than Window of them stay unread.
AllButNewestProcessed ==
  []~exposed /\ <>[](arrived - taken <= Window) =>
    \A n \in 1 .. MaxTaken : (arrived > n) ~> (done >= n)
=============================================================================
