----------------------------- MODULE PcapReader ------------------------------
(***************************************************************************)
(* PcapReader::parsePcap: the datagrams of a capture are handed to the     *)
(* driver one after the other, and every Gap of them the thread pauses     *)
(* until as much time has passed as the lidar's own clock says.            *)
(*                                                                         *)
(* The time is read at fixed places of the datagram, whatever it is.       *)
(* libpcap reuses one buffer: a datagram shorter than those places, as a   *)
(* GPS one is, leaves there the time of a packet before it; a longer one   *)
(* that is no packet of the lidar leaves other bytes.                      *)
(***************************************************************************)
EXTENDS Integers, Sequences

CONSTANTS
  Captures,   \* sequences of [kind, time]; see CaptureAssumption
  GapCount,   \* gap: 100
  Garbage,    \* times that other bytes may amount to
  Counts,     \* what the memory of count may hold before anything assigns it
  MaxNow      \* bound on the clock

ASSUME CaptureAssumption ==
  /\ \A c \in Captures : c \in Seq([kind : {"lidar", "short", "long"}, time : Nat \ {0}])
  /\ GapCount \in Nat \ {0} /\ Garbage \subseteq Int /\ Counts \subseteq Int /\ MaxNow \in Nat

VARIABLES
  now,       \* gettimeofday
  capture,   \* the datagrams of the file
  indexed,   \* is lidar_type one whose places of the time are known?
  reader,    \* "next", "pace", "pause" or "ended"
  read,      \* datagrams read so far
  stamp,     \* the time at the fixed places of libpcap's buffer
  count, lastPkt, lastTime,  \* count, last_pkt_ts, last_time
  wake,      \* when the pause is over
  due,       \* for the properties: when the last checkpoint was recorded, on the
             \* clock set by the first; NoDue before it
  astray     \* for the properties: has a pause been computed from other bytes?

readerVars == <<now, capture, indexed, reader, read, stamp, count, lastPkt, lastTime, wake,
                due, astray>>

NoDue == [time |-> 0, offset |-> 0, set |-> FALSE]

\* Without a file the thread ends at once, and what the rest holds is no matter.
ReaderInit(works) ==
  /\ IF works
       THEN /\ reader = "next" /\ capture \in Captures /\ indexed \in BOOLEAN
            /\ stamp \in Garbage /\ count \in Counts
       ELSE reader = "ended" /\ capture = <<>> /\ indexed = FALSE /\ stamp = 0 /\ count = 0
  /\ now = 0 /\ read = 0 /\ lastPkt = 0 /\ lastTime = 0 /\ wake = 0
  /\ due = NoDue /\ astray = FALSE

Tick ==
  /\ now < MaxNow /\ now' = now + 1
  /\ UNCHANGED <<capture, indexed, reader, read, stamp, count, lastPkt, lastTime, wake,
                 due, astray>>

\* The datagram pcap_next_ex returns.
Datagram == capture[read + 1]

\* The time is honest when it is that of the packet read last.
Honest == \E i \in 1 .. read : /\ capture[i].kind = "lidar" /\ stamp = capture[i].time
                               /\ \A j \in i + 1 .. read : capture[j].kind = "short"

\* The callback is the caller's conjunct.
NextPacket ==
  /\ reader = "next" /\ read < Len(capture)
  /\ read' = read + 1
  /\ CASE Datagram.kind = "lidar" -> stamp' = Datagram.time
       [] Datagram.kind = "short" -> UNCHANGED stamp
       [] Datagram.kind = "long" -> stamp' \in Garbage
  /\ IF count + 1 >= GapCount /\ indexed
       THEN reader' = "pace" /\ count' = 0
       ELSE reader' = "next" /\ count' = count + 1
  /\ UNCHANGED <<now, capture, indexed, lastPkt, lastTime, wake, due, astray>>

EndOfFile ==
  /\ reader = "next" /\ read = Len(capture)
  /\ reader' = "ended"
  /\ UNCHANGED <<now, capture, indexed, read, stamp, count, lastPkt, lastTime, wake,
                 due, astray>>

\* Mistake: the time of the pause is not added.
TimeWithoutSleep(sleepTime) == now

\* last_time = current_time; last_time += sleep_time: when the checkpoint was due,
\* whether the reader is early or late.
TimeAfter(sleepTime) == now + sleepTime

SleepTime == (stamp - lastPkt) - (now - lastTime)

\* A checkpoint. A last_pkt_ts of 0 stands for none.
Pace ==
  /\ reader = "pace"
  /\ lastPkt' = stamp
  /\ IF lastPkt = 0
       THEN lastTime' = now /\ reader' = "next" /\ UNCHANGED wake
       ELSE /\ lastTime' = TimeAfter(SleepTime)
            /\ reader' = (IF SleepTime > 0 THEN "pause" ELSE "next")
            /\ wake' = now + SleepTime
  /\ astray' = (astray \/ ~Honest)
  /\ due' = IF due.set THEN [due EXCEPT !.time = stamp + due.offset]
                       ELSE [time |-> now, offset |-> now - stamp, set |-> TRUE]
  /\ UNCHANGED <<now, capture, indexed, read, stamp, count>>

\* select never returns before its time. A signal would end it; the processes that
\* run the driver handle theirs on another thread.
PauseEnds ==
  /\ reader = "pause" /\ now >= wake
  /\ reader' = "next"
  /\ UNCHANGED <<now, capture, indexed, read, stamp, count, lastPkt, lastTime, wake,
                 due, astray>>

ReaderType ==
  /\ now \in 0 .. MaxNow /\ capture \in Captures \cup {<<>>} /\ indexed \in BOOLEAN
  /\ reader \in {"next", "pace", "pause", "ended"}
  /\ read \in 0 .. Len(capture)
  /\ {stamp, lastPkt, lastTime, wake} \subseteq Int /\ count \in Int /\ astray \in BOOLEAN
=============================================================================
