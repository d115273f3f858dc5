------------------------------ MODULE Receiver -------------------------------
(***************************************************************************)
(* The receive thread (RecvTask) and the two UDP sockets it polls          *)
(* (Input::getPacket).  With two sockets the GPS one is looked at first    *)
(* and one datagram is read per poll; with one socket the size of a        *)
(* datagram tells GPS from lidar.  Both binds of the constructor succeed.  *)
(*                                                                         *)
(* The sockets do not block.  A datagram whose checksum is wrong makes     *)
(* poll report its socket and is thrown away by recvfrom, which goes on to *)
(* the next one and fails with EWOULDBLOCK when there is none.  A poll     *)
(* that times out or is interrupted changes nothing here.                  *)
(***************************************************************************)
EXTENDS Integers, SequencesExt

CONSTANTS
  QueueSize,   \* datagrams a socket holds before it drops the next
  GpsPause,    \* reads between two datagrams of the GPS, unless all is idle
  MaxLidar,    \* bound on the lidar's datagrams
  MaxBad       \* bound on the datagrams with a wrong checksum

ASSUME SocketAssumption == QueueSize \in Nat \ {0}
ASSUME TrafficAssumption == GpsPause \in Nat /\ MaxLidar \in Nat /\ MaxBad \in Nat

\* A datagram is a number: those of the lidar count from 1.
Lidar == 1 .. MaxLidar
Nothing == 0
Gps == -1
Bad == -2

VARIABLES
  samePort,    \* is gps_port the lidar's port?
  lidarSock, gpsSock,  \* what the sockets hold: datagrams, oldest first
  sent,        \* lidar datagrams sent so far
  bad,         \* datagrams with a wrong checksum sent so far
  pause,       \* reads still to come before the GPS sends again
  taken,       \* the lidar datagrams a socket took
  from,        \* the socket poll found readable, or "none" before the poll
  pushed       \* what was handed to PushLiDARData, Nothing for a failed read

netVars == <<samePort, lidarSock, gpsSock, sent, bad, pause, taken>>
vars == <<samePort, lidarSock, gpsSock, sent, bad, pause, taken, from, pushed>>

Init ==
  /\ samePort \in BOOLEAN
  /\ lidarSock = <<>> /\ gpsSock = <<>>
  /\ sent = 0 /\ bad = 0 /\ pause = 0 /\ taken = {}
  /\ from = "none" /\ pushed = <<>>

-----------------------------------------------------------------------------
(* The network. *)

SendLidar ==
  /\ sent < MaxLidar
  /\ sent' = sent + 1
  /\ IF Len(lidarSock) < QueueSize
       THEN /\ lidarSock' = Append(lidarSock, sent + 1)
            /\ taken' = taken \cup {sent + 1}
       ELSE UNCHANGED <<lidarSock, taken>>
  /\ UNCHANGED <<samePort, gpsSock, bad, pause, from, pushed>>

SendBad ==
  /\ bad < MaxBad /\ Len(lidarSock) < QueueSize
  /\ bad' = bad + 1
  /\ lidarSock' = Append(lidarSock, Bad)
  /\ UNCHANGED <<samePort, gpsSock, sent, pause, taken, from, pushed>>

SendGps ==
  /\ pause = 0 \/ (lidarSock = <<>> /\ gpsSock = <<>>)
  /\ pause' = GpsPause
  /\ LET to(sock) == IF Len(sock) < QueueSize THEN Append(sock, Gps) ELSE sock
     IN  IF samePort THEN lidarSock' = to(lidarSock) /\ UNCHANGED gpsSock
                     ELSE gpsSock' = to(gpsSock) /\ UNCHANGED lidarSock
  /\ UNCHANGED <<samePort, sent, bad, taken, from, pushed>>

-----------------------------------------------------------------------------
(* The receive thread. *)

\* Mistake: only the first of the sockets poll was given is looked at.
PollFirst ==
  /\ from = "none"
  /\ IF samePort THEN lidarSock # <<>> ELSE gpsSock # <<>>
  /\ from' = IF samePort THEN "lidar" ELSE "gps"
  /\ UNCHANGED <<netVars, pushed>>

\* Mistake: the lidar's socket is read whichever is readable.
PollSecond ==
  /\ from = "none"
  /\ lidarSock # <<>> \/ gpsSock # <<>>
  /\ from' = "lidar"
  /\ UNCHANGED <<netVars, pushed>>

\* The first readable socket, the GPS one before the lidar one.
Poll ==
  /\ from = "none"
  /\ lidarSock # <<>> \/ gpsSock # <<>>
  /\ from' = IF gpsSock # <<>> THEN "gps" ELSE "lidar"
  /\ UNCHANGED <<netVars, pushed>>

\* What recvfrom finds: the datagrams with a wrong checksum are gone.
Good(sock) ==
  LET first == SelectInSeq(sock, LAMBDA d : d # Bad)
  IN  IF first = 0 THEN <<>> ELSE SubSeq(sock, first, Len(sock))

Received(sock) == IF Good(sock) = <<>> THEN Nothing ELSE Head(Good(sock))

\* Mistakes: a GPS datagram goes to the ring as well; a packet is copied into
\* the ring's order from the wrong end.
DispatchBoth(d) == pushed' = Append(pushed, IF d = Gps THEN Nothing ELSE d)

DispatchFront(d) == pushed' = IF d = Gps THEN pushed ELSE <<d>> \o pushed

\* RecvTask: by size. A read that failed with EWOULDBLOCK has size 2^32 - 1 and
\* counts as a lidar packet.
Dispatch(d) == pushed' = IF d = Gps THEN pushed ELSE Append(pushed, d)

Receive ==
  /\ from # "none"
  /\ IF from = "gps"
       THEN /\ gpsSock' = Tail(gpsSock)
            /\ Dispatch(Received(gpsSock)) /\ UNCHANGED lidarSock
       ELSE /\ lidarSock' = IF Good(lidarSock) = <<>> THEN <<>> ELSE Tail(Good(lidarSock))
            /\ Dispatch(Received(lidarSock)) /\ UNCHANGED gpsSock
  /\ pause' = IF pause > 0 THEN pause - 1 ELSE 0
  /\ from' = "none"
  /\ UNCHANGED <<samePort, sent, bad, taken>>

Next == SendLidar \/ SendBad \/ SendGps \/ Poll \/ Receive

\* The thread runs at real-time priority and never waits while a socket is
\* readable; nothing is assumed of the network.
Spec == Init /\ [][Next]_vars /\ WF_vars(Poll \/ Receive)

-----------------------------------------------------------------------------
\* The sockets stay within what they hold, poll reports a socket that has a
\* datagram, and a failed read is the trace of a datagram thrown away.
TypeOK ==
  /\ samePort \in BOOLEAN
  /\ lidarSock \in BoundedSeq(Lidar \cup {Gps, Bad}, QueueSize)
  /\ gpsSock \in BoundedSeq({Gps}, QueueSize)
  /\ samePort => gpsSock = <<>>
  /\ sent \in 0 .. MaxLidar /\ bad \in 0 .. MaxBad /\ pause \in 0 .. GpsPause
  /\ taken \in SUBSET Lidar /\ pushed \in Seq(Lidar \cup {Nothing})
  /\ from \in {"none", "lidar", "gps"}
  /\ from = "lidar" => lidarSock # <<>>
  /\ from = "gps" => gpsSock # <<>>

\* The lidar datagrams handed on, followed by those still in the socket, are
\* the ones the socket took, each once and in the order sent: choosing between
\* two sockets and by size loses, repeats and reorders none, whatever the GPS
\* and the datagrams thrown away do.
PushedInOrder ==
  LET all == pushed \o lidarSock
  IN  /\ {d \in Lidar : \E i \in DOMAIN all : all[i] = d} = taken
      /\ \A i, j \in DOMAIN all : i < j /\ all[j] \in Lidar => all[i] < all[j]

\* How often d is in the sequence s.
Count(s, d) == Cardinality({i \in DOMAIN s : s[i] = d})

\* A failed read is handed on as a packet at most once for each datagram with
\* a wrong checksum: GPS datagrams never reach the ring, not even as garbage.
GarbageOnlyFromBad == Count(pushed, Nothing) <= bad

\* Although the GPS socket is always looked at first, every lidar datagram is
\* handed on, provided two GPS datagrams are more than one read apart (the lidar
\* sends 1800 datagrams a second, a GPS one).
LidarServed ==
  \A d \in Lidar : Contains(lidarSock, d) ~> Contains(pushed, d)
=============================================================================
