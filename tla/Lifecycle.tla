------------------------------ MODULE Lifecycle ------------------------------
(***************************************************************************)
(* Starting and stopping the driver: Start, Stop and the destructor of     *)
(* PandarGeneralSDK, PandarGeneral_Internal and PcapReader, the threads    *)
(* they create and join, and what the last of them does: one request to    *)
(* the lidar for its calibration (TcpClient), then the correction file     *)
(* (GetCalibrationFromDevice).                                             *)
(*                                                                         *)
(* One owner calls Start, Stop and the destructor, in any legal order.     *)
(* The k-th Start creates the k-th thread of each kind; a handle holds the *)
(* number of its thread, 0 for NULL.  A driver of a lidar fills the ring   *)
(* of packets from its receive thread, one of a capture (an empty one, for *)
(* a rosbag) from the thread of its PcapReader.                            *)
(***************************************************************************)
EXTENDS TcpClient

CONSTANT MaxStarts   \* bound on the calls of Start

ASSUME StartsAssumption == MaxStarts \in Nat \ {0} /\ Clients = 1 .. MaxStarts

VARIABLES
  source,      \* which constructor was called: "lidar" or "pcap"
  file,        \* lidar_correction_file: "absent", "rowless" or "rows"
  todo,        \* the steps left of the call under way, <<>> between calls
  called,      \* the last call: "none", "start", "stop" or "delete"
  starts,      \* calls of Start so far
  enableRecv,  \* enable_lidar_recv_thr_
  enableProc,  \* enable_lidar_process_thr_
  procThr,     \* lidar_process_thr_
  loop,        \* PcapReader.loop
  recvThr,     \* lidar_recv_thr_, or PcapReader.parse_thr_
  calibThr,    \* get_calibration_thr_
  proc, recv, calib,  \* where each thread of the three kinds is
  table,       \* where the correction in use comes from; "none" once a content
               \* without a row has left the angle vectors no row that was read
  gotFlag      \* got_lidar_correction_flag

flagVars == <<enableRecv, enableProc, loop>>
handleVars == <<procThr, recvThr, calibThr>>
threadVars == <<proc, recv, calib>>
callVars == <<source, file, called, starts>>
ownerVars == <<source, file, todo, called, starts, flagVars, handleVars>>
calibVars == <<table, gotFlag>>
vars == <<ownerVars, threadVars, tcpVars, calibVars>>

Ids == 1 .. MaxStarts
Lidar == source = "lidar"

Init ==
  /\ source \in {"lidar", "pcap"} /\ file \in {"absent", "rowless", "rows"} /\ TcpInit
  /\ todo = <<>> /\ called = "none" /\ starts = 0
  /\ enableRecv = FALSE /\ enableProc = FALSE /\ loop = FALSE
  /\ procThr = 0 /\ recvThr = 0 /\ calibThr = 0
  /\ proc = [k \in Ids |-> "none"] /\ recv = [k \in Ids |-> "none"]
  /\ calib = [k \in Ids |-> "none"]
  /\ table = "default" /\ gotFlag = FALSE

-----------------------------------------------------------------------------
(* The calls, as the steps each goes through. *)

\* PcapReader::stop
ReaderStop == IF Lidar THEN <<>> ELSE <<"clearLoop", "joinRecv">>

\* Mistake: the receive thread is forgotten.
ForgetsReceiver == <<"clear", "joinProc">> \o ReaderStop

\* PandarGeneral_Internal::Stop
InternalStop == <<"clear", "joinProc">> \o IF Lidar THEN <<"joinRecv">> ELSE ReaderStop

\* PandarGeneral_Internal::Start after its Stop; PcapReader::start stops again.
InternalStart ==
  <<"set", "createProc">> \o ReaderStop \o (IF Lidar THEN <<>> ELSE <<"setLoop">>)
    \o <<"createRecv">>

\* PandarGeneralSDK::Stop
SdkStop == InternalStop \o <<"joinCalib">>

\* Mistake: Start relies on the owner having called Stop.
StartWithoutStop == InternalStop \o InternalStart \o <<"createCalib">>

\* PandarGeneralSDK::Start, with PandarGeneral_Internal::Start inside it
SdkStart == SdkStop \o InternalStop \o InternalStart \o <<"createCalib">>

\* ~PandarGeneralSDK, with ~PandarGeneral_Internal and ~PcapReader inside it
SdkDelete == SdkStop \o InternalStop \o ReaderStop

Call(name, steps) ==
  /\ todo = <<>> /\ called # "delete"
  /\ todo' = steps /\ called' = name
  /\ UNCHANGED <<source, file, flagVars, handleVars, threadVars, tcpVars, calibVars>>

CallStart == starts < MaxStarts /\ starts' = starts + 1 /\ Call("start", SdkStart)
CallStop == UNCHANGED starts /\ Call("stop", SdkStop)
CallDelete == UNCHANGED starts /\ Call("delete", SdkDelete)

\* The owner takes the next step of the call under way.
Step(name) ==
  /\ todo # <<>> /\ Head(todo) = name /\ todo' = Tail(todo)
  /\ UNCHANGED <<callVars, calibVars>>

ClearFlags ==
  /\ Step("clear") /\ enableRecv' = FALSE /\ enableProc' = FALSE
  /\ UNCHANGED <<loop, handleVars, threadVars, tcpVars>>

ClearLoop ==
  /\ Step("clearLoop") /\ loop' = FALSE
  /\ UNCHANGED <<enableRecv, enableProc, handleVars, threadVars, tcpVars>>

\* A join of no thread returns at once.
Joined(handle, threads) == handle # 0 => threads[handle] = "ended"

JoinProc ==
  /\ Step("joinProc") /\ Joined(procThr, proc) /\ procThr' = 0
  /\ UNCHANGED <<flagVars, recvThr, calibThr, threadVars, tcpVars>>

JoinRecv ==
  /\ Step("joinRecv") /\ Joined(recvThr, recv) /\ recvThr' = 0
  /\ UNCHANGED <<flagVars, procThr, calibThr, threadVars, tcpVars>>

\* The handle of the calibration thread stays; joining it again returns at once.
JoinCalib ==
  /\ Step("joinCalib") /\ Joined(calibThr, calib)
  /\ UNCHANGED <<flagVars, handleVars, threadVars, tcpVars>>

SetFlags ==
  /\ Step("set") /\ enableRecv' = TRUE /\ enableProc' = TRUE
  /\ UNCHANGED <<loop, handleVars, threadVars, tcpVars>>

SetLoop ==
  /\ Step("setLoop") /\ loop' = TRUE
  /\ UNCHANGED <<enableRecv, enableProc, handleVars, threadVars, tcpVars>>

CreateProc ==
  /\ Step("createProc")
  /\ procThr' = starts /\ proc' = [proc EXCEPT ![starts] = "check"]
  /\ UNCHANGED <<flagVars, recvThr, calibThr, recv, calib, tcpVars>>

CreateRecv ==
  /\ Step("createRecv")
  /\ recvThr' = starts /\ recv' = [recv EXCEPT ![starts] = "check"]
  /\ UNCHANGED <<flagVars, procThr, calibThr, proc, calib, tcpVars>>

\* Without a lidar there is no client, and the thread returns at once.
CreateCalib ==
  /\ Step("createCalib")
  /\ calibThr' = starts
  /\ calib' = [calib EXCEPT ![starts] = IF Lidar THEN "request" ELSE "ended"]
  /\ IF Lidar THEN Place(starts, "request") ELSE UNCHANGED stage
  /\ UNCHANGED <<flagVars, procThr, recvThr, proc, recv, lock, sockets, connVars>>

Owner == \/ ClearFlags \/ ClearLoop \/ JoinProc \/ JoinRecv \/ JoinCalib
         \/ SetFlags \/ SetLoop \/ CreateProc \/ CreateRecv \/ CreateCalib

-----------------------------------------------------------------------------
(* The loops of the threads around the ring, around their flags. *)

ProcThread(k) ==
  /\ \/ proc[k] = "check" /\ proc' = [proc EXCEPT ![k] = IF enableProc THEN "work" ELSE "ended"]
     \/ proc[k] = "work" /\ proc' = [proc EXCEPT ![k] = "check"]
  /\ UNCHANGED <<ownerVars, recv, calib, tcpVars, calibVars>>

RecvEnabled == IF Lidar THEN enableRecv ELSE loop

\* getPacket returns within the second its poll may take, a pause of the reader
\* in the end.
RecvThread(k) ==
  /\ \/ recv[k] = "check" /\ recv' = [recv EXCEPT ![k] = IF RecvEnabled THEN "work" ELSE "ended"]
     \/ recv[k] = "work" /\ recv' = [recv EXCEPT ![k] = "check"]
  /\ UNCHANGED <<ownerVars, proc, calib, tcpVars, calibVars>>

\* The capture does not open, or is at its end.
ReaderEnds(k) ==
  /\ ~Lidar /\ recv[k] = "check"
  /\ recv' = [recv EXCEPT ![k] = "ended"]
  /\ UNCHANGED <<ownerVars, proc, calib, tcpVars, calibVars>>

-----------------------------------------------------------------------------
(* The calibration thread: TcpCommandGetLidarCalibration, then the file. *)

Request(k) ==
  /\ calib[k] = "request" /\ Client(k)
  /\ UNCHANGED <<ownerVars, threadVars, calibVars>>

\* LoadCorrectionFile never fails: a content whose first row cannot be read leaves
\* no row, returns 0, and counts as loaded.
Load(from, rows) ==
  /\ table' = IF rows THEN from ELSE "none"
  /\ gotFlag' = TRUE

\* Mistake: the correction from the device does not set the flag.
LoadWithoutFlag(k) ==
  /\ calib[k] = "request" /\ stage[k] = "answered"
  /\ table' = (IF answer.rows THEN "device" ELSE "none")
  /\ calib' = [calib EXCEPT ![k] = "file"]
  /\ UNCHANGED <<ownerVars, proc, recv, tcpVars, gotFlag>>

\* The whole answer with return code 0, however little it says.
LoadFromDevice(k) ==
  /\ calib[k] = "request" /\ stage[k] = "answered"
  /\ Load("device", answer.rows)
  /\ calib' = [calib EXCEPT ![k] = "file"]
  /\ UNCHANGED <<ownerVars, proc, recv, tcpVars>>

\* Mistake: without an answer the thread returns.
GiveUpAltogether(k) ==
  /\ calib[k] = "request" /\ stage[k] \in {"failed", "refused"}
  /\ calib' = [calib EXCEPT ![k] = "ended"]
  /\ UNCHANGED <<ownerVars, proc, recv, tcpVars, calibVars>>

\* No answer, or one with another return code.
GiveUpDevice(k) ==
  /\ calib[k] = "request" /\ stage[k] \in {"failed", "refused"}
  /\ calib' = [calib EXCEPT ![k] = "file"]
  /\ UNCHANGED <<ownerVars, proc, recv, tcpVars, calibVars>>

LoadFromFile(k) ==
  /\ calib[k] = "file"
  /\ IF ~gotFlag /\ file # "absent" THEN Load("file", file = "rows")
                                     ELSE UNCHANGED calibVars
  /\ calib' = [calib EXCEPT ![k] = "ended"]
  /\ UNCHANGED <<ownerVars, proc, recv, tcpVars>>

CalibThread(k) ==
  Request(k) \/ LoadFromDevice(k) \/ GiveUpDevice(k) \/ LoadFromFile(k)

\* The lidar answers, or closes the connection, or neither.
LidarAnswers == Device /\ UNCHANGED <<ownerVars, threadVars, calibVars>>

Next ==
  \/ CallStart \/ CallStop \/ CallDelete \/ Owner \/ LidarAnswers
  \/ \E k \in Ids : ProcThread(k) \/ RecvThread(k) \/ ReaderEnds(k) \/ CalibThread(k)

Spec == Init /\ [][Next]_vars

\* Every thread runs; only the owner's next call and the lidar's answer may
\* never come.
FairSpec ==
  /\ Spec
  /\ WF_vars(Owner)
  /\ \A k \in Ids : WF_vars(ProcThread(k)) /\ WF_vars(RecvThread(k))
                    /\ WF_vars(CalibThread(k))

-----------------------------------------------------------------------------
\* With rows in the file, only the device can have left none.
RowlessTaken == table = "none" /\ gotFlag

Busy == {"open", "write", "magic", "header", "payload"}

\* Besides the types: whoever holds the lock or a socket is in its request, so
\* every way out of tcpCommandClient_SendCmd gives both back.
TypeOK ==
  /\ source \in {"lidar", "pcap"}
  /\ todo \in Seq({"clear", "clearLoop", "joinProc", "joinRecv", "joinCalib", "set",
                   "setLoop", "createProc", "createRecv", "createCalib"})
  /\ called \in {"none", "start", "stop", "delete"}
  /\ starts \in 0 .. MaxStarts
  /\ {enableRecv, enableProc, loop, gotFlag} \subseteq BOOLEAN
  /\ {procThr, recvThr, calibThr, lock} \subseteq 0 .. MaxStarts
  /\ {proc, recv} \subseteq [Ids -> {"none", "check", "work", "ended"}]
  /\ calib \in [Ids -> {"none", "request", "file", "ended"}]
  /\ stage \in [Ids -> {"idle", "request", "answered", "refused", "failed"} \cup Busy]
  /\ sockets \subseteq {lock} /\ (lock # 0 => stage[lock] \in Busy)
  /\ answer \in Answers /\ line \in {"up", "closed", "reset"}
  /\ sent \in 0 .. Magic + Header + answer.len /\ taken \in 0 .. sent
  /\ data \in Seq(Nat)
  /\ file \in {"absent", "rowless", "rows"} /\ table \in {"default", "device", "file", "none"}

Alive(threads) == {k \in Ids : threads[k] \notin {"none", "ended"}}

\* However Start and Stop follow one another, the ring of packets has one
\* producer and one consumer, and one thread loads the correction.
OneOfEach ==
  \A k, l \in Ids :
    \/ k = l
    \/ /\ ~({k, l} \subseteq Alive(proc)) /\ ~({k, l} \subseteq Alive(recv))
       /\ ~({k, l} \subseteq Alive(calib))

\* When Stop or the destructor has returned no thread is left that could use
\* the ring, the tables or the object itself.
QuietAfterStop ==
  todo = <<>> /\ called \in {"stop", "delete"} =>
    Alive(proc) \cup Alive(recv) \cup Alive(calib) = {}

\* The correction taken from the lidar is what the lidar sent after its header,
\* every byte in its place, however TCP cut it up and whatever the memory it is
\* read into held before.
ContentWhole ==
  \A k \in Ids :
    stage[k] = "answered" /\ calib[k] = "request" =>
      /\ answer.magic /\ answer.code = 0
      /\ data = [i \in 1 .. answer.len |-> Magic + Header + i]

\* The file stands in for the device: what was read from the lidar is never replaced
\* by the file's correction, not even by a later Start whose request fails, nor when
\* a later answer without a row has emptied the tables.
DeviceOverFile == [][table' = "file" => table \notin {"device", "none"}]_vars

\* A call of Start, Stop or the destructor returns, unless the calibration thread
\* waits for a lidar that neither answers nor closes the connection.
CallsReturn == (todo # <<>>) ~> (todo = <<>> \/ []Silent)

\* Once Start has created the thread and the file holds a correction, one is in use
\* in the end, whatever the lidar answers, unless it goes silent, or answers with
\* return code 0 and a content without a row: that counts as a correction, and leaves
\* none.
CorrectionLoaded ==
  \A k \in Ids :
    (calib[k] # "none" /\ Lidar /\ file = "rows") ~>
      (table \in {"device", "file"} \/ RowlessTaken \/ []Silent)

\* The README of the driver: the file "will be used when not able to get calibration
\* file from a connected" lidar. It is not after an answer without a row.
FileStandsIn ==
  \A k \in Ids : calib[k] = "ended" /\ Lidar /\ file = "rows" => table \in {"device", "file"}

=============================================================================
