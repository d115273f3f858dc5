# Verification of the Go2 lidar driver

TLA+ models, TLC runs and TLAPS proofs about the sensor setup of this
repository, above all about the lidar driver it builds:
`go2_sensors_docker/hesai_lidar_src`, a ROS 2 node around Hesai's
`HesaiLidar_General_SDK`. The driver is where this repository keeps its state
and its threads; the rest is scripts, configuration and documentation.

Short names below: `internal.cc` and `internal.h` are `pandarGeneral_internal.*`
and, like `input.cc` and `pcap_reader.cpp`, lie in
`HesaiLidar_General_SDK/src/PandarGeneralRaw/src`; `sdk.cc` is
`HesaiLidar_General_SDK/src/pandarGeneral_sdk.cc`.

## 1. The system

```
 lidar --UDP--> Input::getPacket --> RecvTask --push_back--> PacketsBuffer
                (lidar, GPS)         (thread 1)                   |
 pcap file ---> PcapReader::parsePcap ---------push_back--------->|
 pandar_packets (ROS) --> PushScanPacket ------push_back--------->|
                              | correction                        v
 lidar --TCP--> GetCalibrationFromDevice --> LoadCorrectionFile   ProcessLiarPacket
 file ------------^   (thread 3)                   |              (thread 2)
                                                   +--> angles -->|
                              rslidar_points, pandar_packets <----+

 PC: launch_all_sensors_docker.sh --ssh--> docker compose --> container: start.sh
     trap: cleanup                         restart policy     camera and lidar driver
```

Exactly one of the three sources feeds the ring, chosen in `timer_callback` of
`main_ros2.cc`. Nothing but the join of a thread and the mutex of the TCP client
synchronises these threads: the ring, the flags, the angles and
`got_lidar_correction_flag` are shared without a lock.

| Component | State | Operations | What makes it correct |
|---|---|---|---|
| Packet ring (`internal.h:272-316`) | 36000 slots, two iterators, `m_startFlag` | `push_back`, `hasEnoughPackets`, `getIterCalc`, `moveIterCalc` | first in, first out; no packet torn, lost, repeated or refused; the consumer is not left behind |
| Frame splitting (`internal.cc:759-1000`, `1882-1906`) | `last_azimuth_`, the static point buffers, the raw scan | one pass per block: compare, emit, compute | one frame per turn; every point and raw packet published once; the raw scan covers the frame |
| Lifecycle (`sdk.cc`, `internal.cc:678-715`) | two flags, three thread handles, `got_lidar_correction_flag`, the TCP lock | `Start`, `Stop`, destructors, three threads | one thread of each kind; none after `Stop`; every call returns; device before file |
| UDP receiver (`input.cc`, `internal.cc:717-747`) | two sockets | `getPacket`, dispatch by size | lidar packets in order, none starved, nothing else in the ring |
| Parsers and point times (`internal.cc:201-516`, `1026-1880`, headers) | offset tables | parse, time of a point | stays in the packet; every table cell read was written; firings in order |
| Correction (`internal.cc:617-668`) | four tables of angles | load row by row; read per point; save per frame | no angle nobody wrote; one source per point |
| Rosbag replay (`main_ros2.cc:102-106`, `internal.cc:1908-1972`) | subscription, correction flag | scan callback, correction at the end of a scan, republishing | the bag's stream; settled angles |
| Pcap reader (`pcap_reader.cpp`) | file position, libpcap's buffer, `count`, `last_time`, the pause | parse and pace, `start`, `stop` | same byte positions as the parser; pauses that keep to the lidar's clock |
| TCP client (`tcp_command_client.c`, `util.c`) | lock, socket, what was read | open, write, read in pieces, error paths | the whole answer or none; lock and socket given back on each path |
| ROS 2 node (`main_ros2.cc`) | publishers, subscription, `hsdk` | timer (three sources), callbacks, stop message | never hears itself; comes back after `exit(0)` |
| Launcher and container (`launch_all_sensors_docker.sh`, `start.sh`, `docker-compose.yml`) | where the script is, its ssh, the container and its two drivers | start, wait, RViz2, cleanup, Ctrl+C; `wait -n`, restart | nothing left running after the launcher; drivers come back |
| GPS parsing, other scripts, relay, ROS 1 variants | none | | see section 7 |

The hard behaviours: an unlocked ring between two threads; angles rewritten
while they are read; lost and late packets and their effect on frames; stop and
restart with static buffers; a device that does not answer; one datagram per
poll from two sockets; answers cut off anywhere; a launcher interrupted at any
step, whose remote half goes on. The list at their lines is `hazards` in `PROJECT.json`.

## 2. Modules

| Module | Models | Code |
|---|---|---|
| `PacketQueue` | what the ring promises: a lossless queue | - |
| `PacketsBuffer` | the ring, each load and store of an iterator a step | `internal.h` |
| `PacketsBufferProofs`, `FrameSplitterProofs`, `LifecycleProofs`, `ReceiverProofs`, `CorrectionProofs`, `ReplayProofs`, `DeploymentProofs`, `PointTimesProofs` | theorems about the module of that name (section 4) | - |
| `FrameStream` | what frame splitting promises: a frame is everything since the frame before | - |
| `FrameSplitter` | packets to frames; implements `FrameStream` | `internal.cc` |
| `TcpClient` | the request for the calibration and the lidar that answers it | `tcp_command_client.c`, `util.c` |
| `Lifecycle` | calls, threads, the file; EXTENDS `TcpClient` | `sdk.cc`, `internal.cc`, `pcap_reader.cpp` |
| `Receiver` | sockets and `RecvTask` | `input.cc`, `internal.cc` |
| `OffsetTables`, `PointTimes` | the time tables; one packet from bytes to point times | `internal.cc`, `internal.h`, `pandarQT.h`, `pandarXT.h`, `pcap_reader.cpp` |
| `Correction` | loading against computing and saving | `internal.cc` |
| `PcapReader` | a capture read at the lidar's pace | `pcap_reader.cpp` |
| `Replay` | bag or capture, the ring of `PacketsBuffer`, processing; EXTENDS `PcapReader` | `main_ros2.cc`, `internal.cc` |
| `Deployment` | launcher, ssh, docker, container, the two drivers | `launch_all_sensors_docker.sh`, `start.sh`, `docker-compose.yml`, `main_ros2.cc` |

`Replay` has an instance of `PacketsBuffer` and takes its steps, so what the ring
refuses, skips or shows too early happens in a replay as well. `PacketsBuffer` is shown to
implement `PacketQueue`, `FrameSplitter` to implement `FrameStream`.

An `MC` module only supplies sets of inputs. Definitions keep the names of the
code where it has one; a comment beginning "Mistake:" marks the operator after
it as a deliberately wrong variant, used to see that a property notices it.

### How state and actions correspond

* `PacketsBuffer`: `push` and `calc` are the iterators as offsets (`N` is
  `end()`), `slot` the array, `ppc`/`cpc` the program counters. `PushAdvance`,
  `PushRefuse`/`PushAccept`, `PushWrap`, `PushStore` are the lines of
  `push_back` in order; `PollDirect` and `PollWrapped` are the two disjuncts of
  `hasEnoughPackets`, which load `m_iterPush` separately; `Read` and
  `MoveIterCalc`, `WrapIterCalc` are the consumer's copy and `moveIterCalc`. The
  counters `arrived`, `taken` and `got` exist for the properties, and so does `exposed`:
  it becomes true when a packet arrives while `N` are unread (`Arrival`), and when a
  poll between the increment of `m_iterPush` and the end of its check reaches for the
  newest packet (`Reaching`). No step is forbidden by it. The image
  builds the driver without optimisation (`Dockerfile`, no `CMAKE_BUILD_TYPE`),
  so the order of stores is that of the source.
* `FrameSplitter`: `Block` is one pass of the loop over blocks: the comparison,
  the emission with all it clears, the points, `last_azimuth_`, and behind a
  packet's last block the `frame_id`. The buffers are bags of points, so that a
  point handed over twice would show; the order of the points in a frame is left
  open, except that `EmitBackMessege` takes the lists of all lasers (`Lists`). The five copies of the loop differ only in
  the packet type and in one pair of missing braces in the QT's (`qt` in `Calc`).
  `traffic` holds the parameters the constructor is given (`pcl_type_`,
  `start_angle_`) and what the lidar may send. `Restart` is `Stop` and `Start`: a
  new thread with its own scan and message over the old static buffers. `pos`,
  `published` and a point's `turn` are history.
* `FrameStream` sees bags of points and the numbers of raw packets: `Accept` a
  packet, `AddPoints` of a block or `EndFrame` before it, `DropScan` at a restart.
  The refinement maps the buffers to the bag of points in them. `emptyToo` is
  the one exception, the structured QT.
* `TcpClient`: one action per system call and test of
  `tcpCommandClient_SendCmd`; the three reads (magic, header, payload) go through
  `Read`, the loop of `sys_readn`. A byte is its place in the lidar's stream,
  0 one that nothing wrote. `Deliver` and `HangUp` are the lidar and TCP: any
  prefix in any pieces, then maybe an end or a reset. Magic and header are two
  bytes each in the run (the code's header is six), so that every boundary
  between and inside the three reads is met.
* `Lifecycle`: a call is the sequence of its steps (`SdkStart`, `SdkStop`,
  `SdkDelete`), for a driver of a lidar and of a capture (`source`), interleaved
  with the threads; the calibration thread runs a `Client` of `TcpClient`, then
  `LoadFromDevice` or `GiveUpDevice`, then `LoadFromFile`. An answer and the file have
  `rows` or not: `LoadCorrectionFile` returns 0 for either, so a content without a row
  counts as loaded and leaves `table` at "none".
* `Receiver`: `Poll` is `poll` and the choice of a socket, `Receive` the
  `recvfrom` and the dispatch of `RecvTask` in one step, since nothing between
  them is shared. The network is three external actions; `taken`, the lidar's
  datagrams a socket had room for, is history.
* `PointTimes`: `Receive`, `ParseBlock`, `ParseTail` are a parser, `CalcPoint`
  one unit of a block. Times are in nanoseconds, exact: the code's tables have
  three decimals of a microsecond. Units at a wrong distance, which the code
  skips, are kept; that only adds points to compare.
  `sender` is the lidar on the wire and need not be `lidar_type`: the packet's
  size picks the parser, and only an XT's parser looks at `lidar_type` too. `lidar_type`
  is any of the strings the code knows, "Pandar40M" and "XT" among them, or another; the
  echo byte any that some parser looks at, or another.
* `Correction`: a load is one assignment per step. `vector::resize` is one step when
  the storage suffices (`ResizeSin`, `ResizeCos`) and two when it does not: `FreeSin`
  and `FreeCos` end with the old storage freed, `MoveSin` and `MoveCos` with the vector
  pointing to the new. The process thread takes the address of the storage (`TakeCos`,
  `TakeSin`) and then the cell (`ReadCos`, `ReadSin`), and what it reads from freed or
  unwritten memory is `Garbage`. `SaveRow` is the loop of `SaveCorrectionFile`. An angle
  is the number of the load it came from.
* `PcapReader`: `NextPacket` is `pcap_next_ex` up to the checkpoint test, `Pace`
  the arithmetic of the pause, `PauseEnds` the end of its `select`. `stamp` is
  what the fixed places of libpcap's reused buffer hold: a GPS datagram is too
  short to reach them and leaves the time of the packet before. `due` and
  `astray` are history.
* `Replay`: one step per packet of `PushScanPacket`, or of `FillPacket` for a
  capture, which enters `push_back`; `FinishPush` and `Take` are the steps of the ring,
  whose slots hold the numbers of the packets in `pushed`.
* `Deployment`: `script` is the line the launcher waits at, `session` what its ssh
  still has to run on the dock, `orphans` what sshd goes on running of sessions
  Ctrl+C has cut off. Bash runs the handler when the command it waits for has
  ended and then goes on (`resume`). Process 1 of the container is a shell, which
  ignores SIGTERM, so `down` ends with `Remove`, ten seconds later.

## 3. Runs

| Run | Question | Result |
|---|---|---|
| `buffer` | Is the ring a queue, with nothing assumed of the two threads, and is the consumer left behind? | `IInv`, `Fifo`, `ImplementsQueue` hold until the ring is exposed, `TornReadOnlyAtStart` always, `AllButNewestTaken` in a ring never exposed |
| `buffer_refused` | Can a packet be refused with room in the ring? | yes: violation |
| `splitter` | One frame per turn of a steady lidar; nothing lost, repeated, cut in two or unlabelled with lost and late packets and a restart? | all six properties hold, `ImplementsStream` among them |
| `splitter_missed` | Does every step over `start_angle` publish, as the README says? | no: violation |
| `lifecycle` | Two calls of `Start` with any `Stop`s and the destructor, with a capture or a lidar whose answer is whole, without a row, wrong, cut off, reset or missing | all seven hold, `CallsReturn` up to a silent lidar, `CorrectionLoaded` up to that and an answer without a row |
| `lifecycle_rowless` | Does the file stand in for the device, as the README says? | no: violation |
| `receiver` | Order, starvation, garbage, with one and two ports | all four hold |
| `times` | All lidars, packet sizes and echo bytes, on a driver of any `lidar_type` | all six hold, with the unwritten cells and the tables indexed past their end stated exactly |
| `correction` | Points and saves during loads of contents of any length | `OneSource`, `NoGarbage` hold, garbage being read only while a vector grows or where a content has a wrong id |
| `replay` | A bag of four scans, one with a bad correction; a capture with foreign datagrams; the ring step by step | all five hold, `Continuous` and `AllButNewestProcessed` until the ring is exposed |
| `deployment` | Crashes and stop messages, Ctrl+C at any moment, a failed ssh | drivers recover; an ended launcher leaves nothing, unless an ssh failed or was cut off |
| `deployment_interrupt` | Does Ctrl+C stop everything, as the README says? | no: violation |

What the four violations show:

* `buffer_refused`: `push_back` increments `m_iterPush` before comparing it
  (`internal.h:290-292`). A consumer that polls in between is shown the packet stored
  last, which `hasEnoughPackets` otherwise holds back. It takes that packet, its
  iterator moves up to `m_iterPush`, and the comparison takes the empty ring for a full
  one: the packet being pushed is refused with "buffer don't have space!". The slot
  `m_iterPush` was left at is skipped, and handed to the consumer unwritten when
  the packet after has been stored.
* `lifecycle_rowless`: `README.md:175` of `hesai_lidar_src` says that the correction file
  is used when there is none from the lidar. `LoadCorrectionFile` returns 0 for any
  content (`internal.cc:617-668`), so an answer that holds no row empties the vectors of
  the angles, sets the flag (`sdk.cc:145`), and the file is not opened.
* `splitter_missed`: `README.md:167` of `hesai_lidar_src` says that a frame is
  published when the azimuth steps over `start_angle`; a forward step of six
  degrees or more is not looked at (`internal.cc:972-973`), and two turns become one
  frame. With the launch default `start_angle` 0 the azimuth falls at the wrap,
  its gap is then 0, and the case does not arise.
* `deployment_interrupt`: `README.md:100-101` says that Ctrl+C stops everything.
  The handler of the trap (`launch_all_sensors_docker.sh:171-184`) does not exit:
  a Ctrl+C during the start or the wait removes the container, after which the
  script waits for the topics of what it has removed and opens RViz2.

What passing runs pin down as exceptions:

* `Fifo`, `ImplementsQueue`, `AllButNewestTaken`, `Continuous` and
  `AllButNewestProcessed` end where the ring is exposed: when a packet arrives with `N`
  unread, it is refused or overwrites one; when a poll inside `push_back` reaches for
  the newest packet, `buffer_refused` may follow. Both are possible, and these are the
  only two: a poll inside `push_back` that finds older packets does no harm, nor does
  any lag below a full lap. `TornReadOnlyAtStart` adds that a packet is copied while
  it is written only after one of them, and only at the first slot.
* `NoGarbage`: an angle from unwritten or freed memory is read only while a load
  lengthens the vectors (a correction with more rows than the one before), and one from
  the stack only at the row where a content has a wrong id.
* `CallsReturn` and `CorrectionLoaded` except a silent lidar: `DEFAULT_TIMEOUT` of
  `util.c` is used nowhere, so a lidar that accepts the connection and sends
  nothing more keeps the calibration thread in `read` and `Stop` in its join.
* `TurnEnds`: of the steps of less than six degrees over `start_angle`, exactly
  those that pass the azimuth 0 as well end no frame (`internal.cc:974-977`). With
  a `start_angle` in the last step before 360 degrees that can be every turn;
  `Steady`, under which `FramesAreTurns` promises a frame a turn, excludes it. The
  launch files use 0.
* `ImplementsStream` allows empty frames for the structured QT: its index is never
  reset (`internal.cc:1764-1767`), so an empty turn is emitted and `points[0]` read.
* `CellsWritten`: nobody writes the cell for laser 7 of a Pandar40P
  (`laser40Offset_[9]` is assigned twice, `[7]` never), those for the seventh
  block of a Pandar64, any of a driver told "XT", which `Init` does not know, and for the
  echo byte 0x3d those of an XT-32 or XT-16 (only the XTM's branch writes
  `blockXTOffsetTriple_`); all other cells read are written.
* `PcapAgrees`: the pcap reader's positions are wrong for a Pandar64 with seven
  blocks, missing for "XT", and right otherwise.
* `AnglesInRange`: packets of a Pandar40P, Pandar64, PandarQT, or of a Pandar20 on a driver
  for a PandarXT-16, index the angles of a smaller `lidar_type` past their end; a driver
  told "XT" or an unknown type has no row, and of these lidars' packets each index is
  past it, as is that of a PandarXT-32's on a driver told "XT".
* `GarbageOnlyFromBad`: a failed `recvfrom` is pushed as a packet at most once per
  datagram with a wrong checksum.
* `LabelledAfterFirst`: a cloud without `frame_id` can only be one that ends
  inside a thread's first packet.
* `EndedMeansDown` except for an ssh that failed or was cut off: `cleanup` prints
  "Done." whatever its ssh returned, and a `docker compose up` whose connection
  Ctrl+C has cut may come after the removal.

### Bounds

* `buffer`: `N = 6`, `Window = 3`, 16 packets and at most 16 taken: two laps and more, so
  that each iterator wraps with every distance to the other, and both hazards are met
  in every lap. The code's 36000 and 1000 keep `2 * Window <= N`, the only relation
  used.
* `FrameSplitter`: a circle of 6 units, a gap limit of 3, `start_angle` 0, 2 or 5
  (a step before the azimuth 0), two blocks of two lasers. Steady traffic has 4 packets with steps of 0 to 2
  units, enough for two whole turns and for equal azimuths anywhere; rough
  traffic 3 packets with steps -1, 2, the gap limit and a whole turn less one, and
  one restart: up to five frames. The code compares azimuths only with each other, `start_angle` and the
  gap, so a finer circle adds no case.
* `Lifecycle`: two calls of `Start`, any number of `Stop`, one destructor; the file
  absent, without a row, or good; answers with payload 0 and 1 that hold no row and with
  payload 2 that does, an error with payload 1, a wrong magic number.
* `Receiver`: queues of two datagrams (so that they overflow), four lidar
  datagrams, one with a wrong checksum, GPS datagrams without bound.
* `PointTimes`: no bound but on the echo bytes: those that the parsers compare with
  (5, 57, 59, 60, 61) and three they do not. The packets are all that the lidars send,
  one at a time, to a driver of any `lidar_type`.
* `Correction`: three lasers, arrays of five rows, contents of two, three and four rows
  and with a wrong id in the middle and at the end, three loads.
* `Replay`: four scans of two packets over a subscription of depth two, a ring of four
  slots with `Window = 2`, at most six packets pushed and five taken; two captures of six
  datagrams, a checkpoint every second one, times up to 7, `count` starting below and
  past zero.
* `Deployment`: two ends of a driver, two Ctrl+C and one failed ssh, so that each
  meets the other two and a second of its kind at every step.

### Fairness

* `PacketsBuffer!FairSpec`: the consumer's loop polls again every millisecond and
  a started `push_back` ends; no packet need arrive.
* `Lifecycle!FairSpec`: each thread and the owner's call under way run; the next
  call, the lidar's next byte and the end of its connection may never come. The
  liveness properties except the case that this leaves (`Silent`), and no other.
* `Receiver`: the thread runs at real-time priority (`SCHED_RR`, 99) and does not
  wait while a socket is readable. `LidarServed` needs the GPS source to leave at
  least two reads between its datagrams; it sends one a second against 1800.
* `Replay`: a push that is begun ends and the process thread polls. The player, the
  executor and the pcap reader may stop at any time.
* `Deployment`: commands end and docker acts; a driver that was started comes up.
  Nobody has to close RViz2, press Ctrl+C or crash.

`AllButNewestTaken` and `AllButNewestProcessed` are stated for behaviours in which the
consumer is from some point on at most `Window` packets behind. Further behind, with the
producer wrapped, `hasEnoughPackets` says no although packets are unread
(`internal.h:307`).

## 4. Proofs

Every safety property that a passing run checks is also a theorem for all values of
the constants. `theorems` in `PROJECT.json` names them. Each rests on an inductive invariant, which TLC
confirmed on the instance of the run before it was proved; the proofs have one step for each
action, and below it one for each part the action can disturb.

**The ring** (`PacketsBufferProofs`).

* `TypeCorrect`: `Spec => []TypeOK`. It needs the program counters: the iterator is at
  most `N` between pushes, and `N + 1` only where `push_back` has just incremented it.
* `TornReadOnlyAtStartHolds`: `Spec => []TornReadOnlyAtStart`. The part about the slot is
  inductive beside the types; the step of `PollWrapped` is where `2 * Window <= N` is
  needed, without which a poll could find a packet at `m_iterPush` itself. That it needs
  `exposed` follows from `Inductive`.
* `FifoHolds`: until the ring is exposed the `k`-th packet taken is the `k`-th that
  arrived, and none is refused.
* `RingImplementsQueue`: every step until then is a step of `PacketQueue`, with
  the unread slots as the queue.

None of them assumes anything of the pace or the interleaving of the two threads: the
steps are those that the unlocked code allows, and `exposed` only says how long the
promise lasts.

`Fifo` alone is not inductive: nothing in it says where the packets are. `Orderly`
adds that the producer is `Lag - 1` slots ahead of the consumer, in this lap or
the next (`Positions`), how far apart they are at each program counter
(`ProducerAt`, `ConsumerAt`: inside `push_back`'s move a copying consumer has a packet
more to go), and that the unread slots hold `taken + 1`, `taken + 2`, ...
(`Contents`). `IInv` is `TypeOK` with `~exposed => Orderly`, an invariant of run
`buffer`. `ProducerStep` and `ConsumerStep` prove that each action keeps each conjunct;
`Inductive` puts them together. The refinement goes through `UnreadIsRun` (the queue is
the run of integers from `taken + 1`) and three lemmas on such sequences.

**Frames** (`FrameSplitterProofs`): all six properties, for every circle, gap
limit, packet format and traffic, with no further assumption.

* `TypeCorrect`, from `TypeInv`: the buffers hold points of past blocks only
  (`Holds`), each once and in its own laser's list. Without "past" a new block's
  point could be there already.
* `SplitterImplementsStream`: every step of `Next` is a step of `FrameStream` or a
  stutter. What the refinement turns on are lemmas on bags: adding a block's
  points laser by laser is adding their bag (`Calc`), and the lists put
  together are the bag of what they hold (`Lists`).
* `TurnEndsHolds`: beside the types it needs `LastInv`, that `last_azimuth_` is where the
  lidar pointed whenever there are points; the rest is arithmetic about
  `(pos - start) \div Circle` and `pos % Circle` (`TurnEnds` speaks of turns, the
  code of azimuths).
* `LabelledAfterFirstHolds`, from `LabelInv`: a thread that has not labelled `outMsg`
  has at most one packet in its scan, and the first thread is in packet 1.
* `ScanCoversFrameHolds`, from `CoverInv`: the scans published so far hold the
  packets `1 .. RawUpTo(i)`, the one under way the packets from there on, and no point that
  waits is older than the last packet of a published scan.
* `FramesAreTurnsHolds`, from `TurnsInv`: the points that wait are of the turn under way,
  those of the last frame of an earlier one, and `HasPoints` sees them. This is
  where laser 0 must have a return in every packet.

**Lifecycle** (`LifecycleProofs`), for any number of starts and every set of
answers: `TypeCorrect`, `OneOfEachHolds`, `QuietAfterStopHolds`,
`ContentWholeHolds`, `DeviceOverFileHolds`. One thread of a kind is not
inductive: it must be known what the call under way still has to do. `IInv` says it of
the steps left (`Ordered`: before a thread is created the last has been joined, `Stop`
creates none), of the handles (`Handled`), of mutex and socket (`Connection`: they
belong to the client whose request is under way), and of `cmd->data` (`Filled`: what has
been read of the payload and nothing else).

**Receiver** (`ReceiverProofs`): `TypeCorrect`, `PushedInOrderHolds`,
`GarbageOnlyFromBadHolds`, for sockets of any size and any number of datagrams. The count
of failed reads needs the bad datagrams still in the socket added
(`BadAccounted`), the order that the next datagram is later than all taken
(`TakenSent`). `GoodIs` says what `recvfrom` leaves of a socket.

**Correction** (`CorrectionProofs`), for any number of lasers, rows and loads, and
contents of every length.

* `OneSourceHolds`: without an overlapping load the angles of a row are of one load, and
  which one is said too, for rows the last content did not have as well.
* `NoGarbageHolds`: what is read of unwritten or freed memory, and when.

`Inductive` is about each row: how far the load under way has replaced its four angles,
what the two vectors hold before, inside and after a resize, whose storage may be
freed under an address already taken (`stale`), and where what the process thread has
read came from. A row of which the loader has replaced one angle is the reason why
neither property is inductive, and a vector that has grown while the other has not is
why the two are followed apart.

**Times** (`PointTimesProofs`): the six properties of `PointTimes`, for every set of
types, every echo byte and either size of a Pandar64's packet.

* `Formats` is the list of packets a parser takes, `Layout` what follows from it: block
  sizes, where the blocks end, and that the tail fits. With `Parsed` (where the index is
  at each step) this is `BytesInPacketHolds`, `PcapAgreesHolds` and `AnglesInRangeHolds`.
* The tables of offsets are lists of assignments of which a later one to the same cell
  counts (`AssignedIs`). For each lidar they are shown to be `Apart` (blocks of a firing
  equal, firings a gap apart), with the lasers' cells in bounds closer together than
  that gap (`Cells`, `Computed`). From these alone `TimesFrom` derives `Times`: a cell is
  unknown just where nobody wrote it, later firings are later, returns of one firing
  together. `CellsWrittenHolds` and `ReturnsTogetherHolds` are read off it.
* `FiringsInOrderHolds` speaks of the points computed so far and is not inductive:
  it says nothing of those to come. `Timed` adds that every cell of a later firing is
  later than the latest point, and every cell of the current one later than the
  points of the firings before. `ParsedAndTimed` is `Spec => [](Parsed /\ Timed)` and
  the types.

**Replay** (`ReplayProofs`): `TypeCorrect`, `SettledAnglesHolds`,
`OnScheduleHolds` without assumption, for every size of the ring, `ContinuousHolds` under `Republish = FALSE`
(the property is about `publish_type` "points"; with the others the node hears itself). The ring's steps are those of `PacketsBuffer` on `Replay`'s
variables, so a behaviour of `Replay` is one of the ring (`RingRuns`), and the invariants
that `PacketsBufferProofs` proves hold of it (`RingHolds`): until it is exposed, what is
taken is what was pushed, in order; and always, what is taken was pushed or is a
slot nobody wrote (`WereHandedOver`), which is all that the settled angles need. `BagInv` says that
the subscription holds whole scans, that the rest of the scan in progress goes on
from the newest packet stored, and that `raw` has the packets of the scan that
the process thread is in. `SettledInv` adds that until a correction is
met everything pushed is of one scan, whose correction comes next (`FirstScan`),
and that before the first push no scan of the node's own is on the topic. What the
process thread takes was pushed, so the packets it takes after that
correction meet the angles that were settled with it. `OrderInv` adds that the scans held are newer
than what was pushed and that the packets pushed follow each other (`Successive`),
`PcapInv` that the lidar packets stored are those of the capture by number
(`NthIs`: the number after is the place after). `ReaderInv` relates `last_time`, the
pause and the clock.

**Deployment** (`DeploymentProofs`): `EndedMeansDownHolds`, for any number of
crashes, interrupts and failed connections: `IInv` follows the last cleanup of a
launcher none of whose sessions was cut off.

Only model-checked:

* everything with fairness: `AllButNewestTaken`, `CallsReturn`,
  `CorrectionLoaded`, `LidarServed`, `AllButNewestProcessed`, `Recovers`,
  `InterruptInRvizEnds`. The prover has no rules for enabledness;
* the four violations, which are counterexamples.

## 5. Assumptions

* `boost::thread::join` on a thread already joined returns.
* Aligned stores of iterators and flags are atomic and become visible in program
  order; copies of packets are not atomic (that is what `TornReadOnlyAtStart` is about).
* Both binds of `Input` succeed; the node registers its callback; the lidar sends
  whole packets of its own format, with honest block and laser counts.
* Linux's `poll` may report a non-blocking UDP socket whose only datagram has a
  wrong checksum; `recvfrom` then finds none.
* `vector::resize` is libstdc++'s; loads of the correction do not overlap each other.
* One owner calls `Start`, `Stop` and the destructor, never two at a time.
* Nothing interrupts the pcap reader's `select`, and the clock does not go back.
* `docker compose up` leaves a container that exists alone; `down` waits for the
  removal. A remote command may outlive its connection or die with it.

## 6. Plan

The order was: ring, frames, lifecycle, receiver, times, correction, replay,
TCP client, pcap reader, deployment: from the code every packet passes to the
code some configurations use; then the proofs in about the same order. Left:

1. In `Replay`, what the node hears of itself with `publish_type` "raw": only types
   and angles are stated of it.
2. In `Correction`, two loads at the same time, on the calibration thread and on the
   node's.
3. The order of the points inside a frame, which the bags leave open.

## 7. Not modelled

* Coordinates, calendar dates and floating-point arithmetic: formulas without
  state, per point.
* `ParseGPS`, `ProcessGps`: decode one datagram for a callback that is empty in
  the node.
* The recording, playback and network scripts: straight-line use of ros2 bag and
  ip; of the launcher, the checks before its first ssh and the choice of
  configuration files.
* The node's end at SIGINT, when `main` destroys it while the driver's threads
  run, and the end of the process inside `exit(0)`: undefined behaviour after
  which nothing more happens.
* A failed `bind` (`socketNumber` is then uninitialised), and the missing
  `return` of `Start`, which an unoptimised build survives.
* The set, get and reset commands of the TCP client: no caller.
* `py_domain_relay.py`: one callback that publishes what it receives.
* The ROS 1 node and nodelet: not built by `CMakeLists.txt`.
* Two instances of the driver in one process, which would share the static point
  buffers; the node creates one.
