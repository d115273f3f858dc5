------------------------------ MODULE TcpClient ------------------------------
(***************************************************************************)
(* One request to the lidar for its calibration: tcpCommandClient_SendCmd  *)
(* and tcpCommandReadCommand of tcp_command_client.c over the blocking     *)
(* socket of util.c, and the lidar at the other end of the connection.     *)
(*                                                                         *)
(* The lidar's answer is a stream of Magic + Header + len bytes, of which  *)
(* TCP delivers any prefix in any pieces, and after which, or before, the  *)
(* lidar may close the connection.  A byte is its place in the stream; a   *)
(* byte of memory that nothing has written is 0.                           *)
(***************************************************************************)
EXTENDS Integers, Sequences

CONSTANTS
  Clients,   \* the threads that may send a request
  Answers,   \* what a lidar may answer: is the first word right, the return code,
             \* how many bytes follow, and do they hold a row of a correction?
  Magic,     \* 2: the first bytes, by which an answer is recognised
  Header     \* 6: command, return code and length

ASSUME AnswerAssumption ==
  /\ Magic \in Nat \ {0} /\ Header \in Nat \ {0}
  /\ Answers # {} /\ Answers \subseteq [magic : BOOLEAN, code : Nat, len : Nat, rows : BOOLEAN]
  /\ \A a \in Answers : a.rows => a.len > 0

VARIABLES
  lock,     \* TcpCommandClient.lock: the client that holds it, or 0
  stage,    \* where each client is in its request
  sockets,  \* the clients with an open socket
  answer,   \* what the lidar answers to the last request
  sent,     \* bytes of it that have arrived
  taken,    \* bytes of it that read() has returned
  line,     \* the lidar's end of the last connection: "up", "closed" or "reset"
  data      \* cmd->data, then ret_str

tcpVars == <<lock, stage, sockets, answer, sent, taken, line, data>>
connVars == <<answer, sent, taken, line, data>>

TcpInit ==
  /\ lock = 0 /\ stage = [k \in Clients |-> "idle"] /\ sockets = {}
  /\ answer = (CHOOSE a \in Answers : TRUE)
  /\ sent = 0 /\ taken = 0 /\ line = "closed" /\ data = <<>>

Place(k, where) == stage' = [stage EXCEPT ![k] = where]

\* pthread_mutex_lock, then tcp_open and the write of the request's header: each
\* may fail.
Lock(k) ==
  /\ stage[k] = "request" /\ lock = 0
  /\ lock' = k /\ Place(k, "open")
  /\ UNCHANGED <<sockets, connVars>>

OpenFails(k) ==
  /\ stage[k] = "open"
  /\ lock' = 0 /\ Place(k, "failed")
  /\ UNCHANGED <<sockets, connVars>>

Open(k) ==
  /\ stage[k] = "open"
  /\ Place(k, "write") /\ sockets' = sockets \cup {k}
  /\ line' = "up" /\ sent' = 0 /\ taken' = 0 /\ data' = <<>>
  /\ answer' \in Answers
  /\ UNCHANGED lock

\* Mistakes: a path out leaves the mutex locked; it leaves the socket open.
LeaveLocked(k, where) == UNCHANGED lock /\ sockets' = sockets \ {k} /\ Place(k, where)
LeaveOpen(k, where) == lock' = 0 /\ UNCHANGED sockets /\ Place(k, where)

\* close(fd) and pthread_mutex_unlock
Leave(k, where) == lock' = 0 /\ sockets' = sockets \ {k} /\ Place(k, where)

\* Writing to a connection that has been reset fails; to one the lidar has closed
\* it still succeeds.
WriteFails(k) ==
  /\ stage[k] = "write" /\ line = "reset"
  /\ Leave(k, "failed")
  /\ UNCHANGED connVars

Write(k) ==
  /\ stage[k] = "write" /\ line # "reset"
  /\ Place(k, "magic")
  /\ UNCHANGED <<lock, sockets, connVars>>

-----------------------------------------------------------------------------
(* sys_readn: read until there are enough bytes, the end or an error. *)

\* What the three reads ask for, and how far into the stream each goes.
Wanted(k) ==
  CASE stage[k] = "magic" -> Magic
    [] stage[k] = "header" -> Magic + Header
    [] stage[k] = "payload" -> Magic + Header + answer.len

Reading(k) == stage[k] \in {"magic", "header", "payload"}

\* A read inside the payload writes cmd->data; the rest of it is as malloc left it.
Stored(upTo) ==
  [i \in 1 .. Len(data) |->
     IF Magic + Header + i <= upTo THEN Magic + Header + i ELSE data[i]]

Read(k) ==
  /\ Reading(k) /\ taken < Wanted(k) /\ taken < sent
  /\ taken' = IF sent < Wanted(k) THEN sent ELSE Wanted(k)
  /\ data' = Stored(taken')
  /\ UNCHANGED <<lock, stage, sockets, answer, sent, line>>

AtEnd == line # "up" /\ taken = sent

\* Mistake: bytes short of the end count as an answer.
AnyCount(k) == taken = Wanted(k) \/ AtEnd

\* read() has returned every byte asked for; a payload of none asks for none.
Whole(k) == taken = Wanted(k)

\* One byte and the end leaves buffer[1] unwritten, and ret is not 0: whether the
\* first word is right is then a matter of what was on the stack.
MagicOk ==
  \/ taken = Magic /\ answer.magic
  \/ taken \in 1 .. Magic - 1 /\ AtEnd /\ line = "closed" /\ answer.magic

GetMagic(k) ==
  /\ stage[k] = "magic" /\ MagicOk
  /\ Place(k, "header")
  /\ UNCHANGED <<lock, sockets, connVars>>

GetHeader(k) ==
  /\ stage[k] = "header" /\ Whole(k)
  /\ Place(k, "payload")
  /\ data' = [i \in 1 .. answer.len |-> 0]
  /\ UNCHANGED <<lock, sockets, answer, sent, taken, line>>

\* The answer is there: TcpCommandGetLidarCalibration returns its return code.
GetPayload(k) ==
  /\ stage[k] = "payload" /\ Whole(k)
  /\ Leave(k, IF answer.code = 0 THEN "answered" ELSE "refused")
  /\ UNCHANGED connVars

\* Another first word, the end of the stream, or an error before enough bytes.
ReadFails(k) ==
  /\ \/ stage[k] = "magic" /\ taken = Magic /\ ~answer.magic
     \/ Reading(k) /\ taken < Wanted(k) /\ AtEnd
  /\ Leave(k, "failed")
  /\ UNCHANGED connVars

Client(k) ==
  \/ Lock(k) \/ OpenFails(k) \/ Open(k) \/ WriteFails(k) \/ Write(k)
  \/ Read(k) \/ GetMagic(k) \/ GetHeader(k) \/ GetPayload(k) \/ ReadFails(k)

-----------------------------------------------------------------------------
(* The lidar. *)

Requested == \E k \in sockets : stage[k] # "write"

\* Some more bytes of the answer arrive.
Deliver ==
  /\ Requested /\ line = "up"
  /\ sent' \in sent + 1 .. Magic + Header + answer.len
  /\ UNCHANGED <<lock, stage, sockets, answer, taken, line, data>>

\* The lidar closes the connection, or resets it; a reset discards what has
\* arrived and has not been read.
HangUp ==
  /\ sockets # {} /\ line = "up"
  /\ \/ line' = "closed" /\ UNCHANGED sent
     \/ line' = "reset" /\ sent' = taken
  /\ UNCHANGED <<lock, stage, sockets, answer, taken, data>>

Device == Deliver \/ HangUp

\* The client waits for bytes of a lidar that sends none and keeps the connection.
Silent == \E k \in sockets : Reading(k) /\ taken = sent /\ taken < Wanted(k) /\ line = "up"
=============================================================================
