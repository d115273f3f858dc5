--------------------------- MODULE LifecycleProofs ---------------------------
(***************************************************************************)
(* Proofs about starting and stopping the driver, for every number of      *)
(* calls, every lidar and every answer it may give.                        *)
(***************************************************************************)
EXTENDS Lifecycle, TLAPS, SequenceTheorems

Steps == {"clear", "clearLoop", "joinProc", "joinRecv", "joinCalib", "set",
          "setLoop", "createProc", "createRecv", "createCalib"}

(***************************************************************************)
(* What the steps left of a call promise about one kind of thread: before  *)
(* one is created the last one is joined, a call creates at most one, and  *)
(* Stop and the destructor join it and create none.                        *)
(***************************************************************************)
Ordered(steps, call, join, create, threads) ==
  /\ \A i \in 1 .. Len(steps) :
       steps[i] = create => \/ Alive(threads) = {}
                            \/ \E j \in 1 .. i - 1 : steps[j] = join
  /\ \A i, j \in 1 .. Len(steps) : steps[i] = create /\ steps[j] = create => i = j
  /\ call \in {"stop", "delete"} =>
       /\ Alive(threads) = {} \/ \E j \in 1 .. Len(steps) : steps[j] = join
       /\ \A i \in 1 .. Len(steps) : steps[i] # create

\* The handle names the one thread of its kind that may run.
Handled(handle, threads) == \A k \in Alive(threads) : k = handle

ProcInv == Ordered(todo, called, "joinProc", "createProc", proc) /\ Handled(procThr, proc)
RecvInv == Ordered(todo, called, "joinRecv", "createRecv", recv) /\ Handled(recvThr, recv)
CalibInv ==
  Ordered(todo, called, "joinCalib", "createCalib", calib) /\ Handled(calibThr, calib)

\* Threads are created only inside a call of Start.
Counted ==
  \A i \in 1 .. Len(todo) :
    todo[i] \in {"createProc", "createRecv", "createCalib"} => starts # 0

\* The mutex and the socket belong to the client whose request is under way, and
\* its thread is the one that waits for the answer.
Connection ==
  /\ \A k \in Ids : stage[k] \in Busy <=> lock = k
  /\ sockets = {k \in Ids : stage[k] \in Busy \ {"open"}}
  /\ \A k \in Ids : stage[k] \in Busy \cup {"request"} => calib[k] = "request"

\* cmd->data holds what has been read of the payload, and nothing else.
Filled ==
  /\ \A k \in Ids : stage[k] \in {"header", "payload"} => answer.magic
  /\ \A k \in Ids :
       stage[k] = "payload" =>
         /\ Len(data) = answer.len
         /\ \A i \in 1 .. answer.len : Magic + Header + i <= taken => data[i] = Magic + Header + i

IInv ==
  /\ TypeOK /\ ProcInv /\ RecvInv /\ CalibInv /\ Counted /\ Connection /\ Filled
  /\ ContentWhole
  /\ table \in {"device", "none"} => gotFlag

-----------------------------------------------------------------------------
(***************************************************************************)
(* Lemmas about Ordered: what taking the next step of a call does to it.   *)
(***************************************************************************)

\* Another step leaves the promise as it is.
LEMMA OrderedTail ==
  ASSUME NEW steps \in Seq(Steps), steps # <<>>, NEW call, NEW join, NEW create,
         NEW threads, Ordered(steps, call, join, create, threads),
         Head(steps) # join, Head(steps) # create
  PROVE  Ordered(Tail(steps), call, join, create, threads)
<1>1. /\ Tail(steps) \in Seq(Steps) /\ Len(Tail(steps)) = Len(steps) - 1
      /\ \A i \in 1 .. Len(steps) - 1 : Tail(steps)[i] = steps[i + 1]
  BY HeadTailProperties
<1>2. Head(steps) = steps[1] /\ Len(steps) \in Nat \ {0}
  OBVIOUS
<1>3. ASSUME Alive(threads) # {}, NEW i \in 1 .. Len(Tail(steps)), Tail(steps)[i] = create
      PROVE  \E j \in 1 .. i - 1 : Tail(steps)[j] = join
  <2>1. PICK j \in 1 .. i : steps[j] = join
    BY <1>1, <1>2, <1>3 DEF Ordered
  <2>2. j - 1 \in 1 .. i - 1 /\ Tail(steps)[j - 1] = join
    BY <1>1, <1>2, <2>1
  <2>. QED
    BY <2>2
<1>4. ASSUME NEW i \in 1 .. Len(Tail(steps)), NEW j \in 1 .. Len(Tail(steps)),
             Tail(steps)[i] = create, Tail(steps)[j] = create
      PROVE  i = j
  BY <1>1, <1>2, <1>4 DEF Ordered
<1>5. ASSUME call \in {"stop", "delete"}, Alive(threads) # {}
      PROVE  \E j \in 1 .. Len(Tail(steps)) : Tail(steps)[j] = join
  <2>1. PICK j \in 1 .. Len(steps) : steps[j] = join
    BY <1>5 DEF Ordered
  <2>2. j - 1 \in 1 .. Len(Tail(steps)) /\ Tail(steps)[j - 1] = join
    BY <1>1, <1>2, <2>1
  <2>. QED
    BY <2>2
<1>6. ASSUME call \in {"stop", "delete"}, NEW i \in 1 .. Len(Tail(steps))
      PROVE  Tail(steps)[i] # create
  BY <1>1, <1>2, <1>6 DEF Ordered
<1>. QED
  BY <1>3, <1>4, <1>5, <1>6 DEF Ordered

\* The join finds the thread ended, and no thread of the kind is left.
LEMMA OrderedJoin ==
  ASSUME NEW steps \in Seq(Steps), steps # <<>>, NEW call, NEW join, NEW create,
         NEW threads, Ordered(steps, call, join, create, threads),
         Head(steps) = join, join # create, Alive(threads) = {}
  PROVE  Ordered(Tail(steps), call, join, create, threads)
<1>1. /\ Tail(steps) \in Seq(Steps) /\ Len(Tail(steps)) = Len(steps) - 1
      /\ \A i \in 1 .. Len(steps) - 1 : Tail(steps)[i] = steps[i + 1]
  BY HeadTailProperties
<1>2. Head(steps) = steps[1] /\ Len(steps) \in Nat
  OBVIOUS
<1>. QED
  BY <1>1, <1>2 DEF Ordered

\* A thread is created when none of its kind runs, and no other is to follow.
LEMMA OrderedCreate ==
  ASSUME NEW steps \in Seq(Steps), steps # <<>>, NEW call, NEW join, NEW create,
         NEW threads, NEW threads2, Ordered(steps, call, join, create, threads),
         Head(steps) = create
  PROVE  /\ Alive(threads) = {}
         /\ Ordered(Tail(steps), call, join, create, threads2)
<1>1. /\ Tail(steps) \in Seq(Steps) /\ Len(Tail(steps)) = Len(steps) - 1
      /\ \A i \in 1 .. Len(steps) - 1 : Tail(steps)[i] = steps[i + 1]
  BY HeadTailProperties
<1>2. Head(steps) = steps[1] /\ Len(steps) \in Nat /\ Len(steps) > 0
  OBVIOUS
<1>. QED
  BY <1>1, <1>2 DEF Ordered

\* Threads that go on, or end, keep it.
LEMMA OrderedFewer ==
  ASSUME NEW steps, NEW call, NEW join, NEW create,
         NEW threads, NEW threads2, Ordered(steps, call, join, create, threads),
         Alive(threads2) \subseteq Alive(threads)
  PROVE  Ordered(steps, call, join, create, threads2)
  BY DEF Ordered

-----------------------------------------------------------------------------
(***************************************************************************)
(* The steps of Start, Stop and the destructor are those of the calls they *)
(* make, one after the other.                                              *)
(***************************************************************************)
Has(steps, name) == \E i \in 1 .. Len(steps) : steps[i] = name
Lacks(steps, name) == \A i \in 1 .. Len(steps) : steps[i] # name
AtMostOnce(steps, name) ==
  \A i, j \in 1 .. Len(steps) : steps[i] = name /\ steps[j] = name => i = j

\* Where the steps of two calls in a row are.
LEMMA OneThenOther ==
  ASSUME NEW s \in Seq(Steps), NEW t \in Seq(Steps)
  PROVE  /\ s \o t \in Seq(Steps)
         /\ \A i \in 1 .. Len(s) : i \in 1 .. Len(s \o t) /\ (s \o t)[i] = s[i]
         /\ \A i \in 1 .. Len(s \o t) :
              i \notin 1 .. Len(s) => i - Len(s) \in 1 .. Len(t) /\ (s \o t)[i] = t[i - Len(s)]
  OBVIOUS

LEMMA CallsInARow ==
  ASSUME NEW s \in Seq(Steps), NEW t \in Seq(Steps), NEW name
  PROVE  /\ s \o t \in Seq(Steps)
         /\ Has(s, name) => Has(s \o t, name)
         /\ Lacks(s, name) /\ Lacks(t, name) => Lacks(s \o t, name)
<1>1. /\ s \o t \in Seq(Steps)
      /\ \A i \in 1 .. Len(s) : i \in 1 .. Len(s \o t) /\ (s \o t)[i] = s[i]
      /\ \A i \in 1 .. Len(s \o t) :
           i \notin 1 .. Len(s) => i - Len(s) \in 1 .. Len(t) /\ (s \o t)[i] = t[i - Len(s)]
  BY OneThenOther
<1>2. Has(s, name) => Has(s \o t, name)
  BY <1>1 DEF Has
<1>3. ASSUME Lacks(s, name), Lacks(t, name), NEW i \in 1 .. Len(s \o t)
      PROVE  (s \o t)[i] # name
  BY <1>1, <1>3 DEF Lacks
<1>. QED
  BY <1>1, <1>2, <1>3 DEF Lacks

\* A call that joins comes before the one that creates.
LEMMA JoinThenCreate ==
  ASSUME NEW s \in Seq(Steps), NEW t \in Seq(Steps), NEW join, NEW create, NEW threads,
         Has(s, join), Lacks(s, create), AtMostOnce(t, create)
  PROVE  Ordered(s \o t, "start", join, create, threads)
<1>1. PICK j \in 1 .. Len(s) : s[j] = join
  BY DEF Has
<1>2. ASSUME NEW i \in 1 .. Len(s \o t), (s \o t)[i] = create
      PROVE  i - Len(s) \in 1 .. Len(t) /\ t[i - Len(s)] = create /\ j \in 1 .. i - 1
  BY <1>2, OneThenOther DEF Lacks
<1>3. (s \o t)[j] = join
  BY <1>1, OneThenOther
<1>4. ASSUME NEW i \in 1 .. Len(s \o t), NEW l \in 1 .. Len(s \o t),
             (s \o t)[i] = create, (s \o t)[l] = create
      PROVE  i = l
  <2>1. i - Len(s) = l - Len(s)
    BY <1>2, <1>4 DEF AtMostOnce
  <2>. QED
    BY <2>1
<1>. QED
  BY <1>2, <1>3, <1>4 DEF Ordered

\* What follows and creates nothing does not matter.
LEMMA OrderedThenMore ==
  ASSUME NEW s \in Seq(Steps), NEW t \in Seq(Steps), NEW join, NEW create, NEW threads,
         Ordered(s, "start", join, create, threads), Lacks(t, create)
  PROVE  Ordered(s \o t, "start", join, create, threads)
<1>1. ASSUME NEW i \in 1 .. Len(s \o t), (s \o t)[i] = create
      PROVE  i \in 1 .. Len(s) /\ s[i] = create
  BY <1>1, OneThenOther DEF Lacks
<1>2. \A j \in 1 .. Len(s) : (s \o t)[j] = s[j]
  BY OneThenOther
<1>. QED
  BY <1>1, <1>2 DEF Ordered

\* A call that joins and creates nothing.
LEMMA JoinsOnly ==
  ASSUME NEW s, NEW call, NEW join, NEW create, NEW threads,
         Has(s, join), Lacks(s, create)
  PROVE  Ordered(s, call, join, create, threads)
  BY DEF Ordered, Has, Lacks

Joins == {"joinProc", "joinRecv", "joinCalib"}
Creates == {"createProc", "createRecv", "createCalib"}

\* The calls the others are made of.
LEMMA SmallCalls ==
  /\ {ReaderStop, InternalStop, InternalStart, SdkStop, <<"createCalib">>} \subseteq Seq(Steps)
  /\ \A create \in Creates :
       /\ Lacks(InternalStop, create) /\ Lacks(SdkStop, create) /\ Lacks(ReaderStop, create)
       /\ AtMostOnce(InternalStart, create) /\ AtMostOnce(<<"createCalib">>, create)
  /\ Lacks(InternalStart, "createCalib")
  /\ Lacks(<<"createCalib">>, "createProc") /\ Lacks(<<"createCalib">>, "createRecv")
  /\ \A join \in Joins : Has(SdkStop, join)
<1>1. {ReaderStop, InternalStop, InternalStart, SdkStop, <<"createCalib">>} \subseteq Seq(Steps)
  <2>1. /\ <<>> \in Seq(Steps) /\ <<"clearLoop", "joinRecv">> \in Seq(Steps)
        /\ <<"clear", "joinProc">> \in Seq(Steps) /\ <<"set", "createProc">> \in Seq(Steps)
        /\ <<"joinRecv">> \in Seq(Steps) /\ <<"joinCalib">> \in Seq(Steps)
        /\ <<"setLoop">> \in Seq(Steps) /\ <<"createRecv">> \in Seq(Steps)
        /\ <<"createCalib">> \in Seq(Steps)
    BY DEF Steps
  <2>2. ReaderStop \in Seq(Steps)
    BY <2>1 DEF ReaderStop
  <2>3. InternalStop \in Seq(Steps)
    BY <2>1, <2>2, CallsInARow DEF InternalStop
  <2>4. InternalStart \in Seq(Steps)
    BY <2>1, <2>2, CallsInARow DEF InternalStart
  <2>5. SdkStop \in Seq(Steps)
    BY <2>1, <2>3, CallsInARow DEF SdkStop
  <2>. QED
    BY <2>1, <2>2, <2>3, <2>4, <2>5
<1>2. ASSUME NEW create \in Creates
      PROVE  Lacks(InternalStop, create) /\ Lacks(SdkStop, create) /\ Lacks(ReaderStop, create)
  BY DEF Creates, Lacks, ReaderStop, InternalStop, SdkStop
<1>3. ASSUME NEW create \in Creates
      PROVE  AtMostOnce(InternalStart, create) /\ AtMostOnce(<<"createCalib">>, create)
  BY DEF Creates, AtMostOnce, InternalStart, ReaderStop
<1>4. Lacks(InternalStart, "createCalib")
  BY DEF Lacks, InternalStart, ReaderStop
<1>5. Lacks(<<"createCalib">>, "createProc") /\ Lacks(<<"createCalib">>, "createRecv")
  BY DEF Lacks
<1>6. ASSUME NEW join \in Joins
      PROVE  Has(SdkStop, join)
  <2>1. CASE Lidar
    <3>1. /\ Len(SdkStop) = 4 /\ SdkStop[2] = "joinProc" /\ SdkStop[3] = "joinRecv"
          /\ SdkStop[4] = "joinCalib"
      BY <2>1 DEF SdkStop, InternalStop
    <3>. QED
      BY <3>1 DEF Has, Joins
  <2>2. CASE ~Lidar
    <3>1. /\ Len(SdkStop) = 5 /\ SdkStop[2] = "joinProc" /\ SdkStop[4] = "joinRecv"
          /\ SdkStop[5] = "joinCalib"
      BY <2>2 DEF SdkStop, InternalStop, ReaderStop
    <3>. QED
      BY <3>1 DEF Has, Joins
  <2>. QED
    BY <2>1, <2>2
<1>. QED
  BY <1>1, <1>2, <1>3, <1>4, <1>5, <1>6

\* A call begins with its promises kept, whatever threads the last one left.
LEMMA CallsOrdered ==
  ASSUME NEW join, NEW create, NEW threads,
         \/ join = "joinProc" /\ create = "createProc"
         \/ join = "joinRecv" /\ create = "createRecv"
         \/ join = "joinCalib" /\ create = "createCalib"
  PROVE  /\ Ordered(SdkStart, "start", join, create, threads)
         /\ Ordered(SdkStop, "stop", join, create, threads)
         /\ Ordered(SdkDelete, "delete", join, create, threads)
         /\ {SdkStart, SdkStop, SdkDelete} \subseteq Seq(Steps)
<1>. DEFINE TwoStops == SdkStop \o InternalStop
            Loops == TwoStops \o InternalStart
<1>1. join \in Joins /\ create \in Creates
  BY DEF Joins, Creates
<1>2. /\ {ReaderStop, InternalStop, InternalStart, SdkStop, <<"createCalib">>} \subseteq Seq(Steps)
      /\ Lacks(InternalStop, create) /\ Lacks(SdkStop, create) /\ Lacks(ReaderStop, create)
      /\ AtMostOnce(InternalStart, create) /\ AtMostOnce(<<"createCalib">>, create)
      /\ Has(SdkStop, join)
  BY <1>1, SmallCalls
<1>3. TwoStops \in Seq(Steps) /\ Has(TwoStops, join) /\ Lacks(TwoStops, create)
  BY <1>2, CallsInARow
<1>4. /\ SdkDelete \in Seq(Steps) /\ Has(SdkDelete, join) /\ Lacks(SdkDelete, create)
  BY <1>2, <1>3, CallsInARow DEF SdkDelete
<1>5. Loops \in Seq(Steps)
  BY <1>2, <1>3, CallsInARow
<1>6. SdkStart = Loops \o <<"createCalib">>
  BY DEF SdkStart
<1>7. SdkStart \in Seq(Steps)
  BY <1>2, <1>5, <1>6, CallsInARow
<1>8. CASE create = "createCalib"
  <2>1. Has(Loops, join) /\ Lacks(Loops, create)
    BY <1>2, <1>3, <1>8, CallsInARow, SmallCalls
  <2>2. Ordered(SdkStart, "start", join, create, threads)
    BY <1>2, <1>5, <1>6, <2>1, JoinThenCreate
  <2>. QED
    BY <1>2, <1>4, <1>7, <2>2, JoinsOnly
<1>9. CASE create # "createCalib"
  <2>1. Ordered(Loops, "start", join, create, threads)
    BY <1>2, <1>3, JoinThenCreate
  <2>2. Lacks(<<"createCalib">>, create)
    BY <1>9, SmallCalls
  <2>3. Ordered(SdkStart, "start", join, create, threads)
    BY <1>2, <1>5, <1>6, <2>1, <2>2, OrderedThenMore
  <2>. QED
    BY <1>2, <1>4, <1>7, <2>3, JoinsOnly
<1>. QED
  BY <1>8, <1>9

-----------------------------------------------------------------------------
(***************************************************************************)
(* The inductive step, one lemma per part of the invariant.                *)
(***************************************************************************)
LEMMA InitHolds == Init => IInv
<1>. SUFFICES ASSUME Init PROVE IInv
  OBVIOUS
<1>. USE StartsAssumption, AnswerAssumption
     DEF StartsAssumption, AnswerAssumption, Init, TcpInit
<1>1. answer \in Answers
  OBVIOUS
<1>2. TypeOK
  <2>1. todo \in Seq(Steps) /\ data \in Seq(Nat)
    OBVIOUS
  <2>2. {enableRecv, enableProc, loop, gotFlag} \subseteq BOOLEAN
    OBVIOUS
  <2>3. /\ {proc, recv} \subseteq [Ids -> {"none", "check", "work", "ended"}]
        /\ calib \in [Ids -> {"none", "request", "file", "ended"}]
        /\ stage \in [Ids -> {"idle", "request", "answered", "refused", "failed"} \cup Busy]
    BY DEF Ids
  <2>4. sent \in 0 .. Magic + Header + answer.len /\ taken \in 0 .. sent
    BY <1>1
  <2>. QED
    BY <1>1, <2>1, <2>2, <2>3, <2>4 DEF TypeOK, Steps
<1>3. Alive(proc) = {} /\ Alive(recv) = {} /\ Alive(calib) = {}
  BY DEF Alive
<1>4. ProcInv /\ RecvInv /\ CalibInv /\ Counted
  BY <1>3 DEF ProcInv, RecvInv, CalibInv, Counted, Ordered, Handled
<1>5. Connection /\ Filled /\ ContentWhole /\ (table \in {"device", "none"} => gotFlag)
  BY DEF Connection, Filled, ContentWhole, Ids, Busy
<1>. QED
  BY <1>2, <1>4, <1>5 DEF IInv

\* One step of the owner: which it is, and what it leaves of the call.
LEMMA OwnerTail ==
  ASSUME TypeOK, NEW name, Step(name)
  PROVE  /\ todo \in Seq(Steps) /\ todo # <<>> /\ Head(todo) = name
         /\ todo' = Tail(todo) /\ todo' \in Seq(Steps) /\ called' = called /\ starts' = starts
         /\ Len(todo') = Len(todo) - 1
         /\ \A i \in 1 .. Len(todo') : i + 1 \in 1 .. Len(todo) /\ todo'[i] = todo[i + 1]
<1>1. todo \in Seq(Steps)
  BY DEF TypeOK, Steps
<1>. QED
  BY <1>1, HeadTailProperties DEF Step, callVars

LEMMA CountedStep ==
  ASSUME IInv, [Next]_vars
  PROVE  Counted'
<1>. USE DEF Counted, IInv
<1>1. CASE CallStart
  BY <1>1, StartsAssumption DEF CallStart, Call, TypeOK, StartsAssumption
<1>2. CASE CallStop \/ CallDelete
  <2>1. \A create \in Creates : Lacks(SdkStop, create) /\ Lacks(InternalStop, create)
                                /\ Lacks(ReaderStop, create)
    BY SmallCalls
  <2>2. {SdkStop, InternalStop, ReaderStop} \subseteq Seq(Steps)
    BY SmallCalls
  <2>3. \A create \in Creates : Lacks(SdkDelete, create)
    <3>1. SdkStop \o InternalStop \in Seq(Steps)
      BY <2>2, CallsInARow
    <3>. QED
      BY <2>1, <2>2, <3>1, CallsInARow DEF SdkDelete
  <2>. QED
    BY <1>2, <2>1, <2>3 DEF CallStop, CallDelete, Call, Lacks, Creates
<1>3. CASE Owner
  <2>1. PICK name : Step(name)
    BY <1>3 DEF Owner, ClearFlags, ClearLoop, JoinProc, JoinRecv, JoinCalib, SetFlags, SetLoop,
                CreateProc, CreateRecv, CreateCalib
  <2>. QED
    BY <2>1, OwnerTail
<1>4. CASE UNCHANGED <<todo, starts>>
  BY <1>4
<1>5. QED
  BY <1>1, <1>2, <1>3, <1>4
     DEF Next, LidarAnswers, ProcThread, RecvThread, ReaderEnds, CalibThread, Request,
         LoadFromDevice, GiveUpDevice, LoadFromFile, vars, ownerVars

\* The three kinds of thread in turn: a join finds the one its handle names ended, a
\* creation follows a join.
LEMMA ProcStep ==
  ASSUME IInv, [Next]_vars
  PROVE  ProcInv'
<1>. USE DEF ProcInv
<1>1. TypeOK /\ ProcInv /\ todo \in Seq(Steps)
  BY DEF IInv, TypeOK, Steps
<1>2. CASE CallStart \/ CallStop \/ CallDelete
  BY <1>1, <1>2, CallsOrdered
     DEF CallStart, CallStop, CallDelete, Call, handleVars, threadVars, Handled
<1>3. CASE JoinProc
  <2>1. Alive(proc) = {}
    BY <1>1, <1>3 DEF JoinProc, Joined, Handled, Alive, TypeOK, Ids
  <2>2. Ordered(todo', called', "joinProc", "createProc", proc)
    BY <1>1, <1>3, <2>1, OwnerTail, OrderedJoin DEF JoinProc
  <2>. QED
    BY <1>3, <2>1, <2>2 DEF JoinProc, threadVars, Handled
<1>4. CASE CreateProc
  <2>1. /\ Alive(proc) = {}
        /\ Ordered(todo', called', "joinProc", "createProc", proc')
    <3>1. /\ todo # <<>> /\ Head(todo) = "createProc"
          /\ todo' = Tail(todo) /\ called' = called
      BY <1>1, <1>4, OwnerTail DEF CreateProc
    <3>. QED
      BY <1>1, <3>1, OrderedCreate
  <2>2. \A k \in Alive(proc') : k = procThr'
    BY <1>1, <1>4, <2>1 DEF CreateProc, Alive, TypeOK
  <2>. QED
    BY <2>1, <2>2 DEF Handled
<1>5. CASE Owner /\ ~JoinProc /\ ~CreateProc
  <2>1. PICK name \in Steps \ {"joinProc", "createProc"} : Step(name) /\ UNCHANGED <<procThr, proc>>
    BY <1>5 DEF Owner, ClearFlags, ClearLoop, JoinRecv, JoinCalib, SetFlags, SetLoop, CreateRecv, CreateCalib, Steps,
                handleVars, threadVars
  <2>2. Ordered(todo', called', "joinProc", "createProc", proc)
    BY <1>1, <2>1, OwnerTail, OrderedTail
  <2>. QED
    BY <1>1, <2>1, <2>2 DEF Handled
<1>6. ASSUME NEW k \in Ids, ProcThread(k)
      PROVE  ProcInv'
  <2>1. Alive(proc') \subseteq Alive(proc) /\ UNCHANGED <<todo, called, procThr>>
    BY <1>1, <1>6 DEF ProcThread, Alive, TypeOK, ownerVars, handleVars
  <2>. QED
    BY <1>1, <2>1, OrderedFewer DEF Handled
<1>7. CASE UNCHANGED <<todo, called, procThr, proc>>
  BY <1>1, <1>7 DEF Handled
<1>. QED
  BY <1>2, <1>3, <1>4, <1>5, <1>6, <1>7
     DEF Next, LidarAnswers, RecvThread, ReaderEnds, CalibThread, Request, LoadFromDevice,
         GiveUpDevice, LoadFromFile, vars, ownerVars, handleVars, threadVars

LEMMA RecvStep ==
  ASSUME IInv, [Next]_vars
  PROVE  RecvInv'
<1>. USE DEF RecvInv
<1>1. TypeOK /\ RecvInv /\ todo \in Seq(Steps)
  BY DEF IInv, TypeOK, Steps
<1>2. CASE CallStart \/ CallStop \/ CallDelete
  BY <1>1, <1>2, CallsOrdered
     DEF CallStart, CallStop, CallDelete, Call, handleVars, threadVars, Handled
<1>3. CASE JoinRecv
  <2>1. Alive(recv) = {}
    BY <1>1, <1>3 DEF JoinRecv, Joined, Handled, Alive, TypeOK, Ids
  <2>2. Ordered(todo', called', "joinRecv", "createRecv", recv)
    BY <1>1, <1>3, <2>1, OwnerTail, OrderedJoin DEF JoinRecv
  <2>. QED
    BY <1>3, <2>1, <2>2 DEF JoinRecv, threadVars, Handled
<1>4. CASE CreateRecv
  <2>1. /\ Alive(recv) = {}
        /\ Ordered(todo', called', "joinRecv", "createRecv", recv')
    <3>1. /\ todo # <<>> /\ Head(todo) = "createRecv"
          /\ todo' = Tail(todo) /\ called' = called
      BY <1>1, <1>4, OwnerTail DEF CreateRecv
    <3>. QED
      BY <1>1, <3>1, OrderedCreate
  <2>2. \A k \in Alive(recv') : k = recvThr'
    BY <1>1, <1>4, <2>1 DEF CreateRecv, Alive, TypeOK
  <2>. QED
    BY <2>1, <2>2 DEF Handled
<1>5. CASE Owner /\ ~JoinRecv /\ ~CreateRecv
  <2>1. PICK name \in Steps \ {"joinRecv", "createRecv"} : Step(name) /\ UNCHANGED <<recvThr, recv>>
    BY <1>5 DEF Owner, ClearFlags, ClearLoop, JoinProc, JoinCalib, SetFlags, SetLoop, CreateProc, CreateCalib, Steps,
                handleVars, threadVars
  <2>2. Ordered(todo', called', "joinRecv", "createRecv", recv)
    BY <1>1, <2>1, OwnerTail, OrderedTail
  <2>. QED
    BY <1>1, <2>1, <2>2 DEF Handled
<1>6. ASSUME NEW k \in Ids, RecvThread(k) \/ ReaderEnds(k)
      PROVE  RecvInv'
  <2>1. Alive(recv') \subseteq Alive(recv) /\ UNCHANGED <<todo, called, recvThr>>
    BY <1>1, <1>6 DEF RecvThread, ReaderEnds, Alive, TypeOK, ownerVars, handleVars
  <2>. QED
    BY <1>1, <2>1, OrderedFewer DEF Handled
<1>7. CASE UNCHANGED <<todo, called, recvThr, recv>>
  BY <1>1, <1>7 DEF Handled
<1>. QED
  BY <1>2, <1>3, <1>4, <1>5, <1>6, <1>7
     DEF Next, LidarAnswers, ProcThread, CalibThread, Request, LoadFromDevice,
         GiveUpDevice, LoadFromFile, vars, ownerVars, handleVars, threadVars

LEMMA CalibStep ==
  ASSUME IInv, [Next]_vars
  PROVE  CalibInv'
<1>. USE DEF CalibInv
<1>1. TypeOK /\ CalibInv /\ todo \in Seq(Steps)
  BY DEF IInv, TypeOK, Steps
<1>2. CASE CallStart \/ CallStop \/ CallDelete
  BY <1>1, <1>2, CallsOrdered
     DEF CallStart, CallStop, CallDelete, Call, handleVars, threadVars, Handled
<1>3. CASE JoinCalib
  <2>1. Alive(calib) = {}
    BY <1>1, <1>3 DEF JoinCalib, Joined, Handled, Alive, TypeOK, Ids
  <2>2. Ordered(todo', called', "joinCalib", "createCalib", calib)
    BY <1>1, <1>3, <2>1, OwnerTail, OrderedJoin DEF JoinCalib
  <2>. QED
    BY <1>3, <2>1, <2>2 DEF JoinCalib, threadVars, Handled
<1>4. CASE CreateCalib
  <2>1. /\ Alive(calib) = {}
        /\ Ordered(todo', called', "joinCalib", "createCalib", calib')
    <3>1. /\ todo # <<>> /\ Head(todo) = "createCalib"
          /\ todo' = Tail(todo) /\ called' = called
      BY <1>1, <1>4, OwnerTail DEF CreateCalib
    <3>. QED
      BY <1>1, <3>1, OrderedCreate
  <2>2. \A k \in Alive(calib') : k = calibThr'
    BY <1>1, <1>4, <2>1 DEF CreateCalib, Alive, TypeOK
  <2>. QED
    BY <2>1, <2>2 DEF Handled
<1>5. CASE Owner /\ ~JoinCalib /\ ~CreateCalib
  <2>1. PICK name \in Steps \ {"joinCalib", "createCalib"} : Step(name) /\ UNCHANGED <<calibThr, calib>>
    BY <1>5 DEF Owner, ClearFlags, ClearLoop, JoinProc, JoinRecv, SetFlags, SetLoop, CreateProc, CreateRecv, Steps,
                handleVars, threadVars
  <2>2. Ordered(todo', called', "joinCalib", "createCalib", calib)
    BY <1>1, <2>1, OwnerTail, OrderedTail
  <2>. QED
    BY <1>1, <2>1, <2>2 DEF Handled
<1>6. ASSUME NEW k \in Ids, LoadFromDevice(k) \/ GiveUpDevice(k) \/ LoadFromFile(k)
      PROVE  CalibInv'
  <2>1. Alive(calib') \subseteq Alive(calib) /\ UNCHANGED <<todo, called, calibThr>>
    BY <1>1, <1>6 DEF LoadFromDevice, GiveUpDevice, LoadFromFile, Alive, TypeOK, ownerVars,
                      handleVars
  <2>. QED
    BY <1>1, <2>1, OrderedFewer DEF Handled
<1>7. CASE UNCHANGED <<todo, called, calibThr, calib>>
  BY <1>1, <1>7 DEF Handled
<1>. QED
  BY <1>2, <1>3, <1>4, <1>5, <1>6, <1>7
     DEF Next, LidarAnswers, ProcThread, RecvThread, ReaderEnds, CalibThread, Request,
         vars, ownerVars, handleVars, threadVars

\* The calibration thread is created when the last one has ended and holds nothing.
LEMMA CreateCalibFresh ==
  ASSUME IInv, CreateCalib
  PROVE  starts \in Ids /\ Alive(calib) = {} /\ stage[starts] \notin Busy \cup {"request"}
<1>1. /\ todo \in Seq(Steps) /\ todo # <<>> /\ Head(todo) = "createCalib" /\ todo[1] = Head(todo)
      /\ 1 \in 1 .. Len(todo)
  BY OwnerTail DEF CreateCalib, IInv
<1>2. starts \in Ids
  BY <1>1 DEF IInv, Counted, TypeOK, Ids
<1>3. Alive(calib) = {}
  BY <1>1, OrderedCreate DEF IInv, CalibInv
<1>. QED
  BY <1>2, <1>3 DEF IInv, Connection, Alive, TypeOK

\* The requests: the mutex lets one client at a time into tcpCommandClient_SendCmd,
\* and every way out of it gives back mutex and socket.
LEMMA ConnectionStep ==
  ASSUME IInv, [Next]_vars
  PROVE  Connection'
<1>. USE DEF Connection, Ids, Busy
<1>1. TypeOK /\ Connection /\ stage \in [Ids -> {"idle", "request", "answered", "refused", "failed"} \cup Busy]
  BY DEF IInv, TypeOK
<1>2. lock \in 0 .. MaxStarts /\ calib \in [Ids -> {"none", "request", "file", "ended"}]
  BY DEF IInv, TypeOK
<1>3. ASSUME NEW k \in Ids, Request(k)
      PROVE  Connection'
  <2>. USE <1>1, <1>2, <1>3 DEF Place, Leave, connVars
  <2>1. calib' = calib
    BY DEF Request, threadVars
  <2>2. CASE Lock(k)
    BY <2>1, <2>2 DEF Lock
  <2>3. CASE OpenFails(k)
    BY <2>1, <2>3 DEF OpenFails
  <2>4. CASE Open(k)
    BY <2>1, <2>4 DEF Open
  <2>5. CASE WriteFails(k)
    BY <2>1, <2>5 DEF WriteFails
  <2>6. CASE Write(k)
    BY <2>1, <2>6 DEF Write
  <2>7. CASE Read(k)
    BY <2>1, <2>7 DEF Read
  <2>8. CASE GetMagic(k)
    BY <2>1, <2>8 DEF GetMagic
  <2>9. CASE GetHeader(k)
    BY <2>1, <2>9 DEF GetHeader
  <2>10. CASE GetPayload(k)
    BY <2>1, <2>10 DEF GetPayload
  <2>11. CASE ReadFails(k)
    BY <2>1, <2>11 DEF ReadFails, Reading
  <2>. QED
    BY <2>2, <2>3, <2>4, <2>5, <2>6, <2>7, <2>8, <2>9, <2>10, <2>11 DEF Request, Client
<1>4. ASSUME NEW k \in Ids, LoadFromDevice(k) \/ GiveUpDevice(k) \/ LoadFromFile(k)
      PROVE  Connection'
  BY <1>1, <1>2, <1>4 DEF LoadFromDevice, GiveUpDevice, LoadFromFile, tcpVars
<1>5. CASE CreateCalib
  <2>1. /\ starts \in Ids /\ stage[starts] \notin Busy \cup {"request"}
        /\ UNCHANGED <<lock, sockets>>
    BY <1>5, CreateCalibFresh DEF CreateCalib
  <2>2. /\ calib' = [calib EXCEPT ![starts] = IF Lidar THEN "request" ELSE "ended"]
        /\ stage' = IF Lidar THEN [stage EXCEPT ![starts] = "request"] ELSE stage
    BY <1>5 DEF CreateCalib, Place
  <2>3. \A k \in Ids \ {starts} : stage'[k] = stage[k] /\ calib'[k] = calib[k]
    BY <1>1, <1>2, <2>2
  <2>4. /\ stage'[starts] = (IF Lidar THEN "request" ELSE stage[starts])
        /\ calib'[starts] = (IF Lidar THEN "request" ELSE "ended")
    BY <1>1, <1>2, <2>1, <2>2
  <2>5. \A k \in Ids : stage'[k] \in Busy <=> stage[k] \in Busy
    BY <2>1, <2>3, <2>4
  <2>6. {k \in Ids : stage'[k] \in Busy \ {"open"}} = {k \in Ids : stage[k] \in Busy \ {"open"}}
    BY <2>1, <2>3, <2>4
  <2>7. \A k \in Ids : stage'[k] \in Busy \cup {"request"} => calib'[k] = "request"
    BY <1>1, <2>1, <2>3, <2>4
  <2>. QED
    BY <1>1, <2>1, <2>5, <2>6, <2>7
<1>6. CASE UNCHANGED <<lock, stage, sockets, calib>>
  BY <1>1, <1>6
<1>. QED
  BY <1>3, <1>4, <1>5, <1>6
     DEF Next, CallStart, CallStop, CallDelete, Call, Owner, ClearFlags, ClearLoop, JoinProc,
         JoinRecv, JoinCalib, SetFlags, SetLoop, CreateProc, CreateRecv, LidarAnswers, Device,
         Deliver, HangUp, ProcThread, RecvThread, ReaderEnds, CalibThread, vars, threadVars,
         tcpVars, connVars

\* The variables of the owner, whichever step it takes.
LEMMA OwnerTypes ==
  ASSUME IInv, [Next]_vars
  PROVE  /\ source' \in {"lidar", "pcap"} /\ file' \in {"absent", "rowless", "rows"}
         /\ todo' \in Seq(Steps)
         /\ called' \in {"none", "start", "stop", "delete"} /\ starts' \in 0 .. MaxStarts
         /\ {enableRecv', enableProc', loop', gotFlag'} \subseteq BOOLEAN
         /\ {procThr', recvThr', calibThr'} \subseteq 0 .. MaxStarts
         /\ table' \in {"default", "device", "file", "none"}
<1>. USE StartsAssumption DEF StartsAssumption
<1>1. /\ TypeOK /\ todo \in Seq(Steps)
      /\ {enableRecv, enableProc, loop, gotFlag} \subseteq BOOLEAN
      /\ {procThr, recvThr, calibThr} \subseteq 0 .. MaxStarts
  BY DEF IInv, TypeOK, Steps
<1>2. source' = source /\ file' = file
  BY DEF Next, CallStart, CallStop, CallDelete, Call, Owner, ClearFlags, ClearLoop, JoinProc,
         JoinRecv, JoinCalib, SetFlags, SetLoop, CreateProc, CreateRecv, CreateCalib, Step,
         callVars, LidarAnswers, ProcThread, RecvThread, ReaderEnds, CalibThread, Request,
         LoadFromDevice, GiveUpDevice, LoadFromFile, ownerVars, vars
<1>3. CASE CallStart \/ CallStop \/ CallDelete
  <2>1. {SdkStart, SdkStop, SdkDelete} \subseteq Seq(Steps)
    BY CallsOrdered
  <2>2. starts' \in 0 .. MaxStarts
    BY <1>1, <1>3 DEF CallStart, CallStop, CallDelete, TypeOK
  <2>. QED
    BY <1>1, <1>2, <1>3, <2>1, <2>2
       DEF CallStart, CallStop, CallDelete, Call, flagVars, handleVars, calibVars, TypeOK
<1>4. CASE Owner
  <2>1. PICK name : Step(name)
    BY <1>4 DEF Owner, ClearFlags, ClearLoop, JoinProc, JoinRecv, JoinCalib, SetFlags, SetLoop,
                CreateProc, CreateRecv, CreateCalib
  <2>2. todo' \in Seq(Steps) /\ UNCHANGED <<called, starts, table, gotFlag>>
    BY <1>1, <2>1, OwnerTail DEF Step, callVars, calibVars
  <2>3. {enableRecv', enableProc', loop'} \subseteq BOOLEAN
    BY <1>1, <1>4 DEF Owner, ClearFlags, ClearLoop, JoinProc, JoinRecv, JoinCalib, SetFlags,
                      SetLoop, CreateProc, CreateRecv, CreateCalib, flagVars
  <2>4. {procThr', recvThr', calibThr'} \subseteq 0 .. MaxStarts
    BY <1>1, <1>4 DEF Owner, ClearFlags, ClearLoop, JoinProc, JoinRecv, JoinCalib, SetFlags,
                      SetLoop, CreateProc, CreateRecv, CreateCalib, handleVars, TypeOK
  <2>. QED
    BY <1>1, <1>2, <2>2, <2>3, <2>4 DEF TypeOK
<1>5. CASE UNCHANGED <<ownerVars, calibVars>>
  BY <1>1, <1>5 DEF TypeOK, ownerVars, calibVars, flagVars, handleVars
<1>6. ASSUME NEW k \in Ids, LoadFromDevice(k) \/ LoadFromFile(k)
      PROVE  /\ table' \in {"default", "device", "file", "none"} /\ gotFlag' \in BOOLEAN
             /\ UNCHANGED ownerVars
  BY <1>1, <1>6 DEF LoadFromDevice, LoadFromFile, Load, TypeOK, calibVars
<1>7. CASE UNCHANGED ownerVars /\ table' \in {"default", "device", "file", "none"} /\ gotFlag' \in BOOLEAN
  BY <1>1, <1>7 DEF TypeOK, ownerVars, flagVars, handleVars
<1>. QED
  BY <1>3, <1>4, <1>5, <1>6, <1>7
     DEF Next, LidarAnswers, ProcThread, RecvThread, ReaderEnds, CalibThread, Request,
         GiveUpDevice, vars

\* Where the threads are.
LEMMA ThreadTypes ==
  ASSUME IInv, [Next]_vars
  PROVE  /\ {proc', recv'} \subseteq [Ids -> {"none", "check", "work", "ended"}]
         /\ calib' \in [Ids -> {"none", "request", "file", "ended"}]
<1>1. /\ {proc, recv} \subseteq [Ids -> {"none", "check", "work", "ended"}]
      /\ calib \in [Ids -> {"none", "request", "file", "ended"}]
  BY DEF IInv, TypeOK
<1>. QED
  BY <1>1
     DEF Next, CallStart, CallStop, CallDelete, Call, Owner, ClearFlags, ClearLoop, JoinProc,
         JoinRecv, JoinCalib, SetFlags, SetLoop, CreateProc, CreateRecv, CreateCalib,
         LidarAnswers, ProcThread, RecvThread, ReaderEnds, CalibThread, Request,
         LoadFromDevice, GiveUpDevice, LoadFromFile, vars, threadVars

\* The connection.
LEMMA ClientTypes ==
  ASSUME IInv, NEW k \in Ids, Client(k)
  PROVE  /\ lock' \in 0 .. MaxStarts
         /\ stage' \in [Ids -> {"idle", "request", "answered", "refused", "failed"} \cup Busy]
         /\ answer' \in Answers /\ line' \in {"up", "closed", "reset"}
         /\ sent' \in 0 .. Magic + Header + answer'.len /\ taken' \in 0 .. sent'
         /\ data' \in Seq(Nat)
<1>. USE AnswerAssumption, StartsAssumption
     DEF AnswerAssumption, StartsAssumption, Place, Leave, connVars, Ids, Busy
<1>1. /\ lock \in 0 .. MaxStarts
      /\ stage \in [Ids -> {"idle", "request", "answered", "refused", "failed"} \cup Busy]
      /\ answer \in Answers /\ answer.len \in Nat /\ line \in {"up", "closed", "reset"}
      /\ sent \in 0 .. Magic + Header + answer.len /\ taken \in 0 .. sent
      /\ data \in Seq(Nat)
  BY DEF IInv, TypeOK
<1>2. CASE Lock(k)
  BY <1>1, <1>2 DEF Lock
<1>3. CASE OpenFails(k)
  BY <1>1, <1>3 DEF OpenFails
<1>4. CASE Open(k)
  BY <1>1, <1>4 DEF Open
<1>5. CASE WriteFails(k) \/ Write(k) \/ GetMagic(k) \/ GetPayload(k) \/ ReadFails(k)
  <2>1. lock' \in {0, lock} /\ UNCHANGED connVars
    BY <1>5 DEF WriteFails, Write, GetMagic, GetPayload, ReadFails
  <2>2. stage' \in [Ids -> {"idle", "request", "answered", "refused", "failed"} \cup Busy]
    <3>1. \E where \in {"magic", "header", "answered", "refused", "failed"} :
            stage' = [stage EXCEPT ![k] = where]
      BY <1>5 DEF WriteFails, Write, GetMagic, GetPayload, ReadFails
    <3>. QED
      BY <1>1, <3>1
  <2>. QED
    BY <1>1, <2>1, <2>2
<1>6. CASE Read(k)
  <2>1. taken' \in 0 .. sent /\ taken' \in Nat
    <3>1. Wanted(k) \in Nat
      BY <1>1, <1>6 DEF Read, Reading, Wanted
    <3>. QED
      BY <1>1, <1>6, <3>1 DEF Read
  <2>2. data' \in Seq(Nat)
    <3>. DEFINE byte(i) == IF Magic + Header + i <= taken' THEN Magic + Header + i ELSE data[i]
    <3>1. data' = [i \in 1 .. Len(data) |-> byte(i)]
      BY <1>6 DEF Read, Stored
    <3>2. ASSUME NEW i \in 1 .. Len(data)
          PROVE  byte(i) \in Nat
      <4>1. i \in Nat /\ data[i] \in Nat
        BY <1>1
      <4>2. Magic + Header + i \in Nat
        BY <4>1
      <4>. QED
        BY <4>1, <4>2
    <3>3. Len(data) \in Nat
      BY <1>1
    <3>. HIDE DEF byte
    <3>. QED
      BY <3>1, <3>2, <3>3
  <2>. QED
    BY <1>1, <1>6, <2>1, <2>2 DEF Read
<1>7. CASE GetHeader(k)
  <2>1. data' \in Seq(Nat)
    BY <1>1, <1>7 DEF GetHeader
  <2>. QED
    BY <1>1, <1>7, <2>1 DEF GetHeader
<1>. QED
  BY <1>2, <1>3, <1>4, <1>5, <1>6, <1>7 DEF Client

LEMMA TypesStep ==
  ASSUME IInv, [Next]_vars
  PROVE  TypeOK'
<1>. USE AnswerAssumption, StartsAssumption DEF AnswerAssumption, StartsAssumption
<1>1. /\ lock \in 0 .. MaxStarts
      /\ stage \in [Ids -> {"idle", "request", "answered", "refused", "failed"} \cup Busy]
      /\ answer \in Answers /\ answer.len \in Nat /\ line \in {"up", "closed", "reset"}
      /\ sent \in 0 .. Magic + Header + answer.len /\ taken \in 0 .. sent
      /\ data \in Seq(Nat)
  BY DEF IInv, TypeOK
<1>2. /\ lock' \in 0 .. MaxStarts
      /\ stage' \in [Ids -> {"idle", "request", "answered", "refused", "failed"} \cup Busy]
      /\ answer' \in Answers /\ line' \in {"up", "closed", "reset"}
      /\ sent' \in 0 .. Magic + Header + answer'.len /\ taken' \in 0 .. sent'
      /\ data' \in Seq(Nat)
  <2>1. CASE \E k \in Ids : Request(k)
    BY <2>1, ClientTypes DEF Request
  <2>2. CASE LidarAnswers
    BY <1>1, <2>2 DEF LidarAnswers, Device, Deliver, HangUp
  <2>3. CASE CreateCalib
    BY <1>1, <2>3 DEF CreateCalib, Place, connVars
  <2>4. CASE UNCHANGED tcpVars
    BY <1>1, <2>4 DEF tcpVars
  <2>. QED
    BY <2>1, <2>2, <2>3, <2>4
       DEF Next, CallStart, CallStop, CallDelete, Call, Owner, ClearFlags, ClearLoop, JoinProc,
           JoinRecv, JoinCalib, SetFlags, SetLoop, CreateProc, CreateRecv, ProcThread,
           RecvThread, ReaderEnds, CalibThread, LoadFromDevice, GiveUpDevice, LoadFromFile,
           vars
<1>3. sockets' \subseteq {lock'} /\ (lock' # 0 => stage'[lock'] \in Busy)
  BY <1>2, ConnectionStep DEF Connection, Ids
<1>. QED
  BY <1>2, <1>3, OwnerTypes, ThreadTypes DEF TypeOK, Steps

\* cmd->data: every byte read() returns goes to its place.
LEMMA FilledStep ==
  ASSUME IInv, [Next]_vars
  PROVE  Filled'
<1>. USE AnswerAssumption DEF Filled, AnswerAssumption
<1>1. /\ Filled /\ Connection /\ answer \in Answers /\ answer.len \in Nat
      /\ data \in Seq(Nat) /\ sent \in Nat /\ taken \in 0 .. sent
      /\ stage \in [Ids -> {"idle", "request", "answered", "refused", "failed"} \cup Busy]
  BY DEF IInv, TypeOK
<1>2. ASSUME NEW k \in Ids, Client(k)
      PROVE  Filled'
  <2>. USE DEF Place, Leave, connVars
  <2>1. CASE Lock(k) \/ OpenFails(k) \/ WriteFails(k) \/ Write(k) \/ GetPayload(k) \/ ReadFails(k)
    BY <1>1, <2>1 DEF Lock, OpenFails, WriteFails, Write, GetPayload, ReadFails
  <2>2. CASE Open(k)
    BY <1>1, <2>2 DEF Open, Connection, Busy
  <2>3. CASE Read(k)
    <3>1. taken' \in Nat
      BY <1>1, <2>3 DEF Read, Wanted, Reading
    <3>2. Len(data') = Len(data)
      BY <1>1, <2>3 DEF Read, Stored
    <3>3. \A i \in 1 .. Len(data) : Magic + Header + i <= taken' => data'[i] = Magic + Header + i
      BY <1>1, <2>3, <3>1 DEF Read, Stored
    <3>. QED
      BY <1>1, <2>3, <3>1, <3>2, <3>3 DEF Read
  <2>4. CASE GetMagic(k)
    BY <1>1, <2>4 DEF GetMagic, MagicOk
  <2>5. CASE GetHeader(k)
    <3>1. taken = Magic + Header /\ Len(data') = answer.len
      BY <1>1, <2>5 DEF GetHeader, Whole, Wanted
    <3>2. stage[k] = "header" /\ \A l \in Ids \ {k} : stage'[l] = stage[l]
      BY <1>1, <2>5 DEF GetHeader
    <3>3. \A l \in Ids \ {k} : stage[l] # "payload"
      BY <1>1, <3>2 DEF Connection, Busy
    <3>. QED
      BY <1>1, <2>5, <3>1, <3>2, <3>3 DEF GetHeader
  <2>. QED
    BY <1>2, <2>1, <2>2, <2>3, <2>4, <2>5 DEF Client
<1>3. CASE LidarAnswers
  BY <1>1, <1>3 DEF LidarAnswers, Device, Deliver, HangUp
<1>4. CASE CreateCalib
  BY <1>1, <1>4 DEF CreateCalib, Place, connVars, TypeOK
<1>5. CASE UNCHANGED tcpVars
  BY <1>1, <1>5 DEF tcpVars
<1>. QED
  BY <1>2, <1>3, <1>4, <1>5
     DEF Next, CallStart, CallStop, CallDelete, Call, Owner, ClearFlags, ClearLoop, JoinProc,
         JoinRecv, JoinCalib, SetFlags, SetLoop, CreateProc, CreateRecv, ProcThread,
         RecvThread, ReaderEnds, CalibThread, Request, LoadFromDevice, GiveUpDevice,
         LoadFromFile, vars

\* Between the answer and its use no other request can reach ret_str: only one
\* calibration thread is alive.
LEMMA ContentStep ==
  ASSUME IInv, [Next]_vars
  PROVE  ContentWhole'
<1>. USE AnswerAssumption DEF ContentWhole, AnswerAssumption
<1>1. /\ ContentWhole /\ Filled /\ Connection /\ answer \in Answers /\ answer.len \in Nat
      /\ data \in Seq(Nat)
      /\ stage \in [Ids -> {"idle", "request", "answered", "refused", "failed"} \cup Busy]
      /\ calib \in [Ids -> {"none", "request", "file", "ended"}]
  BY DEF IInv, TypeOK
<1>2. \A k, l \in Ids : calib[k] = "request" /\ calib[l] = "request" => k = l
  BY <1>1 DEF IInv, CalibInv, Handled, Alive
<1>3. ASSUME NEW k \in Ids, Request(k)
      PROVE  ContentWhole'
  <2>. USE DEF Place, Leave, connVars
  <2>1. calib' = calib /\ \A l \in Ids : calib[l] = "request" => l = k
    BY <1>2, <1>3 DEF Request, threadVars
  <2>2. \A l \in Ids : stage'[l] = "answered" /\ calib'[l] = "request" => l = k
    BY <2>1
  <2>3. CASE GetPayload(k)
    <3>1. stage'[k] = "answered" => answer.code = 0
      BY <1>1, <2>3 DEF GetPayload
    <3>2. answer.magic /\ Len(data) = answer.len
      BY <1>1, <2>3 DEF GetPayload, Filled
    <3>3. \A i \in 1 .. answer.len : data[i] = Magic + Header + i
      <4>1. stage[k] = "payload" /\ taken = Magic + Header + answer.len
        BY <2>3 DEF GetPayload, Whole, Wanted
      <4>2. \A i \in 1 .. answer.len : Magic + Header + i <= taken
        BY <1>1, <4>1
      <4>. QED
        BY <1>1, <4>1, <4>2 DEF Filled
    <3>4. data = [i \in 1 .. answer.len |-> Magic + Header + i]
      <4>1. data = [i \in 1 .. Len(data) |-> data[i]]
        BY <1>1
      <4>. QED
        BY <3>2, <3>3, <4>1
    <3>. QED
      BY <2>2, <2>3, <3>1, <3>2, <3>4 DEF GetPayload
  <2>4. CASE ~GetPayload(k)
    <3>1. stage'[k] # "answered"
      BY <1>1, <1>3, <2>4
         DEF Request, Client, Lock, OpenFails, Open, WriteFails, Write, Read, Reading, GetMagic,
             GetHeader, ReadFails
    <3>. QED
      BY <2>2, <3>1
  <2>. QED
    BY <2>3, <2>4
<1>4. ASSUME NEW k \in Ids, LoadFromDevice(k) \/ GiveUpDevice(k) \/ LoadFromFile(k)
      PROVE  ContentWhole'
  BY <1>1, <1>4 DEF LoadFromDevice, GiveUpDevice, LoadFromFile, tcpVars
<1>5. CASE LidarAnswers
  BY <1>1, <1>5 DEF LidarAnswers, Device, Deliver, HangUp, threadVars
<1>6. CASE CreateCalib
  BY <1>1, <1>6 DEF CreateCalib, Place, connVars, Lidar
<1>7. CASE UNCHANGED <<tcpVars, calib>>
  BY <1>1, <1>7 DEF tcpVars
<1>. QED
  BY <1>3, <1>4, <1>5, <1>6, <1>7
     DEF Next, CallStart, CallStop, CallDelete, Call, Owner, ClearFlags, ClearLoop, JoinProc,
         JoinRecv, JoinCalib, SetFlags, SetLoop, CreateProc, CreateRecv, ProcThread,
         RecvThread, ReaderEnds, CalibThread, vars, threadVars

\* The flag says that a content was taken.
LEMMA FlagStep ==
  ASSUME IInv, [Next]_vars
  PROVE  /\ table' \in {"device", "none"} => gotFlag'
         /\ table \in {"device", "none"} => table' # "file"
<1>1. table \in {"device", "none"} => gotFlag
  BY DEF IInv
<1>2. ASSUME NEW k \in Ids, LoadFromDevice(k)
      PROVE  table' \in {"device", "none"} /\ gotFlag'
  BY <1>2 DEF LoadFromDevice, Load
<1>3. ASSUME NEW k \in Ids, LoadFromFile(k)
      PROVE  \/ UNCHANGED calibVars
             \/ gotFlag' /\ ~gotFlag
  BY <1>3 DEF LoadFromFile, Load
<1>4. \/ UNCHANGED calibVars
      \/ \E k \in Ids : LoadFromDevice(k) \/ LoadFromFile(k)
  BY DEF Next, CallStart, CallStop, CallDelete, Call, Owner, ClearFlags, ClearLoop, JoinProc,
         JoinRecv, JoinCalib, SetFlags, SetLoop, CreateProc, CreateRecv, CreateCalib, Step,
         LidarAnswers, ProcThread, RecvThread, ReaderEnds, CalibThread, Request, GiveUpDevice,
         vars
<1>. QED
  BY <1>1, <1>2, <1>3, <1>4 DEF calibVars

-----------------------------------------------------------------------------
(***************************************************************************)
(* What the runs check, for every value of the constants.                  *)
(***************************************************************************)

LEMMA IInvInductive == Spec => []IInv
<1>1. IInv /\ [Next]_vars => IInv'
  <2> SUFFICES ASSUME IInv, [Next]_vars PROVE IInv'
    OBVIOUS
  <2>. QED
    BY TypesStep, ProcStep, RecvStep, CalibStep, CountedStep, ConnectionStep, FilledStep,
       ContentStep, FlagStep DEF IInv
<1>. QED
  BY <1>1, InitHolds, PTL DEF Spec

\* The types, and the mutex and the socket only with a client whose request is
\* under way: no path out of tcpCommandClient_SendCmd keeps either.
THEOREM TypeCorrect == Spec => []TypeOK
<1>1. IInv => TypeOK
  BY DEF IInv
<1>. QED
  BY <1>1, IInvInductive, PTL

\* However often and in whatever order the owner calls Start, Stop and the
\* destructor, no kind of thread has two alive.
THEOREM OneOfEachHolds == Spec => []OneOfEach
<1>1. IInv => OneOfEach
  BY DEF IInv, OneOfEach, ProcInv, RecvInv, CalibInv, Handled
<1>. QED
  BY <1>1, IInvInductive, PTL

\* When Stop or the destructor has returned no thread is left.
THEOREM QuietAfterStopHolds == Spec => []QuietAfterStop
<1>1. IInv => QuietAfterStop
  <2> SUFFICES ASSUME IInv, todo = <<>>, called \in {"stop", "delete"}
               PROVE  Alive(proc) \cup Alive(recv) \cup Alive(calib) = {}
    BY DEF QuietAfterStop
  <2>1. 1 .. Len(todo) = {}
    OBVIOUS
  <2>2. Alive(proc) = {} /\ Alive(recv) = {} /\ Alive(calib) = {}
    BY <2>1 DEF IInv, ProcInv, RecvInv, CalibInv, Ordered
  <2>. QED
    BY <2>2
<1>. QED
  BY <1>1, IInvInductive, PTL

\* The correction taken from the lidar is the payload of its answer, whole and in
\* place, for every length of it and every way TCP may cut it up.
THEOREM ContentWholeHolds == Spec => []ContentWhole
<1>1. IInv => ContentWhole
  BY DEF IInv
<1>. QED
  BY <1>1, IInvInductive, PTL

\* What was read from the lidar is never replaced by the file's correction.
THEOREM DeviceOverFileHolds == Spec => DeviceOverFile
<1>1. IInv /\ [Next]_vars => [table' = "file" => table \notin {"device", "none"}]_vars
  BY FlagStep
<1>. QED
  BY <1>1, IInvInductive, PTL DEF Spec, DeviceOverFile

=============================================================================
