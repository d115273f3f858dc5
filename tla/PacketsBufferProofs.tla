------------------------- MODULE PacketsBufferProofs -------------------------
(***************************************************************************)
(* Proofs about the packet ring of pandarGeneral_internal.h, for every     *)
(* size N, every Window of at most N \div 2 and every run length.          *)
(***************************************************************************)
EXTENDS PacketsBuffer, TLAPS, SequenceTheorems

(***************************************************************************)
(* Types alone are not inductive: an iterator at its largest value must    *)
(* not be moved again.                                                     *)
(***************************************************************************)
TypeInv ==
  /\ TypeOK
  /\ push = N + 1 => ppc \in {"check", "write", "undefined"}
  /\ calc = N <=> cpc = "wrap"

\* The iterators and counters stay in range, and each program counter says how far
\* push_back and moveIterCalc may have gone.
LEMMA TypesInductive == Spec => []TypeInv
<1>. USE SizesAssumption, BoundsAssumption
      DEF SizesAssumption, BoundsAssumption, TypeInv, TypeOK, Slots, Packets
<1>1. Init => TypeInv
  <2> SUFFICES ASSUME Init PROVE TypeInv
    OBVIOUS
  <2>1. slot \in [Slots -> Packets]
    BY DEF Init
  <2>2. startFlag \in BOOLEAN /\ exposed \in BOOLEAN
    BY Zenon DEF Init
  <2>3. QED
    BY <2>1, <2>2 DEF Init
<1>2. TypeInv /\ [Next]_vars => TypeInv'
  <2> SUFFICES ASSUME TypeInv, [Next]_vars PROVE TypeInv'
    OBVIOUS
  <2>. USE DEF producerVars, consumerVars
  <2>0. exposed' \in BOOLEAN
    BY Zenon DEF Next, Producer, PushFirst, PushAdvance, Arrival, Consumer, PollDirect,
       PollWrapped, Reach, vars
  <2>. HIDE DEF Reaching
  <2>1. CASE PushFirst /\ UNCHANGED consumerVars
    BY <2>0, <2>1 DEF PushFirst, Arrival
  <2>2. CASE PushAdvance /\ UNCHANGED consumerVars
    BY <2>0, <2>2 DEF PushAdvance, Arrival
  <2>3. CASE StoreFirst /\ UNCHANGED consumerVars
    BY <2>0, <2>3 DEF StoreFirst
  <2>4. CASE PushRefuse /\ UNCHANGED consumerVars
    BY <2>0, <2>4 DEF PushRefuse
  <2>5. CASE PushAccept /\ UNCHANGED consumerVars
    BY <2>0, <2>5 DEF PushAccept
  <2>6. CASE PushWrap /\ UNCHANGED consumerVars
    BY <2>0, <2>6 DEF PushWrap
  <2>7. CASE PushStore /\ UNCHANGED consumerVars
    BY <2>0, <2>7 DEF PushStore
  <2>8. CASE PushOutOfRange /\ UNCHANGED consumerVars
    BY <2>0, <2>8 DEF PushOutOfRange
  <2>9. CASE PollDirect /\ UNCHANGED producerVars
    BY <2>0, <2>9 DEF PollDirect, Reach
  <2>10. CASE PollWrapped /\ UNCHANGED producerVars
    BY <2>0, <2>10 DEF PollWrapped, Reach
  <2>11. CASE Read /\ UNCHANGED producerVars
    BY <2>0, <2>11 DEF Read
  <2>12. CASE MoveIterCalc /\ UNCHANGED producerVars
    BY <2>0, <2>12 DEF MoveIterCalc
  <2>13. CASE WrapIterCalc /\ UNCHANGED producerVars
    BY <2>0, <2>13 DEF WrapIterCalc
  <2>14. CASE UNCHANGED vars
    BY <2>14 DEF vars
  <2>15. QED
    BY <2>1, <2>2, <2>3, <2>4, <2>5, <2>6, <2>7, <2>8, <2>9, <2>10, <2>11,
       <2>12, <2>13, <2>14 DEF Next, Producer, FinishPush, Consumer, FinishTake
<1>3. QED
  BY <1>1, <1>2, PTL DEF Spec

\* Types alone need no assumption on the consumer's pace: the iterators never
\* go further than one past end(), whatever the interleaving.
THEOREM TypeCorrect == Spec => []TypeOK
<1>1. TypeInv => TypeOK
  BY DEF TypeInv
<1>2. QED
  BY <1>1, TypesInductive, PTL

-----------------------------------------------------------------------------
(***************************************************************************)
(* The inductive step, one lemma per thread.                               *)
(***************************************************************************)
Calm == TypeOK /\ Orderly /\ TypeOK' /\ ~exposed /\ ~exposed'

LEMMA ProducerStep ==
  ASSUME Calm, Producer
  PROVE  Orderly'
<1>. USE SizesAssumption, BoundsAssumption
     DEF SizesAssumption, BoundsAssumption, Calm, TypeOK, Slots, Packets,
         Orderly, Positions, ProducerAt, ConsumerAt, Contents, Stored, Lag,
         SlotOf, Ahead, Wrapped, Copying, consumerVars
<1>1. CASE PushFirst
  BY <1>1 DEF Producer, PushFirst, Arrival
<1>2. CASE PushAdvance
  <2>1. ~(Lag >= N)
    BY <1>2, Zenon DEF Calm, PushAdvance, Arrival
  <2>2. ppc = "idle" /\ arrived < MaxArrived /\ arrived' = arrived + 1
    BY <1>2 DEF PushAdvance, Arrival
  <2>3. QED
    BY <1>2, <2>1, <2>2 DEF Producer, PushAdvance
<1>3. CASE StoreFirst
  BY <1>3 DEF Producer, StoreFirst
<1>4. CASE PushRefuse
  BY <1>4 DEF Producer, PushRefuse
<1>5. CASE PushAccept
  BY <1>5 DEF Producer, PushAccept
<1>6. CASE PushWrap
  BY <1>6 DEF Producer, PushWrap
<1>7. CASE PushStore
  <2>1. /\ Stored = arrived - 1 /\ Stored' = arrived
        /\ UNCHANGED <<arrived, taken, calc>>
        /\ arrived \in Nat /\ taken \in Nat /\ calc \in 0 .. N
        /\ arrived - taken \in 1 .. N
    BY <1>7 DEF Producer, PushStore
  <2>2. slot \in [Slots -> Packets] /\ slot' = [slot EXCEPT ![push] = arrived]
    BY <1>7 DEF Producer, PushStore
  <2>3. push \in Slots /\ SlotOf(arrived - taken) = push
    BY <1>7 DEF Producer, PushStore
  <2>4. \A i \in 1 .. Stored - taken : slot[SlotOf(i)] = taken + i
    BY DEF Contents
  <2>5. Contents'
    <3>. HIDE DEF Calm, Orderly, Positions, ProducerAt, ConsumerAt, TypeOK, Stored
    <3>1. ASSUME NEW i \in 1 .. Stored - taken
          PROVE  slot'[SlotOf(i)] = taken + i
      <4>1. SlotOf(i) # push /\ SlotOf(i) \in Slots
        BY <2>1, <2>3
      <4>2. QED
        BY <2>2, <2>3, <2>4, <4>1
    <3>2. slot'[SlotOf(arrived - taken)] = arrived
      BY <2>2, <2>3
    <3>3. \A i \in 1 .. Stored' - taken' : i \in 1 .. Stored - taken \/ i = arrived - taken
      BY <2>1
    <3>4. ASSUME NEW i \in 1 .. Stored' - taken'
          PROVE  slot'[SlotOf(i)'] = taken' + i
      BY <2>1, <3>1, <3>2, <3>3
    <3>5. cpc' = "move" => copy' = taken' + 1
      BY <1>7 DEF Calm, Orderly, Producer, PushStore
    <3>6. QED
      BY <3>4, <3>5
  <2>6. (Positions /\ ProducerAt /\ ConsumerAt /\ got = taken /\ refused = 0)'
    BY <1>7 DEF Producer, PushStore
  <2>7. QED
    BY <2>5, <2>6
<1>8. CASE PushOutOfRange
  BY <1>8 DEF Producer, PushOutOfRange
<1>9. QED
  BY <1>1, <1>2, <1>3, <1>4, <1>5, <1>6, <1>7, <1>8 DEF Producer, FinishPush

LEMMA ConsumerStep ==
  ASSUME Calm, Consumer
  PROVE  Orderly'
<1>. USE SizesAssumption, BoundsAssumption
     DEF SizesAssumption, BoundsAssumption, Calm, TypeOK, Slots, Packets,
         Orderly, Positions, ProducerAt, ConsumerAt, Contents, Stored, Lag,
         SlotOf, Ahead, Wrapped, Copying, producerVars
<1>1. CASE PollDirect
  BY <1>1 DEF Consumer, PollDirect, Reach, Reaching
<1>2. CASE PollWrapped
  BY <1>2 DEF Consumer, PollWrapped, Reach, Reaching
<1>3. CASE Read
  <2>1. 1 \in 1 .. Stored - taken /\ SlotOf(1) = calc
    BY <1>3 DEF Consumer, Read
  <2>2. Contents'
    BY <1>3, <2>1 DEF Consumer, Read
  <2>3. (Positions /\ ProducerAt /\ ConsumerAt /\ got = taken /\ refused = 0)'
    BY <1>3 DEF Consumer, Read
  <2>4. QED
    BY <2>2, <2>3
<1>4. CASE MoveIterCalc
  <2>1. /\ calc' = calc + 1 /\ taken' = taken + 1 /\ UNCHANGED <<slot, Stored>>
        /\ calc \in 0 .. N - 1 /\ taken \in Nat /\ Stored \in Nat
        /\ Stored - taken <= N /\ cpc' # "move"
    BY <1>4 DEF Consumer, MoveIterCalc
  <2>2. \A i \in 1 .. Stored - taken : slot[SlotOf(i)] = taken + i
    BY DEF Contents
  <2>3. Contents'
    <3>. HIDE DEF Calm, Orderly, Positions, ProducerAt, ConsumerAt, TypeOK, Stored
    <3>1. \A i \in 1 .. Stored' - taken' :
             i + 1 \in 1 .. Stored - taken /\ SlotOf(i)' = SlotOf(i + 1)
      BY <2>1
    <3>2. QED
      BY <2>1, <2>2, <3>1
  <2>4. (Positions /\ ProducerAt /\ ConsumerAt /\ got = taken /\ refused = 0)'
    BY <1>4 DEF Consumer, MoveIterCalc
  <2>5. QED
    BY <2>3, <2>4
<1>5. CASE WrapIterCalc
  BY <1>5 DEF Consumer, WrapIterCalc
<1>6. QED
  BY <1>1, <1>2, <1>3, <1>4, <1>5 DEF Consumer, FinishTake

LEMMA ExposedStays == [Next]_vars /\ exposed => exposed'
BY Zenon DEF Next, Producer, PushFirst, PushAdvance, Arrival, Consumer, PollDirect,
   PollWrapped, Reach, vars

\* Whatever the pace and the interleaving, the ring is in order until it is exposed.
THEOREM Inductive == Spec => []IInv
<1>1. Init => IInv
  <2> SUFFICES ASSUME Init PROVE IInv
    OBVIOUS
  <2>1. ~startFlag /\ startFlag \in BOOLEAN /\ exposed \in BOOLEAN
    BY Zenon DEF Init
  <2>2. TypeOK
    BY <2>1, SizesAssumption, BoundsAssumption
       DEF Init, SizesAssumption, BoundsAssumption, TypeOK, Slots, Packets
  <2>3. Orderly
    BY <2>1, <2>2, SizesAssumption
       DEF Init, SizesAssumption, Orderly, Positions, ProducerAt, ConsumerAt,
           Contents, Stored, Lag, Copying
  <2>4. QED
    BY <2>2, <2>3 DEF IInv
<1>2. IInv /\ TypeOK' /\ [Next]_vars => IInv'
  <2> SUFFICES ASSUME IInv, TypeOK', [Next]_vars, ~exposed' PROVE Orderly'
    BY DEF IInv
  <2>1. ~exposed
    BY ExposedStays, Zenon
  <2>2. Calm
    BY <2>1 DEF IInv, Calm
  <2>3. ASSUME UNCHANGED vars PROVE Orderly'
    BY <2>2, <2>3 DEF vars, Calm, Orderly, Positions, ProducerAt, ConsumerAt, Contents,
                Stored, Lag, SlotOf, Ahead, Wrapped, Copying
  <2>4. QED
    BY <2>2, <2>3, ProducerStep, ConsumerStep DEF Next
<1>3. QED
  BY <1>1, <1>2, TypeCorrect, PTL DEF Spec

\* No packet is lost, repeated, reordered or refused between push_back and
\* moveIterCalc, for any ring size, until the ring is exposed.
THEOREM FifoHolds == Spec => []Fifo
<1>1. IInv => Fifo
  BY DEF IInv, Orderly, Fifo
<1>2. QED
  BY <1>1, Inductive, PTL

\* Whatever happens, the iterators have not moved before the first store, and a slot
\* that is written while it is read is the first.
AtStart ==
  /\ ppc = "first" => ~startFlag
  /\ ~startFlag => push = 0 /\ calc = 0 /\ cpc \in {"poll", "pollWrapped"}
                   /\ ppc \in {"idle", "first"}
  /\ cpc = "read" /\ ppc = "write" /\ push = calc => push = 0

LEMMA StartInductive == Spec => []AtStart
<1>. USE SizesAssumption DEF SizesAssumption, TypeInv, TypeOK, Slots, AtStart
<1>1. Init => AtStart
  BY DEF Init
<1>2. AtStart /\ TypeInv /\ [Next]_vars => AtStart'
  <2> SUFFICES ASSUME AtStart, TypeInv, [Next]_vars
               PROVE  AtStart'
    OBVIOUS
  <2>. USE DEF producerVars, consumerVars
  <2>1. CASE (PushFirst \/ PushAdvance) /\ UNCHANGED consumerVars
    BY <2>1 DEF PushFirst, PushAdvance, Arrival
  <2>2. CASE (StoreFirst \/ PushRefuse \/ PushStore \/ PushOutOfRange) /\ UNCHANGED consumerVars
    BY <2>2 DEF StoreFirst, PushRefuse, PushStore, PushOutOfRange
  <2>3. CASE PushAccept /\ UNCHANGED consumerVars
    BY <2>3 DEF PushAccept
  <2>4. CASE PushWrap /\ UNCHANGED consumerVars
    BY <2>4 DEF PushWrap
  <2>5. CASE PollDirect /\ UNCHANGED producerVars
    BY <2>5 DEF PollDirect, Reach
  <2>6. CASE PollWrapped /\ UNCHANGED producerVars
    BY <2>6 DEF PollWrapped, Reach
  <2>7. CASE (Read \/ MoveIterCalc \/ WrapIterCalc) /\ UNCHANGED producerVars
    BY <2>7 DEF Read, MoveIterCalc, WrapIterCalc
  <2>8. CASE UNCHANGED vars
    BY <2>8 DEF vars
  <2>9. QED
    BY <2>1, <2>2, <2>3, <2>4, <2>5, <2>6, <2>7, <2>8
       DEF Next, Producer, FinishPush, Consumer, FinishTake
<1>3. QED
  BY <1>1, <1>2, TypesInductive, PTL DEF Spec

\* Whatever the pace and the interleaving, the only slot the consumer can copy while
\* push_back writes it is the first, every other one being compared with m_iterCalc
\* before it is written, and only in a ring that was exposed before.
THEOREM TornReadOnlyAtStartHolds == Spec => []TornReadOnlyAtStart
<1>1. AtStart /\ IInv => TornReadOnlyAtStart
  <2>. SUFFICES ASSUME AtStart, IInv, cpc = "read", ppc \in {"first", "write"}, push = calc
                PROVE  push = 0 /\ exposed
    BY Zenon DEF TornReadOnlyAtStart
  <2>1. ppc = "write" /\ push = 0
    BY DEF AtStart
  <2>2. ASSUME Orderly PROVE FALSE
    BY <2>1, <2>2, SizesAssumption
       DEF SizesAssumption, IInv, TypeOK, Packets, Orderly, Positions, ProducerAt, ConsumerAt,
           Lag, Ahead, Wrapped, Copying
  <2>. QED
    BY <2>1, <2>2, Zenon DEF IInv
<1>2. QED
  BY <1>1, StartInductive, Inductive, PTL

\* What the consumer has, and what the slots hold, has been handed to push_back.
WereHandedOver ==
  /\ got <= arrived /\ copy <= arrived
  /\ \A i \in Slots : slot[i] <= arrived

LEMMA HandedOver == Spec => []WereHandedOver
<1>. USE SizesAssumption, BoundsAssumption
     DEF SizesAssumption, BoundsAssumption, TypeInv, TypeOK, Slots, Packets, WereHandedOver
<1>1. Init => WereHandedOver
  BY DEF Init
<1>2. WereHandedOver /\ TypeInv /\ [Next]_vars => WereHandedOver'
  <2> SUFFICES ASSUME WereHandedOver, TypeInv, [Next]_vars
               PROVE  WereHandedOver'
    OBVIOUS
  <2>. USE DEF producerVars, consumerVars
  <2>1. CASE (PushFirst \/ PushAdvance) /\ UNCHANGED consumerVars
    BY <2>1 DEF PushFirst, PushAdvance, Arrival
  <2>2. CASE (StoreFirst \/ PushStore) /\ UNCHANGED consumerVars
    BY <2>2 DEF StoreFirst, PushStore
  <2>3. CASE (PushRefuse \/ PushAccept \/ PushWrap \/ PushOutOfRange) /\ UNCHANGED consumerVars
    BY <2>3 DEF PushRefuse, PushAccept, PushWrap, PushOutOfRange
  <2>4. CASE (PollDirect \/ PollWrapped) /\ UNCHANGED producerVars
    BY <2>4 DEF PollDirect, PollWrapped, Reach
  <2>5. CASE (Read \/ MoveIterCalc \/ WrapIterCalc) /\ UNCHANGED producerVars
    BY <2>5 DEF Read, MoveIterCalc, WrapIterCalc
  <2>6. CASE UNCHANGED vars
    BY <2>6 DEF vars
  <2>7. QED
    BY <2>1, <2>2, <2>3, <2>4, <2>5, <2>6 DEF Next, Producer, FinishPush, Consumer, FinishTake
<1>3. QED
  BY <1>1, <1>2, TypesInductive, PTL DEF Spec

-----------------------------------------------------------------------------
(***************************************************************************)
(* The ring implements the queue: in order, the unread packets are the     *)
(* consecutive numbers after taken.                                        *)
(***************************************************************************)
Run(a, n) == [i \in 1 .. n |-> a + i]

LEMMA RunIsSeq ==
  ASSUME NEW a \in Nat, NEW n \in Nat
  PROVE  Run(a, n) \in Seq(Nat) /\ Len(Run(a, n)) = n
<1>1. Run(a, n) \in [1 .. n -> Nat]
  BY DEF Run
<1>2. Run(a, n) \in Seq(Nat)
  BY <1>1, SeqDef
<1>3. QED
  BY <1>1, <1>2, LenProperties

LEMMA RunAppend ==
  ASSUME NEW a \in Nat, NEW n \in Nat
  PROVE  Append(Run(a, n), a + n + 1) = Run(a, n + 1)
<1>. DEFINE s == Append(Run(a, n), a + n + 1)
<1>1. s \in Seq(Nat) /\ Len(s) = n + 1
  BY RunIsSeq, AppendProperties
<1>2. \A i \in 1 .. n + 1 : s[i] = a + i
  BY RunIsSeq, AppendProperties DEF Run
<1>3. Run(a, n + 1) \in Seq(Nat) /\ Len(Run(a, n + 1)) = n + 1
  BY RunIsSeq
<1>4. \A i \in 1 .. n + 1 : s[i] = Run(a, n + 1)[i]
  BY <1>2 DEF Run
<1>. HIDE DEF s
<1>5. s = Run(a, n + 1)
  BY <1>1, <1>3, <1>4, SeqEqual
<1>. QED
  BY <1>5 DEF s

LEMMA RunHeadTail ==
  ASSUME NEW a \in Nat, NEW n \in Nat \ {0}
  PROVE  /\ Run(a, n) # <<>>
         /\ Head(Run(a, n)) = a + 1
         /\ Tail(Run(a, n)) = Run(a + 1, n - 1)
<1>. DEFINE r == Run(a, n)
            t == Tail(r)
<1>1. r \in Seq(Nat) /\ Len(r) = n
  BY RunIsSeq
<1>2. r # <<>> /\ r[1] = a + 1
  BY <1>1, EmptySeq DEF Run
<1>3. \A i \in 1 .. n - 1 : r[i + 1] = Run(a + 1, n - 1)[i]
  BY DEF Run
<1>4. Run(a + 1, n - 1) \in Seq(Nat) /\ Len(Run(a + 1, n - 1)) = n - 1
  BY RunIsSeq
<1>. HIDE DEF r
<1>5. /\ Head(r) = r[1] /\ t \in Seq(Nat) /\ Len(t) = n - 1
      /\ \A i \in 1 .. n - 1 : t[i] = r[i + 1]
  BY <1>1, <1>2, HeadTailProperties
<1>. HIDE DEF t
<1>6. t = Run(a + 1, n - 1)
  BY <1>3, <1>4, <1>5, SeqEqual
<1>. QED
  BY <1>2, <1>5, <1>6 DEF r, t

UnreadAsRun ==
  /\ Stored \in Nat /\ taken \in Nat /\ Stored - taken \in Nat
  /\ got = taken
  /\ Unread = Run(taken, Stored - taken)

LEMMA UnreadIsRun == TypeOK /\ Orderly => UnreadAsRun
<1>. SUFFICES ASSUME TypeOK, Orderly PROVE UnreadAsRun
  OBVIOUS
<1>1. Stored \in Nat /\ taken \in Nat /\ Stored - taken \in Nat
  BY BoundsAssumption
     DEF BoundsAssumption, Orderly, TypeOK, Packets, Positions, ProducerAt, Stored, Lag
<1>2. \A i \in 1 .. Stored - taken : slot[SlotOf(i)] = taken + i
  BY DEF Orderly, Contents
<1>3. Unread = Run(taken, Stored - taken)
  BY <1>2, Zenon DEF Unread, Run
<1>4. QED
  BY <1>1, <1>3 DEF UnreadAsRun, Orderly

\* Every step of the ring is a step of the queue or leaves it alone: storing a
\* packet is Put, moving m_iterCalc is Get.
LEMMA StepRefines ==
  ASSUME TypeOK, Orderly, TypeOK', Orderly', [Next]_vars
  PROVE  [Queue!QNext]_(Queue!qvars)
<1>. USE DEF Queue!QNext, Queue!qvars, Queue!Put, Queue!Get
<1>. DEFINE n == Stored - taken
<1>1. /\ Stored \in Nat /\ taken \in Nat /\ n \in Nat
      /\ got = taken /\ Unread = Run(taken, n)
  BY UnreadIsRun DEF UnreadAsRun
<1>2. Stored' \in Nat /\ got' = taken' /\ Unread' = Run(taken', Stored' - taken')
  <2>1. UnreadAsRun'
    BY UnreadIsRun, PTL
  <2>2. QED
    BY <2>1 DEF UnreadAsRun
<1>3. ASSUME Stored' = Stored + 1, taken' = taken
      PROVE  Queue!Put
  <2>1. Unread' = Append(Unread, Stored + 1)
    <3>1. Run(taken, n + 1) = Append(Run(taken, n), taken + n + 1)
      BY <1>1, RunAppend
    <3>2. taken + n + 1 = Stored + 1 /\ Stored' - taken' = n + 1
      BY <1>1, <1>3
    <3>3. QED
      BY <1>1, <1>2, <1>3, <3>1, <3>2
  <2>2. QED
    BY <2>1, <1>1, <1>2, <1>3
<1>4. ASSUME Stored' = Stored, taken' = taken + 1, n > 0
      PROVE  Queue!Get
  <2>1. /\ Unread # <<>> /\ Head(Unread) = taken + 1
        /\ Tail(Unread) = Run(taken + 1, n - 1)
    <3>1. n \in Nat \ {0}
      BY <1>1, <1>4
    <3>. HIDE DEF n
    <3>2. QED
      BY <1>1, <3>1, RunHeadTail
  <2>2. Stored' - taken' = n - 1
    BY <1>1, <1>4
  <2>3. QED
    BY <2>1, <2>2, <1>1, <1>2, <1>4
<1>5. ASSUME Stored' = Stored, taken' = taken
      PROVE  UNCHANGED <<Unread, Stored, got>>
  BY <1>1, <1>2, <1>5
<1>6. /\ arrived \in Nat
      /\ taken' = taken + 1 => n > 0
      /\ taken' \in {taken, taken + 1} /\ Stored' \in {Stored, Stored + 1}
      /\ taken' = taken \/ Stored' = Stored
  <2>. USE BoundsAssumption
       DEF BoundsAssumption, Orderly, TypeOK, Packets, Positions, ProducerAt,
           ConsumerAt, Stored, Lag, Copying, producerVars, consumerVars
  <2>1. CASE Producer
    <3>1. taken' = taken /\ arrived \in Nat /\ arrived' \in {arrived, arrived + 1}
      BY <2>1 DEF Producer, FinishPush, PushFirst, PushAdvance, Arrival, StoreFirst,
                  PushRefuse, PushAccept, PushWrap, PushStore, PushOutOfRange
    <3>2. refused = 0 /\ refused' = 0
      BY DEF Orderly
    <3>. HIDE DEF Orderly, TypeOK, Positions, ProducerAt, ConsumerAt
    <3>3. ASSUME PushFirst \/ PushAdvance PROVE Stored' = Stored
      <4>1. ppc = "idle" /\ ppc' # "idle" /\ arrived' = arrived + 1
        BY <3>3 DEF PushFirst, PushAdvance, Arrival
      <4>2. QED
        BY <3>1, <4>1
    <3>4. ASSUME StoreFirst \/ PushStore PROVE Stored' = Stored + 1
      <4>1. ppc # "idle" /\ ppc' = "idle" /\ arrived' = arrived
        BY <3>4 DEF StoreFirst, PushStore
      <4>2. QED
        BY <3>1, <4>1
    <3>5. ASSUME PushAccept \/ PushWrap \/ PushOutOfRange PROVE Stored' = Stored
      <4>1. ppc # "idle" /\ ppc' # "idle" /\ arrived' = arrived
        BY <3>5 DEF PushAccept, PushWrap, PushOutOfRange
      <4>2. QED
        BY <4>1
    <3>6. ~PushRefuse
      BY <3>2 DEF PushRefuse
    <3>7. Stored' = Stored \/ Stored' = Stored + 1
      BY <2>1, <3>3, <3>4, <3>5, <3>6, Zenon DEF Producer, FinishPush
    <3>8. QED
      <4>. HIDE DEF Stored, n
      <4>1. taken \in Nat
        BY <1>1
      <4>2. QED
        BY <3>1, <3>7, <4>1
  <2>2. CASE Consumer
    BY <2>2 DEF Consumer, PollDirect, PollWrapped, Read, MoveIterCalc, WrapIterCalc, Reach, FinishTake
  <2>3. CASE UNCHANGED vars
    BY <2>3 DEF vars
  <2>4. QED
    BY <2>1, <2>2, <2>3 DEF Next
<1>7. QED
  BY <1>1, <1>3, <1>4, <1>5, <1>6

\* The lock-free ring implements a lossless first-in first-out queue, for any
\* ring size, pace and interleaving, until it is exposed.
THEOREM RingImplementsQueue == Spec => ImplementsQueue
<1>1. Init => Queue!QInit
  <2> SUFFICES ASSUME Init PROVE Queue!QInit
    OBVIOUS
  <2>1. Stored = 0 /\ taken = 0 /\ got = 0
    BY DEF Init, Stored
  <2>2. Unread = Run(0, 0)
    BY <2>1 DEF Unread, Run
  <2>3. Run(0, 0) = <<>>
    BY RunIsSeq, EmptySeq
  <2>4. QED
    BY <2>1, <2>2, <2>3 DEF Queue!QInit
<1>2. IInv /\ IInv' /\ [Next]_vars => [exposed' \/ Queue!QNext]_(Queue!qvars)
  <2>. SUFFICES ASSUME IInv, IInv', [Next]_vars, ~exposed'
                PROVE  [exposed' \/ Queue!QNext]_(Queue!qvars)
    BY Zenon
  <2>1. ~exposed
    BY ExposedStays, Zenon
  <2>2. [Queue!QNext]_(Queue!qvars)
    BY <2>1, StepRefines DEF IInv
  <2>. QED
    BY <2>2, Zenon
<1>3. QED
  BY <1>1, <1>2, Inductive, PTL DEF ImplementsQueue, Spec

=============================================================================
