---------------------------- MODULE PacketsBuffer ----------------------------
(***************************************************************************)
(* The ring of raw lidar packets (PacketsBuffer, pandarGeneral_internal.h) *)
(* shared by the receive thread, which calls push_back, and the processing *)
(* thread, which calls hasEnoughPackets, getIterCalc and moveIterCalc.     *)
(* No lock protects it: each load and store of an iterator, and each copy  *)
(* of a packet, is a step of its own, in program order (the image builds   *)
(* the driver without optimisation, so the stores are those written).      *)
(*                                                                         *)
(* The two positions are offsets from m_buffers.begin(); N is end().       *)
(***************************************************************************)
EXTENDS Integers

CONSTANTS
  N,           \* slots of m_buffers (36000)
  Window,      \* the 1000 of hasEnoughPackets
  MaxArrived,  \* bound on the packets that arrive
  MaxTaken     \* bound on the packets the consumer takes, old ones included

ASSUME SizesAssumption == /\ N \in Nat /\ Window \in Nat
                          /\ 0 < Window /\ 2 * Window <= N
ASSUME BoundsAssumption == MaxArrived \in Nat /\ MaxTaken \in Nat

VARIABLES
  push,        \* m_iterPush
  calc,        \* m_iterCalc
  startFlag,   \* m_startFlag
  slot,        \* m_buffers: the packet in each slot, 0 for a default one
  ppc, cpc,    \* where the producer and the consumer are
  arrived,     \* packets handed to push_back so far; the last one's number
  refused,     \* packets refused with "buffer don't have space!"
  copy,        \* the consumer's local copy of a packet
  taken,       \* packets the consumer has gone past
  got,         \* the last packet the consumer has gone past
  exposed      \* for the properties: has the ring met one of its two hazards,
               \* see Arrival and Reaching?

producerVars == <<push, startFlag, slot, ppc, arrived, refused>>
consumerVars == <<calc, cpc, copy, taken, got>>
vars == <<push, calc, startFlag, slot, ppc, cpc, arrived, refused, copy, taken, got, exposed>>

Slots == 0 .. N - 1
Packets == 0 .. MaxArrived

Init ==
  /\ push = 0 /\ calc = 0 /\ startFlag = FALSE
  /\ slot = [i \in Slots |-> 0]
  /\ ppc = "idle" /\ cpc = "poll"
  /\ arrived = 0 /\ refused = 0 /\ copy = 0 /\ taken = 0 /\ got = 0
  /\ exposed = FALSE

Lag == arrived - taken

-----------------------------------------------------------------------------
(* The producer: push_back. *)

\* A packet reaches PushLiDARData, at whatever pace. One that finds N unread
\* exposes the ring: it is refused, or overwrites what is unread.
Arrival ==
  /\ ppc = "idle"
  /\ arrived < MaxArrived
  /\ arrived' = arrived + 1
  /\ exposed' = (exposed \/ Lag >= N)

\* The very first packet is stored where the iterator already stands.
PushFirst ==
  /\ Arrival /\ ~startFlag
  /\ ppc' = "first"
  /\ UNCHANGED <<push, startFlag, slot, refused>>

\* Mistake: m_startFlag is never set.
StoreFirstKeepsFlag ==
  /\ ppc = "first"
  /\ slot' = [slot EXCEPT ![push] = arrived]
  /\ ppc' = "idle"
  /\ UNCHANGED <<push, startFlag, arrived, refused>>

StoreFirst ==
  /\ ppc = "first"
  /\ slot' = [slot EXCEPT ![push] = arrived]
  /\ startFlag' = TRUE
  /\ ppc' = "idle"
  /\ UNCHANGED <<push, arrived, refused>>

\* Every later one moves the iterator before it looks at anything.
PushAdvance ==
  /\ Arrival /\ startFlag
  /\ push' = push + 1
  /\ ppc' = "check"
  /\ UNCHANGED <<startFlag, slot, refused>>

\* Caught up with the consumer: the packet is refused, the iterator stays.
PushRefuse ==
  /\ ppc = "check" /\ push = calc
  /\ refused' = refused + 1
  /\ ppc' = "idle"
  /\ UNCHANGED <<push, startFlag, slot, arrived>>

\* Mistake: the comparison with m_iterCalc is left out.
AcceptUnchecked ==
  /\ ppc = "check"
  /\ ppc' = IF push = N THEN "wrap" ELSE "write"
  /\ UNCHANGED <<push, startFlag, slot, arrived, refused>>

PushAccept ==
  /\ ppc = "check" /\ push # calc
  /\ ppc' = IF push = N THEN "wrap" ELSE "write"
  /\ UNCHANGED <<push, startFlag, slot, arrived, refused>>

\* Mistakes: the wrap goes one slot short of begin(), or one too far.
WrapTo(i) ==
  /\ ppc = "wrap"
  /\ push' = i
  /\ ppc' = "write"
  /\ UNCHANGED <<startFlag, slot, arrived, refused>>

WrapBeforeBegin == WrapTo(-1)
WrapAfterBegin == WrapTo(1)

PushWrap ==
  /\ ppc = "wrap"
  /\ push' = 0
  /\ ppc' = "write"
  /\ UNCHANGED <<startFlag, slot, arrived, refused>>

PushStore ==
  /\ ppc = "write" /\ push \in Slots
  /\ slot' = [slot EXCEPT ![push] = arrived]
  /\ ppc' = "idle"
  /\ UNCHANGED <<push, startFlag, arrived, refused>>

\* A refusal that left the iterator at end() sends the next packet past the
\* array: what follows is undefined, and the model stops there.
PushOutOfRange ==
  /\ ppc = "write" /\ push \notin Slots
  /\ ppc' = "undefined"
  /\ UNCHANGED <<push, startFlag, slot, arrived, refused>>

FinishPush == StoreFirst \/ PushRefuse \/ PushAccept \/ PushWrap \/ PushStore

Producer ==
  /\ \/ PushFirst \/ PushAdvance
     \/ (FinishPush \/ PushOutOfRange) /\ UNCHANGED exposed
  /\ UNCHANGED consumerVars

-----------------------------------------------------------------------------
(* The consumer: the head of the loop of ProcessLiarPacket. *)

\* A poll that finds a packet between the increment of m_iterPush and the end of
\* its check and wrap exposes the ring when the packet is the newest one stored,
\* which hasEnoughPackets else holds back.
Reaching == ppc \in {"check", "wrap"} /\ Lag <= 2

Reach(found) ==
  /\ cpc' = IF found THEN "read" ELSE IF cpc = "poll" THEN "pollWrapped" ELSE "poll"
  /\ exposed' = (exposed \/ (found /\ Reaching))
  /\ UNCHANGED <<calc, copy, taken, got>>

\* Mistake: the packet at m_iterPush itself counts as readable.
PollAtPush == cpc = "poll" /\ taken < MaxTaken /\ Reach(push >= calc)

\* m_iterPush - m_iterCalc > 0
PollDirect == cpc = "poll" /\ taken < MaxTaken /\ Reach(push > calc)

\* Mistakes: m_iterCalc is not required to be near end(), or is required to be
\* one slot nearer than the lag it must cover.
PollWrappedIf(near) ==
  cpc = "pollWrapped" /\ Reach(push - calc + N > 0 /\ near /\ push < Window)

PollAnywhere == PollWrappedIf(TRUE)
PollNearer == PollWrappedIf(N - calc < Window - 1)

\* The second disjunct of hasEnoughPackets, which loads m_iterPush again.
PollWrapped ==
  /\ cpc = "pollWrapped"
  /\ Reach(push - calc + N > 0 /\ N - calc < Window /\ push < Window)

\* packet = *getIterCalc()
Read ==
  /\ cpc = "read"
  /\ copy' = slot[calc]
  /\ cpc' = "move"
  /\ UNCHANGED <<calc, taken, got>>

\* moveIterCalc: the increment, then the wrap.
MoveIterCalc ==
  /\ cpc = "move"
  /\ calc' = calc + 1
  /\ taken' = taken + 1
  /\ got' = copy
  /\ cpc' = IF calc + 1 = N THEN "wrap" ELSE "poll"
  /\ UNCHANGED copy

WrapIterCalc ==
  /\ cpc = "wrap"
  /\ calc' = 0
  /\ cpc' = "poll"
  /\ UNCHANGED <<copy, taken, got>>

FinishTake == Read \/ MoveIterCalc \/ WrapIterCalc

Consumer ==
  /\ ppc # "undefined"
  /\ \/ PollDirect \/ PollWrapped
     \/ FinishTake /\ UNCHANGED exposed
  /\ UNCHANGED producerVars

Next == Producer \/ Consumer

Spec == Init /\ [][Next]_vars

\* Both threads run; nothing obliges a packet to arrive.
FairSpec == Spec /\ WF_vars(Consumer)
                 /\ WF_vars(FinishPush /\ UNCHANGED <<consumerVars, exposed>>)

-----------------------------------------------------------------------------
TypeOK ==
  /\ push \in 0 .. N + 1 /\ calc \in 0 .. N
  /\ startFlag \in BOOLEAN
  /\ slot \in [Slots -> Packets]
  /\ ppc \in {"idle", "first", "check", "wrap", "write", "undefined"}
  /\ cpc \in {"poll", "pollWrapped", "read", "move", "wrap"}
  /\ arrived \in Packets /\ copy \in Packets /\ got \in Packets
  /\ refused \in Nat /\ taken \in Nat /\ exposed \in BOOLEAN

\* The consumer copies a packet out of a slot the producer is copying another one
\* into only at begin(), the one slot whose comparison with m_iterCalc comes before
\* the wrap, and only in a ring that one of its two hazards has met.
TornReadOnlyAtStart ==
  cpc = "read" /\ ppc \in {"first", "write"} /\ push = calc => push = 0 /\ exposed

\* Until then the k-th packet the consumer takes is the k-th that arrived: none is
\* lost, repeated, reordered or refused between push_back and moveIterCalc.
Fifo == ~exposed => got = taken /\ refused = 0

\* push_back says "buffer don't have space!" only when every other slot holds
\* a packet that is still unread.
RefusedOnlyWhenFull ==
  [][refused' # refused => arrived - 1 - taken >= N - 1]_vars

\* hasEnoughPackets holds the newest packet back until another arrives, and
\* no other: in a ring that is never exposed, every packet that has a successor
\* reaches the consumer, unless more than Window packets stay unread (then the ring
\* may end behind the consumer, who does not see what was stored at its beginning
\* until the next packets come).
AllButNewestTaken ==
  []~exposed /\ <>[](Lag <= Window) =>
    \A k \in 1 .. MaxArrived : (arrived > k) ~> (taken >= k)

-----------------------------------------------------------------------------
(* The buffer as a queue: the packets stored and not yet taken. *)

Stored == IF ppc = "idle" THEN arrived ELSE arrived - 1

\* The slot of the i-th unread packet.
SlotOf(i) == IF calc + i - 1 < N THEN calc + i - 1 ELSE calc + i - 1 - N

Unread == [i \in 1 .. Stored - taken |-> slot[SlotOf(i)]]

Queue == INSTANCE PacketQueue WITH queue <- Unread, accepted <- Stored

\* Until a packet arrives while N are unread, or a poll falls inside push_back's
\* move of the iterator and reaches for the newest, the lock-free ring is a lossless
\* first-in first-out queue: push_back appends, moveIterCalc removes the head,
\* nothing else acts.
ImplementsQueue == Queue!QInit /\ [][exposed' \/ Queue!QNext]_(Queue!qvars)

-----------------------------------------------------------------------------
(* The inductive invariant of the ring, until it is exposed. *)

Copying == cpc \in {"read", "move"}

\* push is Lag - 1 slots ahead of calc, in this lap or in the next one.
Ahead == push = calc + Lag - 1
Wrapped == push = calc + Lag - 1 - N

Positions ==
  /\ taken <= arrived /\ Lag <= N
  /\ startFlag <=> arrived >= 1 /\ ppc # "first"
  /\ arrived = 0 => push = 0 /\ calc = 0 /\ ppc = "idle" /\ ~Copying
  /\ arrived >= 1 => Lag >= 1 /\ (Ahead \/ Wrapped)

ProducerAt ==
  /\ ppc # "undefined" /\ push <= N
  /\ ppc = "first" => arrived = 1 /\ push = 0 /\ calc = 0
  /\ ppc \in {"check", "wrap"} => arrived >= 2 /\ Lag >= 2
  /\ ppc = "wrap" => push = N
  /\ ppc \in {"idle", "write"} => push < N

ConsumerAt ==
  /\ cpc = "wrap" <=> calc = N
  /\ Copying => Lag >= IF ppc \in {"check", "wrap"} THEN 3 ELSE 2
  /\ (Copying /\ calc = N - 1) \/ calc = N => Wrapped

Contents ==
  /\ \A i \in 1 .. Stored - taken : slot[SlotOf(i)] = taken + i
  /\ cpc = "move" => copy = taken + 1

\* The strengthening of Fifo that every step preserves, while nothing exposes the
\* ring and for as long as it takes.
Orderly == Positions /\ ProducerAt /\ ConsumerAt /\ Contents /\ got = taken /\ refused = 0
IInv == TypeOK /\ (~exposed => Orderly)

=============================================================================
