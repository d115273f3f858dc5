------------------------- MODULE FrameSplitterProofs -------------------------
(***************************************************************************)
(* Proofs about the cutting of packets into frames, for every number of    *)
(* blocks and lasers, every circle and start angle, and every traffic.     *)
(***************************************************************************)
EXTENDS FrameSplitter, SequenceTheorems, FiniteSetTheorems, TLAPS

-----------------------------------------------------------------------------
(* Bags that hold each element once. *)

Once(b) == b = SetToBag(DOMAIN b)

LEMMA BagOfSet ==
  ASSUME NEW S
  PROVE  DOMAIN SetToBag(S) = S /\ Once(SetToBag(S)) /\ SetToBag(S) = [e \in S |-> 1]
  BY DEF SetToBag, Once

LEMMA BagOfNone == EmptyBag = SetToBag({}) /\ DOMAIN EmptyBag = {} /\ Once(EmptyBag)
  BY BagOfSet DEF EmptyBag, Once

LEMMA EmptyIs ==
  ASSUME NEW b, Once(b)
  PROVE  b = EmptyBag <=> DOMAIN b = {}
  BY BagOfNone DEF Once

LEMMA AddOnce ==
  ASSUME NEW b, NEW S, Once(b), DOMAIN b \cap S = {}
  PROVE  b (+) SetToBag(S) = SetToBag(DOMAIN b \cup S)
<1>. DEFINE sum == b (+) SetToBag(S)
            all == SetToBag(DOMAIN b \cup S)
<1>1. b = [e \in DOMAIN b |-> 1] /\ SetToBag(S) = [e \in S |-> 1] /\ all = [e \in DOMAIN b \cup S |-> 1]
  BY BagOfSet DEF Once
<1>2. sum = [e \in DOMAIN b \cup S |->
               (IF e \in DOMAIN b THEN b[e] ELSE 0) + (IF e \in S THEN 1 ELSE 0)]
  BY <1>1 DEF (+)
<1>3. \A e \in DOMAIN b \cup S :
        (IF e \in DOMAIN b THEN b[e] ELSE 0) + (IF e \in S THEN 1 ELSE 0) = 1
  BY <1>1
<1>. QED
  BY <1>1, <1>2, <1>3

-----------------------------------------------------------------------------
(* The buffers. *)

\* The buffers b hold points of the set P, each once, where Calc puts them.
Holds(b, P) ==
  /\ b = [index |-> b.index, cloud |-> b.cloud, list |-> b.list] /\ b.index \in Nat
  /\ Once(b.cloud) /\ DOMAIN b.cloud \subseteq P /\ IsFiniteSet(DOMAIN b.cloud)
  /\ DOMAIN b.list = Rings
  /\ \A r \in Rings : /\ Once(b.list[r]) /\ DOMAIN b.list[r] \subseteq P
                      /\ \A p \in DOMAIN b.list[r] : p.ring = r
  /\ structured => b.cloud = EmptyBag /\ (traffic.qt \/ b.index = 0)
  /\ ~structured => /\ b.index = Cardinality(DOMAIN b.cloud)
                    /\ \A r \in Rings : b.list[r] = EmptyBag

\* All their points.
Members(b) == IF structured THEN UNION {DOMAIN b.list[r] : r \in Rings} ELSE DOMAIN b.cloud

Params ==
  /\ Circle \in Nat \ {0} /\ Gap \in 1 .. Circle /\ Blocks \in Nat \ {0} /\ Lasers \in Nat \ {0}
  /\ structured \in BOOLEAN /\ traffic.qt \in BOOLEAN /\ StartAngle \in 0 .. Circle - 1
  /\ traffic.steps \subseteq Int /\ traffic.valid \subseteq SUBSET Rings
  /\ traffic.packets \in Nat /\ traffic.restarts \in Nat

LEMMA ParamsHold ==
  ASSUME traffic \in Traffics
  PROVE  Params
  BY CircleAssumption, FormatAssumption, TrafficAssumption
     DEF CircleAssumption, FormatAssumption, TrafficAssumption, Params, structured, StartAngle, Rings

LEMMA HoldsMore ==
  ASSUME NEW b, NEW P, NEW Q, Holds(b, P), P \subseteq Q
  PROVE  Holds(b, Q)
  BY DEF Holds

\* What EmitBackMessege hands over: all of them.
LEMMA FramePointsAre ==
  ASSUME NEW P, Holds(buffers, P)
  PROVE  FramePoints = SetToBag(Members(buffers)) /\ Members(buffers) \subseteq P
<1>1. CASE structured
  <2>. DEFINE all == UNION {DOMAIN buffers.list[r] : r \in Rings}
  <2>1. ASSUME NEW p \in all
        PROVE  buffers.list[p.ring][p] = 1 /\ p \in P
    <3>1. PICK r \in Rings : p \in DOMAIN buffers.list[r]
      OBVIOUS
    <3>2. p.ring = r /\ Once(buffers.list[r]) /\ DOMAIN buffers.list[r] \subseteq P
      BY <3>1 DEF Holds
    <3>3. buffers.list[r][p] = 1
      <4>1. SetToBag(DOMAIN buffers.list[r]) = [e \in DOMAIN buffers.list[r] |-> 1]
        BY BagOfSet
      <4>. QED
        BY <3>1, <3>2, <4>1 DEF Once
    <3>. QED
      BY <3>1, <3>2, <3>3
  <2>2. Lists = [p \in all |-> 1]
    BY <2>1 DEF Lists
  <2>. QED
    BY <1>1, <2>1, <2>2, BagOfSet DEF FramePoints, Members
<1>2. CASE ~structured
  BY <1>2 DEF FramePoints, Members, Holds, Once
<1>. QED
  BY <1>1, <1>2

LEMMA EmptiedHolds ==
  ASSUME NEW P, Holds(buffers, P), Params
  PROVE  Holds(EmptiedBuffers, P) /\ Members(EmptiedBuffers) = {}
<1>1. CASE structured
  <2>1. EmptiedBuffers = [index |-> buffers.index, cloud |-> buffers.cloud, list |-> [r \in Rings |-> EmptyBag]]
    BY <1>1 DEF EmptiedBuffers, Holds
  <2>2. Holds(EmptiedBuffers, P)
    BY <1>1, <2>1, BagOfNone DEF Holds
  <2>3. Members(EmptiedBuffers) = {}
    BY <1>1, <2>1, BagOfNone DEF Members
  <2>. QED
    BY <2>2, <2>3
<1>2. CASE ~structured
  <2>1. EmptiedBuffers = [index |-> 0, cloud |-> EmptyBag, list |-> buffers.list]
    BY <1>2 DEF EmptiedBuffers, Holds
  <2>2. IsFiniteSet(DOMAIN EmptyBag) /\ Cardinality(DOMAIN EmptyBag) = 0
    BY BagOfNone, FS_EmptySet
  <2>3. Holds(EmptiedBuffers, P)
    BY <1>2, <2>1, <2>2, BagOfNone DEF Holds
  <2>4. Members(EmptiedBuffers) = {}
    BY <1>2, <2>1, BagOfNone DEF Members
  <2>. QED
    BY <2>3, <2>4
<1>. QED
  BY <1>1, <1>2

\* What the Calc functions do to them.
LEMMA CalcHolds ==
  ASSUME NEW b, NEW P, Holds(b, P), Params, valid \in SUBSET Rings,
         NEW turn, BlockPoints(turn) \cap P = {}
  PROVE  /\ Holds(Calc(b, BlockPoints(turn)), P \cup BlockPoints(turn))
         /\ Members(Calc(b, BlockPoints(turn))) = Members(b) \cup BlockPoints(turn)
<1>. DEFINE S == BlockPoints(turn)
            c == Calc(b, S)
<1>1. IsFiniteSet(S) /\ Cardinality(S) \in Nat
  <2>1. IsFiniteSet(Rings)
    BY FS_Interval DEF Rings, Params
  <2>2. IsFiniteSet(valid)
    BY <2>1, FS_Subset
  <2>. DEFINE point == [r \in valid |-> [packet |-> accepted, block |-> block, ring |-> r, turn |-> turn]]
  <2>3. point \in Surjection(valid, S)
    BY DEF BlockPoints, Surjection
  <2>. HIDE DEF point, S
  <2>. QED
    BY <2>2, <2>3, FS_Surjection, FS_CardinalityType
<1>2. \A p \in S : p.ring \in Rings
  BY DEF BlockPoints
<1>. HIDE DEF S
<1>3. CASE structured
  <2>. DEFINE Part(r) == {p \in S : p.ring = r}
              list == [r \in Rings |-> b.list[r] (+) OfRing(S, r)]
  <2>1. ASSUME NEW r \in Rings
        PROVE  list[r] = SetToBag(DOMAIN b.list[r] \cup Part(r))
    <3>1. Once(b.list[r]) /\ DOMAIN b.list[r] \subseteq P /\ Part(r) \subseteq S
      BY DEF Holds
    <3>2. DOMAIN b.list[r] \cap Part(r) = {}
      BY <3>1 DEF S
    <3>. QED
      BY <3>1, <3>2, AddOnce DEF OfRing
  <2>. HIDE DEF list
  <2>2. /\ c.list = list /\ DOMAIN list = Rings /\ c.cloud = b.cloud /\ c.index \in Nat
        /\ c = [index |-> c.index, cloud |-> c.cloud, list |-> c.list]
        /\ traffic.qt \/ c.index = b.index
    <3>1. b = [index |-> b.index, cloud |-> b.cloud, list |-> b.list] /\ b.index \in Nat
      BY DEF Holds
    <3>2. c = [b EXCEPT !.list = list, !.index = IF traffic.qt THEN @ + Cardinality(S) ELSE @]
      BY <1>3 DEF Calc, list
    <3>3. c = [index |-> IF traffic.qt THEN b.index + Cardinality(S) ELSE b.index,
               cloud |-> b.cloud, list |-> list]
      BY <3>1, <3>2
    <3>4. DOMAIN list = Rings
      BY DEF list
    <3>. HIDE DEF c
    <3>. QED
      BY <1>1, <3>1, <3>3, <3>4
  <2>. HIDE DEF c
  <2>3. ASSUME NEW r \in Rings
        PROVE  /\ Once(c.list[r]) /\ DOMAIN c.list[r] = DOMAIN b.list[r] \cup Part(r)
               /\ DOMAIN c.list[r] \subseteq P \cup S
               /\ \A p \in DOMAIN c.list[r] : p.ring = r
    <3>1. Once(c.list[r]) /\ DOMAIN c.list[r] = DOMAIN b.list[r] \cup Part(r)
      <4>1. c.list[r] = SetToBag(DOMAIN b.list[r] \cup Part(r))
        BY <2>1, <2>2
      <4>. HIDE DEF Part
      <4>. QED
        BY <4>1, BagOfSet
    <3>2. DOMAIN b.list[r] \subseteq P /\ \A p \in DOMAIN b.list[r] : p.ring = r
      BY DEF Holds
    <3>. QED
      BY <3>1, <3>2
  <2>4. Holds(c, P \cup S)
    <3>1. Once(b.cloud) /\ DOMAIN b.cloud \subseteq P /\ IsFiniteSet(DOMAIN b.cloud) /\ b.cloud = EmptyBag
          /\ (traffic.qt \/ b.index = 0)
      BY <1>3 DEF Holds
    <3>. QED
      BY <1>3, <2>2, <2>3, <3>1 DEF Holds
  <2>5. Members(c) = Members(b) \cup S
    <3>1. UNION {DOMAIN c.list[r] : r \in Rings} = (UNION {DOMAIN b.list[r] : r \in Rings}) \cup S
      <4>1. \A r \in Rings : DOMAIN c.list[r] = DOMAIN b.list[r] \cup Part(r)
        BY <2>3
      <4>2. ASSUME NEW p, NEW r \in Rings, p \in DOMAIN c.list[r]
            PROVE  p \in (UNION {DOMAIN b.list[q] : q \in Rings}) \cup S
        BY <4>1, <4>2
      <4>3. ASSUME NEW p, NEW r \in Rings, p \in DOMAIN b.list[r]
            PROVE  p \in DOMAIN c.list[r]
        BY <4>1, <4>3
      <4>4. ASSUME NEW p \in S
            PROVE  p.ring \in Rings /\ p \in DOMAIN c.list[p.ring]
        BY <1>2, <4>1
      <4>. HIDE DEF Part
      <4>. QED
        BY <4>2, <4>3, <4>4
    <3>. QED
      BY <1>3, <3>1 DEF Members
  <2>. QED
    BY <2>4, <2>5 DEF S, c
<1>4. CASE ~structured
  <2>1. b.cloud (+) SetToBag(S) = SetToBag(DOMAIN b.cloud \cup S) /\ DOMAIN b.cloud \cap S = {}
    <3>1. Once(b.cloud) /\ DOMAIN b.cloud \subseteq P
      BY DEF Holds
    <3>2. DOMAIN b.cloud \cap S = {}
      BY <3>1 DEF S
    <3>. QED
      BY <3>1, <3>2, AddOnce
  <2>2. c = [index |-> b.index + Cardinality(S), cloud |-> SetToBag(DOMAIN b.cloud \cup S), list |-> b.list]
    <3>1. b = [index |-> b.index, cloud |-> b.cloud, list |-> b.list]
      BY DEF Holds
    <3>2. c = [b EXCEPT !.cloud = @ (+) SetToBag(S), !.index = @ + Cardinality(S)]
      BY <1>4 DEF Calc
    <3>3. c = [b EXCEPT !.cloud = SetToBag(DOMAIN b.cloud \cup S), !.index = b.index + Cardinality(S)]
      BY <2>1, <3>2
    <3>. HIDE DEF c
    <3>. QED
      BY <3>1, <3>3
  <2>. HIDE DEF c
  <2>3. DOMAIN c.cloud = DOMAIN b.cloud \cup S /\ Once(c.cloud)
    BY <2>2, BagOfSet
  <2>4. /\ IsFiniteSet(DOMAIN b.cloud \cup S)
        /\ Cardinality(DOMAIN b.cloud \cup S) = Cardinality(DOMAIN b.cloud) + Cardinality(S)
    <3>1. IsFiniteSet(DOMAIN b.cloud) /\ Cardinality(DOMAIN b.cloud) \in Nat
      BY FS_CardinalityType DEF Holds
    <3>2. Cardinality(DOMAIN b.cloud \cap S) = 0
      BY <2>1, FS_EmptySet
    <3>3. /\ IsFiniteSet(DOMAIN b.cloud \cup S)
          /\ Cardinality(DOMAIN b.cloud \cup S)
               = Cardinality(DOMAIN b.cloud) + Cardinality(S) - Cardinality(DOMAIN b.cloud \cap S)
      BY <1>1, <3>1, FS_Union
    <3>. QED
      BY <1>1, <3>1, <3>2, <3>3
  <2>5. Holds(c, P \cup S)
    <3>1. /\ b.index \in Nat /\ b.index = Cardinality(DOMAIN b.cloud) /\ DOMAIN b.cloud \subseteq P
          /\ DOMAIN b.list = Rings /\ \A r \in Rings : b.list[r] = EmptyBag
      BY <1>4 DEF Holds
    <3>2. c.index \in Nat /\ c.index = Cardinality(DOMAIN c.cloud)
      BY <1>1, <2>2, <2>3, <2>4, <3>1
    <3>. QED
      BY <1>4, <2>2, <2>3, <2>4, <3>1, <3>2, BagOfNone DEF Holds
  <2>6. Members(c) = Members(b) \cup S
    BY <1>4, <2>3 DEF Members
  <2>. QED
    BY <2>5, <2>6 DEF S, c
<1>. QED
  BY <1>3, <1>4 DEF Params

-----------------------------------------------------------------------------
(* Types.  That no point is counted twice needs that the buffers hold only   *)
(* points of the blocks before the current one.                              *)

Past == {p \in Points : p.packet < accepted \/ p.block < block}

Messages ==
  [scan : Seq(0 .. accepted), points : {SetToBag(S) : S \in SUBSET Points}, frameId : BOOLEAN]

TypeInv ==
  /\ traffic \in Traffics /\ last \in 0 .. Circle - 1
  /\ accepted \in 0 .. traffic.packets /\ block \in 0 .. Blocks
  /\ valid \in SUBSET Rings /\ pos \in Nat /\ restarts \in 0 .. traffic.restarts
  /\ frameId \in BOOLEAN
  /\ block < Blocks => accepted > 0
  /\ scan \in Seq(1 .. accepted)
  /\ Holds(buffers, Past)
  /\ published \in Seq(Messages)

LEMMA SeqOfMore ==
  ASSUME NEW S, NEW T, S \subseteq T
  PROVE  Seq(S) \subseteq Seq(T)
<1>1. ASSUME NEW s \in Seq(S)
      PROVE  s \in Seq(T)
  OBVIOUS
<1>. QED
  BY <1>1

LEMMA TypesOf ==
  ASSUME TypeInv
  PROVE  TypeOK
<1>1. Holds(buffers, Past) /\ Past \subseteq Points
  BY DEF TypeInv, Past
<1>2. /\ buffers.index \in Nat /\ OncePoints(buffers.cloud) /\ DOMAIN buffers.list = Rings
      /\ \A r \in Rings : OncePoints(buffers.list[r]) /\ \A p \in DOMAIN buffers.list[r] : p.ring = r
      /\ ~structured => buffers.index = Cardinality(DOMAIN buffers.cloud)
  BY <1>1 DEF Holds, OncePoints, Once
<1>3. ASSUME NEW i \in DOMAIN published
      PROVE  /\ published[i].scan \in Seq(0 .. accepted) /\ OncePoints(published[i].points)
             /\ published[i].frameId \in BOOLEAN
  <2>1. published[i] \in Messages
    BY DEF TypeInv
  <2>2. PICK S \in SUBSET Points : published[i].points = SetToBag(S)
    BY <2>1 DEF Messages
  <2>3. OncePoints(published[i].points)
    BY <2>2, BagOfSet DEF OncePoints
  <2>4. published[i].scan \in Seq(0 .. accepted)
    BY <2>1 DEF Messages
  <2>5. published[i].frameId \in BOOLEAN
    BY <2>1 DEF Messages
  <2>. QED
    BY <2>3, <2>4, <2>5
<1>. QED
  BY <1>2, <1>3 DEF TypeInv, TypeOK

LEMMA InitTypes == Init => TypeInv
<1>. SUFFICES ASSUME Init PROVE TypeInv
  OBVIOUS
<1>. USE DEF Init
<1>1. Params
  BY ParamsHold
<1>2. /\ traffic \in Traffics /\ last \in 0 .. Circle - 1
      /\ accepted \in 0 .. traffic.packets /\ block \in 0 .. Blocks
      /\ pos \in Nat /\ restarts \in 0 .. traffic.restarts
      /\ ~(block < Blocks)
  BY <1>1 DEF Params
<1>3. valid \in SUBSET Rings /\ scan \in Seq(1 .. accepted) /\ published \in Seq(Messages)
  OBVIOUS
<1>4. frameId \in BOOLEAN
  OBVIOUS
<1>5. Holds(buffers, Past)
  <2>1. /\ buffers = [index |-> 0, cloud |-> EmptyBag, list |-> [r \in Rings |-> EmptyBag]]
        /\ IsFiniteSet(DOMAIN EmptyBag) /\ Cardinality(DOMAIN EmptyBag) = 0
    BY BagOfNone, FS_EmptySet
  <2>. QED
    BY <2>1, BagOfNone DEF Holds
<1>. QED
  BY <1>2, <1>3, <1>4, <1>5 DEF TypeInv

LEMMA BeginTypes ==
  ASSUME TypeInv, BeginPacket
  PROVE  TypeInv'
<1>. USE DEF BeginPacket
<1>1. Params /\ traffic \in Traffics
  BY ParamsHold DEF TypeInv
<1>2. /\ accepted \in Nat /\ accepted' = accepted + 1 /\ accepted' \in 0 .. traffic.packets
      /\ block' = 0 /\ block' \in 0 .. Blocks
      /\ UNCHANGED <<traffic, last, buffers, frameId, pos, restarts, published>>
  BY <1>1 DEF TypeInv, Params
<1>3. valid' \in SUBSET Rings
  BY <1>1 DEF Params
<1>4. scan' \in Seq(1 .. accepted')
  <2>1. scan \in Seq(1 .. accepted)
    BY DEF TypeInv
  <2>2. 1 .. accepted \subseteq 1 .. accepted' /\ accepted + 1 \in 1 .. accepted'
    BY <1>2
  <2>3. scan \in Seq(1 .. accepted')
    BY <2>1, <2>2, SeqOfMore
  <2>. QED
    BY <2>2, <2>3
<1>5. Points \subseteq Points' /\ Past \subseteq Past'
  <2>1. 1 .. accepted \subseteq 1 .. accepted'
    BY <1>2
  <2>2. Points \subseteq Points'
    BY <2>1 DEF Points
  <2>3. \A p \in Points : p.packet < accepted'
    BY <1>2 DEF Points
  <2>. QED
    BY <2>2, <2>3 DEF Past
<1>6. Holds(buffers, Past)'
  <2>1. Holds(buffers, Past')
    BY <1>5, HoldsMore DEF TypeInv
  <2>2. structured' = structured
    BY <1>2 DEF structured
  <2>. QED
    BY <1>2, <2>1, <2>2 DEF Holds
<1>7. published' \in Seq(Messages')
  <2>1. 0 .. accepted \subseteq 0 .. accepted'
    BY <1>2
  <2>2. Seq(0 .. accepted) \subseteq Seq(0 .. accepted')
    BY <2>1, SeqOfMore
  <2>3. {SetToBag(S) : S \in SUBSET Points} \subseteq {SetToBag(S) : S \in SUBSET Points'}
    BY <1>5
  <2>4. Messages \subseteq Messages'
    BY <2>2, <2>3 DEF Messages
  <2>5. published \in Seq(Messages')
    BY <2>4 DEF TypeInv
  <2>. QED
    BY <1>2, <2>5
<1>. QED
  BY <1>2, <1>3, <1>4, <1>6, <1>7 DEF TypeInv

LEMMA RestartTypes ==
  ASSUME TypeInv, Restart
  PROVE  TypeInv'
<1>. USE DEF Restart
<1>1. /\ UNCHANGED <<traffic, last, buffers, accepted, block, valid, pos, published>>
      /\ scan' = <<>> /\ frameId' = FALSE
  OBVIOUS
<1>2. restarts' \in 0 .. traffic.restarts
  BY ParamsHold DEF TypeInv, Params
<1>3. /\ Points' = Points /\ Past' = Past /\ Messages' = Messages /\ structured' = structured
  BY <1>1 DEF Points, Past, Messages, structured
<1>4. Holds(buffers, Past)'
  BY <1>1, <1>3 DEF Holds, TypeInv
<1>5. frameId' \in BOOLEAN /\ scan' \in Seq(1 .. accepted')
  <2>1. frameId' \in BOOLEAN
    BY <1>1
  <2>2. <<>> \in Seq(1 .. accepted')
    OBVIOUS
  <2>. QED
    BY <1>1, <2>1, <2>2
<1>. QED
  BY <1>1, <1>2, <1>3, <1>4, <1>5 DEF TypeInv

\* One turn of the loop, by the step of the azimuth.
Emits(step) == Crosses((pos + step) % Circle) /\ HasPoints
KeptBuffers(step) == IF Emits(step) THEN EmptiedBuffers ELSE buffers

BlockBy(step) ==
  /\ block < Blocks /\ step \in traffic.steps /\ pos + step >= 0 /\ pos' = pos + step
  /\ published' = IF Emits(step) THEN Append(published, Message) ELSE published
  /\ scan' = IF Emits(step) THEN <<>> ELSE scan
  /\ buffers' = Calc(KeptBuffers(step), BlockPoints(Turn(pos + step)))
  /\ last' = (pos + step) % Circle
  /\ block' = block + 1
  /\ frameId' = (frameId \/ Labelled)
  /\ UNCHANGED <<traffic, accepted, valid, restarts>>

LEMMA BlockSplits ==
  ASSUME Block
  PROVE  \E step \in traffic.steps : BlockBy(step)
  BY DEF Block, BlockBy, Emits, KeptBuffers, ClearedScan

\* The points a block adds are new.
LEMMA BlockPointsNew ==
  ASSUME TypeInv, block < Blocks, NEW turn \in Int
  PROVE  /\ BlockPoints(turn) \cap Past = {} /\ BlockPoints(turn) \subseteq Points
<1>1. accepted \in 1 .. accepted /\ block \in 0 .. Blocks - 1 /\ accepted \in Nat /\ block \in Nat
  BY ParamsHold DEF TypeInv, Params
<1>2. BlockPoints(turn) \subseteq Points
  BY <1>1 DEF BlockPoints, Points, TypeInv
<1>3. \A p \in BlockPoints(turn) : p.packet = accepted /\ p.block = block
  BY DEF BlockPoints
<1>. QED
  BY <1>1, <1>2, <1>3 DEF Past

\* What a block leaves in the buffers, and what it hands over.
LEMMA BlockBuffers ==
  ASSUME TypeInv, NEW step \in Int, BlockBy(step)
  PROVE  /\ Turn(pos + step) \in Int /\ pos + step \in Nat
         /\ Holds(buffers', Past \cup BlockPoints(Turn(pos + step)))
         /\ Members(buffers') = (IF Emits(step) THEN {} ELSE Members(buffers))
                                  \cup BlockPoints(Turn(pos + step))
         /\ FramePoints = SetToBag(Members(buffers)) /\ Members(buffers) \subseteq Points
<1>1. Params /\ Holds(buffers, Past) /\ valid \in SUBSET Rings /\ pos \in Nat
  BY ParamsHold DEF TypeInv
<1>2. pos + step \in Nat /\ Turn(pos + step) \in Int
  BY <1>1 DEF BlockBy, Turn, Params
<1>3. BlockPoints(Turn(pos + step)) \cap Past = {}
  BY <1>2, BlockPointsNew DEF BlockBy
<1>4. Holds(KeptBuffers(step), Past)
      /\ Members(KeptBuffers(step)) = IF Emits(step) THEN {} ELSE Members(buffers)
  BY <1>1, EmptiedHolds DEF KeptBuffers
<1>5. buffers' = Calc(KeptBuffers(step), BlockPoints(Turn(pos + step)))
  BY DEF BlockBy
<1>6. FramePoints = SetToBag(Members(buffers)) /\ Members(buffers) \subseteq Past
  BY <1>1, FramePointsAre
<1>. QED
  BY <1>1, <1>2, <1>3, <1>4, <1>5, <1>6, CalcHolds DEF Past

LEMMA MessageIs ==
  ASSUME TypeInv, FramePoints = SetToBag(Members(buffers)), Members(buffers) \subseteq Points
  PROVE  Message \in Messages
<1>1. scan \in Seq(1 .. accepted) /\ accepted \in Nat
  BY ParamsHold DEF TypeInv, Params
<1>2. Append(scan, Correction) \in Seq(0 .. accepted)
  <2>1. scan \in Seq(0 .. accepted) /\ Correction \in 0 .. accepted
    BY <1>1 DEF Correction
  <2>. QED
    BY <2>1
<1>3. frameId \in BOOLEAN
  BY DEF TypeInv
<1>. QED
  BY <1>2, <1>3 DEF Message, Messages

LEMMA BlockTypes ==
  ASSUME TypeInv, NEW step \in Int, BlockBy(step)
  PROVE  TypeInv'
<1>. DEFINE turn == Turn(pos + step)
<1>1. Params /\ pos \in Nat /\ accepted \in Nat /\ block \in 0 .. Blocks /\ scan \in Seq(1 .. accepted)
      /\ published \in Seq(Messages)
  BY ParamsHold DEF TypeInv, Params
<1>2. /\ UNCHANGED <<traffic, accepted, valid, restarts>> /\ block' = block + 1 /\ block < Blocks
      /\ pos' = pos + step /\ last' = (pos + step) % Circle /\ frameId' = (frameId \/ Labelled)
  BY DEF BlockBy
<1>3. Points' = Points /\ Messages' = Messages /\ structured' = structured
  BY <1>2 DEF Points, Messages, structured
<1>4. /\ turn \in Int /\ pos + step \in Nat
      /\ Holds(buffers', Past \cup BlockPoints(turn))
      /\ FramePoints = SetToBag(Members(buffers)) /\ Members(buffers) \subseteq Points
  BY BlockBuffers
<1>5. last' \in 0 .. Circle - 1 /\ pos' \in Nat /\ block' \in 0 .. Blocks
  BY <1>1, <1>2, <1>4 DEF Params
<1>6. Holds(buffers, Past)'
  <2>1. Past \subseteq Past'
    BY <1>1, <1>2, <1>3 DEF Past, Points
  <2>2. BlockPoints(turn) \subseteq Past'
    <3>1. BlockPoints(turn) \subseteq Points
      BY <1>2, <1>4, BlockPointsNew
    <3>2. \A p \in BlockPoints(turn) : p.block < block'
      BY <1>1, <1>2 DEF BlockPoints
    <3>. QED
      BY <1>3, <3>1, <3>2 DEF Past
  <2>3. Holds(buffers', Past')
    <3>1. Past \cup BlockPoints(turn) \subseteq Past'
      BY <2>1, <2>2
    <3>. QED
      BY <1>4, <3>1, HoldsMore
  <2>. QED
    BY <1>2, <1>3, <2>3 DEF Holds
<1>7. scan' \in Seq(1 .. accepted)
  <2>1. <<>> \in Seq(1 .. accepted)
    OBVIOUS
  <2>2. scan' = <<>> \/ scan' = scan
    BY DEF BlockBy
  <2>. QED
    BY <1>1, <2>1, <2>2
<1>8. published' \in Seq(Messages)
  <2>1. Message \in Messages
    BY <1>4, MessageIs
  <2>. QED
    BY <1>1, <2>1 DEF BlockBy
<1>9. frameId' \in BOOLEAN
  BY <1>2
<1>. QED
  BY <1>2, <1>3, <1>5, <1>6, <1>7, <1>8, <1>9 DEF TypeInv

LEMMA TypesInductive == Spec => []TypeInv
<1>1. TypeInv /\ [Next]_vars => TypeInv'
  <2>. SUFFICES ASSUME TypeInv, [Next]_vars PROVE TypeInv'
    OBVIOUS
  <2>1. CASE BeginPacket
    BY <2>1, BeginTypes
  <2>2. CASE Block
    <3>1. PICK step \in traffic.steps : BlockBy(step)
      BY <2>2, BlockSplits
    <3>2. step \in Int
      BY ParamsHold DEF TypeInv, Params
    <3>. QED
      BY <3>1, <3>2, BlockTypes
  <2>3. CASE Restart
    BY <2>3, RestartTypes
  <2>4. CASE UNCHANGED vars
    <3>1. Points' = Points /\ structured' = structured
      BY <2>4 DEF vars, Points, structured
    <3>2. Past' = Past /\ Messages' = Messages
      BY <2>4, <3>1 DEF vars, Past, Messages
    <3>. QED
      BY <2>4, <3>1, <3>2 DEF vars, TypeInv, Holds
  <2>. QED
    BY <2>1, <2>2, <2>3, <2>4 DEF Next, Done
<1>. QED
  BY <1>1, InitTypes, PTL DEF Spec

\* Whatever the traffic, PointCloud holds as many points as its index says, every
\* list its laser's, and no frame a point twice.
THEOREM TypeCorrect == Spec => []TypeOK
<1>1. TypeInv => TypeOK
  BY TypesOf
<1>. QED
  BY <1>1, TypesInductive, PTL

-----------------------------------------------------------------------------
(* The stream of frames. *)

LEMMA PendingIs == TypeInv => Pending = SetToBag(Members(buffers))
  BY FramePointsAre DEF TypeInv, Pending

LEMMA PendingNextIs == (TypeInv => Pending = SetToBag(Members(buffers)))'
  BY PendingIs, PTL

\* The bags of FrameStream are those used here.
LEMMA StreamBags ==
  ASSUME NEW S, NEW b, NEW c
  PROVE  Stream!EmptyBag = EmptyBag /\ Stream!SetToBag(S) = SetToBag(S)
         /\ Stream!(+)(b, c) = b (+) c
  BY DEF Stream!EmptyBag, EmptyBag, Stream!SetToBag, SetToBag, Stream!(+), (+)

\* The guard before EmitBackMessege: there is something to hand over, save that the
\* structured QT's index says so for ever.
LEMMA SomethingPending ==
  ASSUME TypeInv, HasPoints
  PROVE  Pending # EmptyBag \/ (structured /\ traffic.qt)
<1>. USE DEF HasPoints
<1>1. Params /\ Holds(buffers, Past)
  BY ParamsHold DEF TypeInv
<1>2. Members(buffers) # {} \/ (structured /\ traffic.qt)
  <2>1. CASE structured /\ ~traffic.qt
    <3>1. buffers.list[0] # EmptyBag /\ 0 \in Rings
      BY <1>1, <2>1 DEF Holds, Params, Rings
    <3>2. DOMAIN buffers.list[0] # {}
      <4>1. Once(buffers.list[0])
        BY <1>1, <3>1 DEF Holds
      <4>. QED
        BY <3>1, <4>1, EmptyIs
    <3>. QED
      BY <2>1, <3>1, <3>2 DEF Members
  <2>2. CASE ~structured
    <3>1. buffers.list[0] = EmptyBag
      BY <1>1, <2>2 DEF Holds, Params, Rings
    <3>2. buffers.index > 0 /\ buffers.index = Cardinality(DOMAIN buffers.cloud)
      BY <1>1, <2>2, <3>1 DEF Holds
    <3>3. DOMAIN buffers.cloud # {}
      BY <3>2, FS_EmptySet
    <3>. QED
      BY <2>2, <3>3 DEF Members
  <2>. QED
    BY <1>1, <2>1, <2>2 DEF Params
<1>3. Pending = SetToBag(Members(buffers))
  BY PendingIs
<1>. QED
  BY <1>2, <1>3, BagOfSet, BagOfNone

LEMMA InitRefines ==
  ASSUME Init
  PROVE  Stream!StreamInit
<1>1. TypeInv /\ Params
  BY InitTypes, ParamsHold DEF TypeInv
<1>2. /\ buffers = [index |-> 0, cloud |-> EmptyBag, list |-> [r \in Rings |-> EmptyBag]]
      /\ accepted = 0 /\ block = Blocks /\ valid = {} /\ scan = <<>> /\ published = <<>>
  BY DEF Init
<1>3. Pending = EmptyBag
  <2>1. Members(buffers) = {}
    BY <1>2, BagOfNone DEF Members
  <2>. QED
    BY <1>1, <2>1, PendingIs, BagOfNone
<1>4. PublishedFrames = <<>>
  BY <1>2 DEF PublishedFrames
<1>5. (structured /\ traffic.qt) \in BOOLEAN
  OBVIOUS
<1>. QED
  BY <1>2, <1>3, <1>4, <1>5, StreamBags, Zenon DEF Stream!StreamInit

LEMMA SameFrames ==
  ASSUME UNCHANGED <<traffic, buffers, published>>
  PROVE  /\ Pending' = Pending /\ PublishedFrames' = PublishedFrames
         /\ (structured /\ traffic.qt)' = (structured /\ traffic.qt)
<1>1. structured' = structured
  BY DEF structured
<1>2. Lists' = Lists
  BY DEF Lists
<1>. QED
  BY <1>1, <1>2 DEF Pending, FramePoints, PublishedFrames

\* EmitBackMessege hands over exactly what is pending, and the raw scan with the
\* correction behind it.
LEMMA FramesGrow ==
  ASSUME TypeInv, published' = Append(published, Message)
  PROVE  PublishedFrames' = Append(PublishedFrames, [points |-> Pending, scan |-> scan])
<1>1. published \in Seq(Messages) /\ scan \in Seq(Nat) /\ Len(published) \in Nat
  <2>1. accepted \in Nat
    BY ParamsHold DEF TypeInv, Params
  <2>2. scan \in Seq(1 .. accepted) /\ 1 .. accepted \subseteq Nat
    BY <2>1 DEF TypeInv
  <2>. QED
    BY <2>2, SeqOfMore DEF TypeInv
<1>2. Front(Append(scan, Correction)) = scan
  BY <1>1 DEF Front, Correction
<1>. DEFINE frame(m) == [points |-> m.points, scan |-> Front(m.scan)]
            n == Len(published)
<1>3. /\ DOMAIN published = 1 .. n /\ DOMAIN published' = 1 .. n + 1
      /\ \A i \in 1 .. n : published'[i] = published[i]
      /\ published'[n + 1] = Message
  BY <1>1
<1>4. frame(Message) = [points |-> Pending, scan |-> scan]
  BY <1>2 DEF Message, Pending
<1>5. PublishedFrames = [i \in 1 .. n |-> frame(published[i])]
  BY <1>3 DEF PublishedFrames
<1>6. PublishedFrames' = [i \in 1 .. n + 1 |-> frame(published'[i])]
  BY <1>3 DEF PublishedFrames
<1>7. Append(PublishedFrames, frame(Message)) = [i \in 1 .. n + 1 |-> frame(published'[i])]
  <2>. DEFINE all == {frame(published'[i]) : i \in 1 .. n + 1}
              sum == Append(PublishedFrames, frame(Message))
              new == [i \in 1 .. n + 1 |-> frame(published'[i])]
  <2>. HIDE DEF frame
  <2>1. /\ PublishedFrames \in Seq(all) /\ Len(PublishedFrames) = n
        /\ \A i \in 1 .. n : PublishedFrames[i] = frame(published'[i])
    <3>1. \A i \in 1 .. n : frame(published[i]) \in all /\ frame(published[i]) = frame(published'[i])
      BY <1>1, <1>3
    <3>. HIDE DEF all
    <3>2. PublishedFrames \in [1 .. n -> all]
      BY <1>5, <3>1
    <3>3. PublishedFrames \in Seq(all)
      <4>1. n \in Nat
        BY <1>1
      <4>. HIDE DEF n
      <4>. QED
        BY <3>2, <4>1
    <3>. QED
      BY <1>1, <1>5, <3>1, <3>2, <3>3
  <2>2. frame(Message) \in all /\ frame(Message) = frame(published'[n + 1])
    BY <1>1, <1>3
  <2>. HIDE DEF all
  <2>3. /\ sum \in Seq(all) /\ Len(sum) = n + 1
        /\ \A i \in 1 .. n + 1 : sum[i] = frame(published'[i])
    BY <1>1, <2>1, <2>2
  <2>4. \A i \in 1 .. n + 1 : frame(published'[i]) \in all
    BY DEF all
  <2>5. new \in Seq(all) /\ Len(new) = n + 1 /\ \A i \in 1 .. n + 1 : new[i] = frame(published'[i])
    BY <1>1, <2>4
  <2>. HIDE DEF sum, new
  <2>6. sum = new
    BY <2>3, <2>5, SeqEqual
  <2>. QED
    BY <2>6 DEF sum, new
<1>. QED
  BY <1>4, <1>6, <1>7

LEMMA BlockRefines ==
  ASSUME TypeInv, TypeInv', NEW step \in Int, BlockBy(step)
  PROVE  Stream!StreamNext
<1>. DEFINE points == BlockPoints(Turn(pos + step))
<1>1. /\ block < Blocks /\ block' = block + 1 /\ pos' = pos + step
      /\ UNCHANGED <<traffic, accepted, valid>>
  BY DEF BlockBy
<1>2. structured' = structured /\ Turn(pos)' = Turn(pos + step)
  BY <1>1 DEF structured, Turn, StartAngle
<1>3. Stream!Fresh = SetToBag(points)
  <2>1. Stream!Fresh = Stream!SetToBag(points)
    BY <1>2 DEF Stream!Fresh, BlockPoints
  <2>. HIDE DEF points
  <2>. QED
    BY <2>1, StreamBags
<1>4. /\ Members(buffers') = (IF Emits(step) THEN {} ELSE Members(buffers)) \cup points
      /\ points \cap Members(buffers) = {}
  <2>1. /\ Members(buffers') = (IF Emits(step) THEN {} ELSE Members(buffers)) \cup points
        /\ Turn(pos + step) \in Int
    BY BlockBuffers
  <2>2. Members(buffers) \subseteq Past
    BY FramePointsAre DEF TypeInv
  <2>3. points \cap Past = {}
    BY <1>1, <2>1, BlockPointsNew
  <2>. QED
    BY <2>1, <2>2, <2>3
<1>5. Pending' = SetToBag(Members(buffers'))
  <2>1. Members(buffers)' = Members(buffers')
    BY <1>2 DEF Members
  <2>. QED
    BY <2>1, PendingNextIs
<1>6. Pending = SetToBag(Members(buffers))
  BY PendingIs
<1>7. CASE Emits(step)
  <2>1. Pending # EmptyBag \/ (structured /\ traffic.qt)
    BY <1>7, SomethingPending DEF Emits
  <2>2. PublishedFrames' = Append(PublishedFrames, [points |-> Pending, scan |-> scan])
    BY <1>7, FramesGrow DEF BlockBy
  <2>3. Pending' = Stream!Fresh
    BY <1>3, <1>4, <1>5, <1>7
  <2>4. scan' = <<>>
    BY <1>7 DEF BlockBy
  <2>. QED
    BY <1>1, <1>2, <2>1, <2>2, <2>3, <2>4, StreamBags DEF Stream!StreamNext, Stream!EndFrame
<1>8. CASE ~Emits(step)
  <2>1. Pending' = Pending (+) Stream!Fresh
    <3>1. DOMAIN Pending = Members(buffers) /\ Once(Pending)
      BY <1>6, BagOfSet
    <3>2. Pending (+) SetToBag(points) = SetToBag(Members(buffers) \cup points)
      <4>. HIDE DEF points
      <4>. QED
        BY <1>4, <3>1, AddOnce
    <3>. QED
      BY <1>3, <1>4, <1>5, <1>8, <3>2
  <2>2. published' = published /\ scan' = scan
    BY <1>8 DEF BlockBy
  <2>3. PublishedFrames' = PublishedFrames
    BY <2>2 DEF PublishedFrames
  <2>. QED
    BY <1>1, <1>2, <2>1, <2>2, <2>3, StreamBags DEF Stream!StreamNext, Stream!AddPoints
<1>. QED
  BY <1>7, <1>8

\* The splitter implements the stream of frames: across every azimuth, restart and
\* layout of the buffers no point is lost or handed over twice, no raw packet is
\* lost but by a restart, and no frame is empty but a structured QT's.
THEOREM SplitterImplementsStream == Spec => ImplementsStream
<1>1. TypeInv /\ TypeInv' /\ [Next]_vars => [Stream!StreamNext]_(Stream!streamVars)
  <2>. SUFFICES ASSUME TypeInv, TypeInv', [Next]_vars
                PROVE  [Stream!StreamNext]_(Stream!streamVars)
    OBVIOUS
  <2>1. CASE BeginPacket
    <3>1. /\ block = Blocks /\ accepted' = accepted + 1 /\ scan' = Append(scan, accepted + 1)
          /\ block' = 0 /\ UNCHANGED <<traffic, buffers, published>>
      BY <2>1 DEF BeginPacket
    <3>2. valid' \in SUBSET (0 .. Lasers - 1)
      BY DEF TypeInv, Rings
    <3>. QED
      BY <3>1, <3>2, SameFrames DEF Stream!StreamNext, Stream!Accept
  <2>2. CASE Block
    <3>1. PICK step \in traffic.steps : BlockBy(step)
      BY <2>2, BlockSplits
    <3>2. step \in Int
      BY ParamsHold DEF TypeInv, Params
    <3>. QED
      BY <3>1, <3>2, BlockRefines
  <2>3. CASE Restart
    <3>1. /\ block = Blocks /\ scan' = <<>>
          /\ UNCHANGED <<traffic, buffers, accepted, block, valid, published>>
      BY <2>3 DEF Restart
    <3>. QED
      BY <3>1, SameFrames DEF Stream!StreamNext, Stream!DropScan
  <2>4. CASE UNCHANGED vars
    <3>1. UNCHANGED <<traffic, buffers, published, accepted, block, valid, scan, pos>>
      BY <2>4 DEF vars
    <3>2. Turn(pos)' = Turn(pos)
      BY <3>1 DEF Turn, StartAngle
    <3>. QED
      BY <3>1, <3>2, SameFrames DEF Stream!streamVars
  <2>. QED
    BY <2>1, <2>2, <2>3, <2>4 DEF Next, Done
<1>2. Init => Stream!StreamInit
  BY InitRefines
<1>. QED
  BY <1>1, <1>2, TypesInductive, PTL DEF Spec, ImplementsStream, Stream!StreamSpec

-----------------------------------------------------------------------------
(* Azimuths and turns.                                                       *)

\* The azimuth that the next block is compared with is where the lidar pointed,
\* unless the driver has not seen a block yet.
LastInv == HasPoints => last = pos % Circle

LEMMA LastInductive == Spec => []LastInv
<1>1. Init => LastInv
  <2>. SUFFICES ASSUME Init PROVE ~HasPoints
    BY DEF LastInv
  <2>1. 0 \in Rings
    BY ParamsHold DEF Init, Params, Rings
  <2>. QED
    BY <2>1 DEF Init, HasPoints
<1>2. LastInv /\ [Next]_vars => LastInv'
  <2>. SUFFICES ASSUME LastInv, [Next]_vars PROVE LastInv'
    OBVIOUS
  <2>1. CASE Block
    <3>1. last' = pos' % Circle
      BY <2>1 DEF Block
    <3>. QED
      BY <3>1 DEF LastInv
  <2>2. CASE UNCHANGED <<last, buffers, pos>>
    BY <2>2 DEF LastInv, HasPoints
  <2>. QED
    BY <2>1, <2>2 DEF Next, BeginPacket, Restart, Done, vars
<1>. QED
  BY <1>1, <1>2, PTL DEF Spec

\* A place that is u beyond the azimuth 0 after k rounds is in turn k when it is
\* past start_angle_ and in the one before when it is not.
LEMMA PlaceOf ==
  ASSUME Params, NEW p \in Nat
  PROVE  \E k \in Int : /\ p = Circle * k + (p % Circle) /\ p % Circle \in 0 .. Circle - 1
                        /\ Turn(p) = IF p % Circle >= StartAngle THEN k ELSE k - 1
<1>. DEFINE C == Circle
            a == StartAngle
            u == p % C
            k == p \div C
            t == Turn(p)
<1>1. C \in Nat \ {0} /\ a \in 0 .. C - 1
  BY DEF Params
<1>2. p = C * k + u /\ u \in 0 .. C - 1 /\ k \in Int
  <2>. HIDE DEF C
  <2>. QED
    BY <1>1
<1>3. p - a = C * t + ((p - a) % C) /\ (p - a) % C \in 0 .. C - 1 /\ t \in Int
  <2>1. t = (p - a) \div C
    BY DEF Turn
  <2>. DEFINE x == p - a
  <2>2. x \in Int
    BY <1>1
  <2>. HIDE DEF C, x, t
  <2>3. x = C * (x \div C) + (x % C) /\ x % C \in 0 .. C - 1 /\ x \div C \in Int
    BY <1>1, <2>2
  <2>. QED
    BY <2>1, <2>3 DEF x
<1>. DEFINE v == (p - a) % C
<1>4. C * (t - k) = u - a - v
  <2>. HIDE DEF C, a, u, k, t, v
  <2>1. C * t + v + a = C * k + u
    BY <1>1, <1>2, <1>3 DEF v
  <2>2. C * (t - k) = C * t - C * k
    BY <1>1, <1>2, <1>3
  <2>. DEFINE ct == C * t
              ck == C * k
  <2>3. ct \in Int /\ ck \in Int /\ u \in Int /\ v \in Int /\ a \in Int
    BY <1>1, <1>2, <1>3 DEF v
  <2>4. ct + v + a = ck + u /\ C * (t - k) = ct - ck
    BY <2>1, <2>2
  <2>. HIDE DEF ct, ck
  <2>. QED
    BY <2>3, <2>4
<1>5. v \in 0 .. C - 1
  BY <1>3
<1>. HIDE DEF C, a, u, k, t, v
<1>6. t = k \/ t = k - 1
  <2>. DEFINE d == t - k
  <2>1. d \in Int /\ C * d \in 2 - 2 * C .. C - 1
    BY <1>1, <1>2, <1>3, <1>4, <1>5
  <2>2. ~(d >= 1)
    <3>. HIDE DEF d
    <3>. QED
      BY <1>1, <2>1
  <2>3. ~(d <= -2)
    <3>. HIDE DEF d
    <3>. QED
      BY <1>1, <2>1
  <2>. QED
    BY <1>2, <1>3, <2>1, <2>2, <2>3
<1>7. t = IF u >= a THEN k ELSE k - 1
  <2>1. CASE t = k
    BY <1>1, <1>2, <1>3, <1>4, <1>5, <2>1
  <2>2. CASE t = k - 1
    BY <1>1, <1>2, <1>3, <1>4, <1>5, <2>2
  <2>. QED
    BY <1>6, <2>1, <2>2
<1>. QED
  BY <1>2, <1>7 DEF C, a, u, k, t

\* Where two places lie, one step apart.
LEMMA StepOf ==
  ASSUME Params, NEW p \in Nat, NEW q \in Nat
  PROVE  LET a == StartAngle
             l == p % Circle
             z == q % Circle
             d == q - p
         IN  /\ (l > z /\ a <= z) \/ (l < a /\ a <= z) => Turn(q) > Turn(p) \/ q < p
             /\ d \in 0 .. Gap - 1 /\ Turn(q) > Turn(p) =>
                  /\ z >= a => /\ l # z /\ (l > z \/ (z - l < Gap /\ l < a))
                  /\ z < a => a > 0 /\ a + d > Circle
             /\ Turn(p) \in Int /\ Turn(q) \in Int
             /\ q >= p => Turn(q) >= Turn(p)
<1>. DEFINE C == Circle
            a == StartAngle
            l == p % Circle
            z == q % Circle
            d == q - p
<1>1. C \in Nat \ {0} /\ a \in 0 .. C - 1 /\ Gap \in 1 .. C /\ d \in Int
  BY DEF Params
<1>2. PICK k \in Int : /\ p = C * k + l /\ l \in 0 .. C - 1
                       /\ Turn(p) = IF l >= a THEN k ELSE k - 1
  BY PlaceOf
<1>3. PICK m \in Int : /\ q = C * m + z /\ z \in 0 .. C - 1
                       /\ Turn(q) = IF z >= a THEN m ELSE m - 1
  BY PlaceOf
<1>. DEFINE n == m - k
            rounds == C * n
<1>4. d = rounds + z - l /\ rounds \in Int /\ n \in Int
  <2>. HIDE DEF l, z, C
  <2>. DEFINE ck == C * k
              cm == C * m
  <2>1. C * n = cm - ck /\ ck \in Int /\ cm \in Int
    BY <1>1, <1>2, <1>3
  <2>2. p = ck + l /\ q = cm + z /\ l \in Int /\ z \in Int
    BY <1>1, <1>2, <1>3
  <2>. HIDE DEF ck, cm, n
  <2>3. n \in Int
    BY <1>2, <1>3 DEF n
  <2>. QED
    BY <2>1, <2>2, <2>3
<1>. HIDE DEF C, a, l, z, d
<1>5. (n <= -1 => rounds <= -C) /\ (n >= 1 => rounds >= C) /\ (n = 0 => rounds = 0)
      /\ (n >= 2 => rounds >= 2 * C)
  <2>. HIDE DEF n
  <2>. QED
    BY <1>1, <1>4
<1>6. Turn(p) = (IF l >= a THEN k ELSE k - 1) /\ Turn(q) = (IF z >= a THEN k + n ELSE k + n - 1)
      /\ Turn(p) \in Int /\ Turn(q) \in Int
  BY <1>2, <1>3
<1>. HIDE DEF n, rounds
<1>7. l \in 0 .. C - 1 /\ z \in 0 .. C - 1 /\ k \in Int
  BY <1>2, <1>3
<1>8. (q < p <=> d < 0) /\ (q >= p <=> d >= 0)
  BY DEF d
<1>9. (l > z /\ a <= z) \/ (l < a /\ a <= z) => Turn(q) > Turn(p) \/ d < 0
  BY <1>1, <1>4, <1>5, <1>6, <1>7
<1>10. ASSUME d \in 0 .. Gap - 1, Turn(q) > Turn(p)
       PROVE  /\ z >= a => /\ l # z /\ (l > z \/ (z - l < Gap /\ l < a))
              /\ z < a => a > 0 /\ a + d > C
  <2>1. n = 0 \/ n = 1
    BY <1>1, <1>4, <1>5, <1>7, <1>10
  <2>2. CASE n = 0
    BY <1>1, <1>4, <1>5, <1>6, <1>7, <1>10, <2>2
  <2>3. CASE n = 1
    BY <1>1, <1>4, <1>5, <1>6, <1>7, <1>10, <2>3
  <2>. QED
    BY <2>1, <2>2, <2>3
<1>11. d >= 0 => Turn(q) >= Turn(p)
  BY <1>1, <1>4, <1>5, <1>6, <1>7
<1>. QED
  BY <1>6, <1>8, <1>9, <1>10, <1>11 DEF C, a, l, z, d

\* When a block publishes, and which steps do.
LEMMA EmitsWhen ==
  ASSUME TypeInv, LastInv, NEW step \in Int, BlockBy(step)
  PROVE  /\ Emits(step) => HasPoints /\ (Turn(pos') > Turn(pos) \/ pos' < pos)
         /\ HasPoints /\ step \in 0 .. Gap - 1 /\ Turn(pos') > Turn(pos) =>
              (Emits(step) <=> pos' % Circle >= StartAngle)
<1>1. /\ Params /\ pos \in Nat /\ pos' \in Nat /\ pos' - pos = step
  BY ParamsHold DEF TypeInv, BlockBy
<1>. DEFINE z == pos' % Circle
            l == pos % Circle
<1>2. z = (pos + step) % Circle
  BY DEF BlockBy
<1>3. z \in Int /\ l \in Int /\ StartAngle \in Nat /\ Gap \in Nat \ {0}
  BY <1>1 DEF Params
<1>4. /\ (l > z /\ StartAngle <= z) \/ (l < StartAngle /\ StartAngle <= z) =>
           Turn(pos') > Turn(pos) \/ pos' < pos
      /\ step \in 0 .. Gap - 1 /\ Turn(pos') > Turn(pos) /\ z >= StartAngle =>
           l # z /\ (l > z \/ (z - l < Gap /\ l < StartAngle))
  BY <1>1, StepOf
<1>5. Emits(step) <=> HasPoints /\ Crosses(z)
  BY <1>2 DEF Emits
<1>. HIDE DEF z, l
<1>6. HasPoints => last = l
  BY DEF LastInv, l
<1>7. ASSUME HasPoints
      PROVE  Crosses(z) <=> /\ l # z /\ (l > z \/ z - l < Gap)
                            /\ (l > z /\ StartAngle <= z) \/ (l < StartAngle /\ StartAngle <= z)
  BY <1>3, <1>6, <1>7 DEF Crosses, AzimuthGap
<1>8. Emits(step) => HasPoints /\ (Turn(pos') > Turn(pos) \/ pos' < pos)
  BY <1>4, <1>5, <1>7
<1>9. HasPoints /\ step \in 0 .. Gap - 1 /\ Turn(pos') > Turn(pos) => (Emits(step) <=> z >= StartAngle)
  BY <1>3, <1>4, <1>5, <1>7
<1>. QED
  BY <1>8, <1>9 DEF z

LEMMA PublishesWhen ==
  ASSUME TypeInv, NEW step \in Int, BlockBy(step)
  PROVE  published' # published <=> Emits(step)
<1>1. published \in Seq(Messages) /\ Len(published) \in Nat
  BY DEF TypeInv
<1>2. Append(published, Message) # published
  <2>1. Len(Append(published, Message)) = Len(published) + 1
    BY <1>1
  <2>. QED
    BY <1>1, <2>1
<1>. QED
  BY <1>2 DEF BlockBy

\* A frame ends only past start_angle_ or on a step back, whatever is lost and
\* whether or not the driver restarts; a small step past start_angle_ ends it
\* exactly when it does not pass the azimuth 0 too.
THEOREM TurnEndsHolds == Spec => TurnEnds
<1>. DEFINE Ends ==
       /\ published' # published => Turn(pos') > Turn(pos) \/ pos' < pos
       /\ HasPoints /\ pos' - pos \in 0 .. Gap - 1 /\ Turn(pos') > Turn(pos) =>
            (published' # published <=> pos' % Circle >= StartAngle)
<1>1. TypeInv /\ LastInv /\ [Next]_vars => [Ends]_vars
  <2>. SUFFICES ASSUME TypeInv, LastInv, [Next]_vars PROVE Ends \/ UNCHANGED vars
    OBVIOUS
  <2>1. CASE Block
    <3>1. PICK step \in traffic.steps : BlockBy(step)
      BY <2>1, BlockSplits
    <3>2. step \in Int /\ pos' - pos = step
      <4>1. step \in Int /\ pos \in Nat
        BY ParamsHold DEF TypeInv, Params
      <4>2. pos' = pos + step
        BY <3>1 DEF BlockBy
      <4>. QED
        BY <4>1, <4>2
    <3>. QED
      BY <3>1, <3>2, EmitsWhen, PublishesWhen
  <2>2. CASE UNCHANGED <<pos, published>>
    <3>1. Turn(pos') = Turn(pos) /\ Turn(pos) \in Int
      BY <2>2, ParamsHold DEF TypeInv, Params, Turn
    <3>. QED
      BY <2>2, <3>1
  <2>. QED
    BY <2>1, <2>2 DEF Next, BeginPacket, Restart, Done, vars
<1>. QED
  BY <1>1, TypesInductive, LastInductive, PTL DEF Spec, TurnEnds

-----------------------------------------------------------------------------
(* The label of the frames.                                                  *)

\* A thread that has not labelled outMsg is in its first packet or before it; the
\* driver's first thread is in packet 1.
LabelInv ==
  /\ ~frameId => IF block = Blocks THEN scan = <<>> ELSE Len(scan) <= 1
  /\ restarts = 0 /\ ~frameId => IF block = Blocks THEN accepted = 0 ELSE accepted = 1
  /\ LabelledAfterFirst

\* What a message adds to the labels.
LEMMA MessageLabelled ==
  ASSUME TypeInv, LabelInv, block < Blocks
  PROVE  /\ frameId \/ Len(Message.scan) <= 2
         /\ restarts = 0 => frameId \/ Range(Message.scan) \subseteq {Correction, 1}
<1>1. /\ accepted \in Nat /\ block # Blocks /\ scan \in Seq(1 .. accepted)
  BY ParamsHold DEF TypeInv, Params
<1>2. Message.scan = Append(scan, Correction) /\ Correction = 0
  BY DEF Message, Correction
<1>3. ~frameId => Len(Message.scan) <= 2
  BY <1>1, <1>2 DEF LabelInv
<1>4. ASSUME restarts = 0, ~frameId
      PROVE  Range(Message.scan) \subseteq {Correction, 1}
  <2>1. accepted = 1
    BY <1>1, <1>4 DEF LabelInv
  <2>2. scan \in Seq({Correction, 1})
    <3>1. 1 .. 1 \subseteq {Correction, 1}
      OBVIOUS
    <3>. QED
      BY <1>1, <2>1, <3>1, SeqOfMore
  <2>3. Message.scan \in Seq({Correction, 1})
    BY <1>2, <2>2
  <2>4. \A i \in DOMAIN Message.scan : Message.scan[i] \in {Correction, 1}
    BY <2>3
  <2>. QED
    BY <2>4 DEF Range
<1>. QED
  BY <1>3, <1>4

LEMMA LabelInductive == Spec => []LabelInv
<1>1. Init => LabelInv
  <2>. SUFFICES ASSUME Init PROVE LabelInv
    OBVIOUS
  <2>1. scan = <<>> /\ block = Blocks /\ accepted = 0 /\ Len(published) = 0
    BY DEF Init
  <2>. QED
    BY <2>1 DEF LabelInv, LabelledAfterFirst
<1>2. TypeInv /\ LabelInv /\ [Next]_vars => LabelInv'
  <2>. SUFFICES ASSUME TypeInv, LabelInv, [Next]_vars PROVE LabelInv'
    OBVIOUS
  <2>1. CASE BeginPacket
    <3>1. /\ block = Blocks /\ block' = 0 /\ accepted' = accepted + 1
          /\ scan' = Append(scan, accepted + 1) /\ UNCHANGED <<published, restarts, frameId>>
      BY <2>1 DEF BeginPacket
    <3>2. Blocks # 0 /\ accepted \in Nat
      BY ParamsHold DEF TypeInv, Params
    <3>3. ~frameId => Len(scan') <= 1
      BY <3>1, <3>2 DEF LabelInv
    <3>4. restarts = 0 /\ ~frameId => accepted' = 1
      BY <3>1, <3>2 DEF LabelInv
    <3>5. LabelledAfterFirst'
      BY <3>1 DEF LabelInv, LabelledAfterFirst
    <3>. QED
      BY <3>1, <3>2, <3>3, <3>4, <3>5 DEF LabelInv
  <2>2. CASE Block
    <3>1. PICK step \in traffic.steps : BlockBy(step)
      BY <2>2, BlockSplits
    <3>2. /\ block < Blocks /\ block' = block + 1 /\ UNCHANGED <<accepted, restarts>>
          /\ scan' = (IF Emits(step) THEN <<>> ELSE scan)
          /\ published' = (IF Emits(step) THEN Append(published, Message) ELSE published)
          /\ frameId' = (frameId \/ block + 1 = Blocks)
      BY <3>1 DEF BlockBy, Labelled
    <3>3. /\ published \in Seq(Messages) /\ Len(published) \in Nat
          /\ block \in 0 .. Blocks /\ Blocks \in Nat /\ frameId \in BOOLEAN
      BY ParamsHold DEF TypeInv, Params
    <3>4. ~frameId' => ~frameId /\ block # Blocks /\ block' # Blocks
      <4>1. frameId' = (frameId \/ block + 1 = Blocks)
        BY <3>2
      <4>2. ~frameId' => ~frameId /\ block + 1 # Blocks
        BY <4>1, Zenon
      <4>3. block # Blocks /\ block' = block + 1
        BY <3>2, <3>3
      <4>. QED
        BY <4>2, <4>3
    <3>5. ~frameId' => Len(scan') <= 1
      BY <3>2, <3>4 DEF LabelInv
    <3>6. restarts' = 0 /\ ~frameId' => accepted' = 1
      BY <3>2, <3>4 DEF LabelInv
    <3>7. LabelledAfterFirst'
      <4>1. CASE Emits(step)
        <5>1. /\ Len(published') = Len(published) + 1
              /\ \A i \in 1 .. Len(published) : published'[i] = published[i]
              /\ published'[Len(published) + 1] = Message /\ Message.frameId = frameId
          BY <3>2, <3>3, <4>1 DEF Message
        <5>2. /\ frameId \/ Len(Message.scan) <= 2
              /\ restarts = 0 => frameId \/ Range(Message.scan) \subseteq {Correction, 1}
          BY <3>2, MessageLabelled
        <5>3. ASSUME NEW i \in 1 .. Len(published')
              PROVE  /\ published'[i].frameId \/ Len(published'[i].scan) <= 2
                     /\ restarts = 0 =>
                          published'[i].frameId \/ Range(published'[i].scan) \subseteq {Correction, 1}
          <6>1. CASE i = Len(published) + 1
            BY <5>1, <5>2, <6>1
          <6>2. CASE i \in 1 .. Len(published)
            BY <5>1, <6>2 DEF LabelInv, LabelledAfterFirst
          <6>. QED
            BY <3>3, <5>1, <5>3, <6>1, <6>2
        <5>. QED
          BY <3>2, <5>3 DEF LabelledAfterFirst
      <4>2. CASE ~Emits(step)
        BY <3>2, <4>2 DEF LabelInv, LabelledAfterFirst
      <4>. QED
        BY <4>1, <4>2
    <3>. QED
      BY <3>4, <3>5, <3>6, <3>7 DEF LabelInv
  <2>3. CASE Restart
    <3>1. /\ block = Blocks /\ scan' = <<>> /\ restarts' = restarts + 1
          /\ UNCHANGED <<block, published>>
      BY <2>3 DEF Restart
    <3>2. restarts' # 0 /\ restarts + 1 # 0
      BY <3>1 DEF TypeInv
    <3>3. LabelledAfterFirst'
      BY <3>1, <3>2 DEF LabelInv, LabelledAfterFirst
    <3>. QED
      BY <3>1, <3>2, <3>3 DEF LabelInv
  <2>4. CASE UNCHANGED vars
    BY <2>4 DEF vars, LabelInv, LabelledAfterFirst
  <2>. QED
    BY <2>1, <2>2, <2>3, <2>4 DEF Next, Done
<1>. QED
  BY <1>1, <1>2, TypesInductive, PTL DEF Spec

\* Only the first packet of a thread gives frames without a frame_id, and only the
\* driver's first packet until it is restarted.
THEOREM LabelledAfterFirstHolds == Spec => []LabelledAfterFirst
<1>1. LabelInv => LabelledAfterFirst
  BY DEF LabelInv
<1>. QED
  BY <1>1, LabelInductive, PTL

-----------------------------------------------------------------------------
(* Raw scans and frames.                                                     *)

\* The packets in the first i scans.
Closed(i) == {p \in 1 .. accepted : \E j \in 1 .. i : p \in Range(published[j].scan)}

\* Until a restart the packets up to some number are in the first i scans, the scan
\* under way goes on from there, and no point waiting is of a packet before the
\* last one that is closed.
CoverInv ==
  restarts = 0 =>
    /\ \A i \in 0 .. Len(published) : RawUpTo(i) \in 0 .. accepted /\ Closed(i) = 1 .. RawUpTo(i)
    /\ Range(scan) = RawUpTo(Len(published)) + 1 .. accepted
    /\ \A p \in Members(buffers) : RawUpTo(Len(published)) <= p.packet
    /\ ScanCoversFrame

LEMMA RangeOf ==
  ASSUME NEW S, NEW s \in Seq(S)
  PROVE  Range(s) \subseteq S
<1>1. \A i \in DOMAIN s : s[i] \in S
  OBVIOUS
<1>. QED
  BY <1>1 DEF Range

LEMMA RangeOfAppend ==
  ASSUME NEW S, NEW s \in Seq(S), NEW e
  PROVE  Range(Append(s, e)) = Range(s) \cup {e}
<1>. DEFINE t == Append(s, e)
<1>1. /\ DOMAIN s = 1 .. Len(s) /\ Len(s) \in Nat /\ DOMAIN t = 1 .. Len(s) + 1
      /\ \A i \in 1 .. Len(s) : t[i] = s[i]
      /\ t[Len(s) + 1] = e
  <2>1. s \in Seq(S \cup {e}) /\ e \in S \cup {e}
    BY SeqOfMore
  <2>. QED
    BY <2>1
<1>. HIDE DEF t
<1>2. ASSUME NEW x \in Range(t)
      PROVE  x \in Range(s) \cup {e}
  BY <1>1 DEF Range
<1>3. ASSUME NEW x \in Range(s) \cup {e}
      PROVE  x \in Range(t)
  BY <1>1 DEF Range
<1>. QED
  BY <1>2, <1>3 DEF t

LEMMA ClosedIs ==
  ASSUME NEW i, NEW m \in Nat, Closed(i) = 1 .. m
  PROVE  RawUpTo(i) = m
<1>1. Cardinality(1 .. m) = m
  BY FS_Interval
<1>. QED
  BY <1>1 DEF RawUpTo, Closed

LEMMA ClosedNextIs ==
  ASSUME NEW i, NEW m \in Nat
  PROVE  (Closed(i) = 1 .. m => RawUpTo(i) = m)'
<1>1. Closed(i) = 1 .. m => RawUpTo(i) = m
  BY ClosedIs
<1>. QED
  BY <1>1, PTL

\* A scan that is closed stays as it is, and so does what it holds.
LEMMA ClosedKept ==
  ASSUME TypeInv, accepted' \in Nat, accepted' >= accepted,
         \A j \in 1 .. Len(published) : published'[j] = published[j],
         NEW i \in 0 .. Len(published)
  PROVE  Closed(i)' = Closed(i) /\ RawUpTo(i)' = RawUpTo(i)
<1>1. accepted \in Nat /\ published \in Seq(Messages) /\ Len(published) \in Nat
  BY ParamsHold DEF TypeInv, Params
<1>2. ASSUME NEW j \in 1 .. i
      PROVE  published'[j] = published[j] /\ Range(published[j].scan) \subseteq 0 .. accepted
  <2>1. j \in 1 .. Len(published)
    BY <1>1
  <2>2. published'[j] = published[j]
    BY <2>1
  <2>3. published[j] \in Messages
    BY <1>1, <2>1
  <2>4. published[j].scan \in Seq(0 .. accepted)
    BY <2>3 DEF Messages
  <2>5. Range(published[j].scan) \subseteq 0 .. accepted
    BY <2>4, RangeOf
  <2>. QED
    BY <2>2, <2>5
<1>3. Closed(i)' = Closed(i)
  BY <1>1, <1>2 DEF Closed
<1>. QED
  BY <1>3 DEF RawUpTo, Closed

LEMMA BeginCovers ==
  ASSUME TypeInv, CoverInv, BeginPacket
  PROVE  CoverInv'
<1>. SUFFICES ASSUME restarts' = 0 PROVE CoverInv'
  BY DEF CoverInv
<1>1. /\ accepted' = accepted + 1 /\ scan' = Append(scan, accepted + 1)
      /\ UNCHANGED <<traffic, buffers, published, restarts>>
  BY DEF BeginPacket
<1>2. accepted \in Nat /\ Len(published) \in Nat /\ scan \in Seq(1 .. accepted)
  BY ParamsHold DEF TypeInv, Params
<1>. PICK n \in Nat : n = Len(published)
  BY <1>2
<1>3. \A i \in 0 .. n : Closed(i)' = Closed(i) /\ RawUpTo(i)' = RawUpTo(i)
  BY <1>1, <1>2, ClosedKept
<1>4. /\ \A i \in 0 .. n : RawUpTo(i) \in 0 .. accepted /\ Closed(i) = 1 .. RawUpTo(i)
      /\ Range(scan) = RawUpTo(n) + 1 .. accepted
      /\ \A p \in Members(buffers) : RawUpTo(n) <= p.packet
      /\ ScanCoversFrame
  BY <1>1 DEF CoverInv
<1>5. Range(scan') = RawUpTo(n) + 1 .. accepted'
  <2>1. Range(scan') = Range(scan) \cup {accepted + 1}
    BY <1>1, <1>2, RangeOfAppend
  <2>. DEFINE m == RawUpTo(n)
  <2>2. m \in 0 .. accepted /\ Range(scan) = m + 1 .. accepted
    BY <1>4
  <2>. HIDE DEF m
  <2>3. (m + 1 .. accepted) \cup {accepted + 1} = m + 1 .. accepted + 1
    BY <1>2, <2>2
  <2>. QED
    BY <1>1, <2>1, <2>2, <2>3 DEF m
<1>6. Members(buffers') = Members(buffers) /\ Members(buffers)' = Members(buffers)
  BY <1>1 DEF Members, structured
<1>7. ScanCoversFrame'
  <2>1. ASSUME NEW i \in 1 .. n
        PROVE  \A p \in DOMAIN published[i].points :
                 (RawUpTo(i - 1) <= p.packet /\ p.packet <= RawUpTo(i))
    BY <1>1, <1>4 DEF ScanCoversFrame
  <2>2. ASSUME NEW i \in 1 .. n
        PROVE  RawUpTo(i)' = RawUpTo(i) /\ RawUpTo(i - 1)' = RawUpTo(i - 1)
    BY <1>3
  <2>. QED
    BY <1>1, <2>1, <2>2 DEF ScanCoversFrame
<1>. QED
  BY <1>1, <1>2, <1>3, <1>4, <1>5, <1>6, <1>7 DEF CoverInv

LEMMA BlockCovers ==
  ASSUME TypeInv, CoverInv, NEW step \in Int, BlockBy(step)
  PROVE  CoverInv'
<1>. SUFFICES ASSUME restarts' = 0 PROVE CoverInv'
  BY DEF CoverInv
<1>. DEFINE points == BlockPoints(Turn(pos + step))
<1>1. /\ UNCHANGED <<traffic, accepted, restarts>>
      /\ scan' = (IF Emits(step) THEN <<>> ELSE scan)
      /\ published' = (IF Emits(step) THEN Append(published, Message) ELSE published)
  BY DEF BlockBy
<1>2. accepted \in Nat /\ Len(published) \in Nat /\ published \in Seq(Messages)
      /\ scan \in Seq(1 .. accepted)
  BY ParamsHold DEF TypeInv, Params
<1>. PICK n \in Nat : n = Len(published)
  BY <1>2
<1>3. /\ Len(published') = (IF Emits(step) THEN n + 1 ELSE n)
      /\ \A j \in 1 .. n : published'[j] = published[j]
      /\ Emits(step) => published'[n + 1] = Message
  BY <1>1, <1>2
<1>4. \A i \in 0 .. n : Closed(i)' = Closed(i) /\ RawUpTo(i)' = RawUpTo(i)
  BY <1>1, <1>2, <1>3, ClosedKept
<1>5. /\ \A i \in 0 .. n : RawUpTo(i) \in 0 .. accepted /\ Closed(i) = 1 .. RawUpTo(i)
      /\ Range(scan) = RawUpTo(n) + 1 .. accepted
      /\ \A p \in Members(buffers) : RawUpTo(n) <= p.packet
  BY <1>1 DEF CoverInv
<1>6. ASSUME NEW i \in 1 .. n, NEW p \in DOMAIN published[i].points
      PROVE  RawUpTo(i - 1) <= p.packet /\ p.packet <= RawUpTo(i)
  BY <1>1 DEF CoverInv, ScanCoversFrame
<1>7. \A i \in 1 .. n : RawUpTo(i)' = RawUpTo(i) /\ RawUpTo(i - 1)' = RawUpTo(i - 1)
  BY <1>4
<1>8. /\ Members(buffers)' = (IF Emits(step) THEN {} ELSE Members(buffers)) \cup points
      /\ FramePoints = SetToBag(Members(buffers)) /\ Members(buffers) \subseteq Points
  <2>1. structured' = structured
    BY <1>1 DEF structured
  <2>2. Members(buffers)' = Members(buffers')
    BY <2>1 DEF Members
  <2>. QED
    BY <2>2, BlockBuffers
<1>9. \A p \in points : p.packet = accepted
  BY DEF BlockPoints
<1>. HIDE DEF points
<1>10. CASE ~Emits(step)
  <2>1. published' = published /\ scan' = scan /\ accepted' = accepted
    BY <1>1, <1>10
  <2>2. \A p \in Members(buffers)' : RawUpTo(n) <= p.packet
    BY <1>2, <1>5, <1>8, <1>9, <1>10
  <2>3. ScanCoversFrame'
    BY <1>6, <1>7, <2>1 DEF ScanCoversFrame
  <2>4. Len(published') = n /\ RawUpTo(n)' = RawUpTo(n)
    BY <1>4, <2>1
  <2>5. \A i \in 0 .. n : RawUpTo(i)' \in 0 .. accepted /\ Closed(i)' = 1 .. RawUpTo(i)'
    BY <1>4, <1>5
  <2>. QED
    BY <1>5, <2>1, <2>2, <2>3, <2>4, <2>5 DEF CoverInv
<1>11. CASE Emits(step)
  <2>1. /\ scan' = <<>> /\ accepted' = accepted /\ Len(published') = n + 1
        /\ published'[n + 1] = Message
    BY <1>1, <1>3, <1>11
  <2>2. Closed(n + 1)' = 1 .. accepted
    <3>1. Range(Message.scan) = Range(scan) \cup {0}
      BY <1>2, RangeOfAppend DEF Message, Correction
    <3>. DEFINE m == RawUpTo(n)
    <3>2. Range(scan) = m + 1 .. accepted /\ m \in 0 .. accepted
      BY <1>5
    <3>3. Closed(n)' = 1 .. m
      BY <1>4, <1>5
    <3>. HIDE DEF m
    <3>4. ASSUME NEW p \in 1 .. accepted
          PROVE  \E j \in 1 .. n + 1 : p \in Range(published'[j].scan)
      <4>1. CASE p \in 1 .. m
        <5>1. p \in Closed(n)'
          BY <3>3, <4>1
        <5>2. PICK j \in 1 .. n : p \in Range(published'[j].scan)
          BY <5>1 DEF Closed
        <5>. QED
          BY <5>2
      <4>2. CASE p \in m + 1 .. accepted
        <5>1. p \in Range(published'[n + 1].scan)
          BY <2>1, <3>1, <3>2, <4>2
        <5>. QED
          BY <5>1
      <4>. QED
        BY <1>2, <3>2, <4>1, <4>2
    <3>. QED
      BY <2>1, <3>4 DEF Closed
  <2>3. RawUpTo(n + 1)' = accepted
    BY <1>2, <2>2, ClosedNextIs
  <2>4. Range(scan') = accepted + 1 .. accepted
    <3>1. Range(scan') = {}
      BY <2>1 DEF Range
    <3>2. accepted + 1 .. accepted = {}
      BY <1>2
    <3>. QED
      BY <3>1, <3>2
  <2>5. \A p \in Members(buffers)' : accepted <= p.packet
    BY <1>2, <1>8, <1>9, <1>11
  <2>6. ASSUME NEW p \in DOMAIN published'[n + 1].points
        PROVE  RawUpTo(n)' <= p.packet /\ p.packet <= RawUpTo(n + 1)'
    <3>1. p \in Members(buffers)
      BY <1>8, <2>1, <2>6, BagOfSet DEF Message
    <3>2. p.packet \in 1 .. accepted
      BY <1>8, <3>1 DEF Points
    <3>3. RawUpTo(n) <= p.packet /\ RawUpTo(n)' = RawUpTo(n)
      BY <1>4, <1>5, <3>1
    <3>. QED
      BY <2>3, <3>2, <3>3
  <2>7. ScanCoversFrame'
    <3>1. ASSUME NEW i \in 1 .. n + 1, NEW p \in DOMAIN published'[i].points
          PROVE  RawUpTo(i - 1)' <= p.packet /\ p.packet <= RawUpTo(i)'
      <4>1. CASE i = n + 1
        <5>1. i - 1 = n
          BY <4>1
        <5>. QED
          BY <2>6, <3>1, <4>1, <5>1
      <4>2. CASE i \in 1 .. n
        BY <1>3, <1>6, <1>7, <3>1, <4>2
      <4>. QED
        BY <4>1, <4>2
    <3>. QED
      BY <2>1, <3>1 DEF ScanCoversFrame
  <2>8. ASSUME NEW i \in 0 .. n + 1
        PROVE  RawUpTo(i)' \in 0 .. accepted /\ Closed(i)' = 1 .. RawUpTo(i)'
    <3>1. CASE i = n + 1
      BY <1>2, <2>2, <2>3, <3>1
    <3>2. CASE i \in 0 .. n
      BY <1>4, <1>5, <3>2
    <3>. QED
      BY <3>1, <3>2
  <2>. QED
    BY <2>1, <2>3, <2>4, <2>5, <2>7, <2>8 DEF CoverInv
<1>. QED
  BY <1>10, <1>11

LEMMA CoverInductive == Spec => []CoverInv
<1>1. Init => CoverInv
  <2>. SUFFICES ASSUME Init PROVE CoverInv
    OBVIOUS
  <2>1. /\ Len(published) = 0 /\ accepted = 0 /\ scan = <<>> /\ Params
        /\ buffers = [index |-> 0, cloud |-> EmptyBag, list |-> [r \in Rings |-> EmptyBag]]
    BY ParamsHold DEF Init
  <2>2. Closed(0) = 1 .. 0 /\ RawUpTo(0) = 0
    <3>1. Closed(0) = 1 .. 0
      BY <2>1 DEF Closed
    <3>. QED
      BY <3>1, ClosedIs
  <2>3. Range(scan) = {} /\ 0 + 1 .. 0 = {}
    BY <2>1 DEF Range
  <2>4. Members(buffers) = {}
    BY <2>1, BagOfNone DEF Members
  <2>5. ScanCoversFrame
    BY <2>1 DEF ScanCoversFrame
  <2>6. \A i \in 0 .. Len(published) : RawUpTo(i) \in 0 .. accepted /\ Closed(i) = 1 .. RawUpTo(i)
    <3>1. \A i \in 0 .. Len(published) : i = 0
      BY <2>1
    <3>2. 0 \in 0 .. accepted
      BY <2>1
    <3>. QED
      BY <2>2, <3>1, <3>2
  <2>7. Range(scan) = RawUpTo(Len(published)) + 1 .. accepted
    BY <2>1, <2>2, <2>3
  <2>. QED
    BY <2>4, <2>5, <2>6, <2>7 DEF CoverInv
<1>2. TypeInv /\ CoverInv /\ [Next]_vars => CoverInv'
  <2>. SUFFICES ASSUME TypeInv, CoverInv, [Next]_vars PROVE CoverInv'
    OBVIOUS
  <2>1. CASE BeginPacket
    BY <2>1, BeginCovers
  <2>2. CASE Block
    <3>1. PICK step \in traffic.steps : BlockBy(step)
      BY <2>2, BlockSplits
    <3>2. step \in Int
      BY ParamsHold DEF TypeInv, Params
    <3>. QED
      BY <3>1, <3>2, BlockCovers
  <2>3. CASE Restart
    <3>1. restarts' = restarts + 1 /\ restarts' # 0
      BY <2>3 DEF Restart, TypeInv
    <3>. QED
      BY <3>1 DEF CoverInv
  <2>4. CASE UNCHANGED vars
    <3>1. structured' = structured
      BY <2>4 DEF vars, structured
    <3>2. \A i \in 0 .. Len(published) : Closed(i)' = Closed(i) /\ RawUpTo(i)' = RawUpTo(i)
      BY <2>4 DEF vars, Closed, RawUpTo
    <3>3. Members(buffers)' = Members(buffers)
      BY <2>4, <3>1 DEF vars, Members
    <3>4. ScanCoversFrame' <=> ScanCoversFrame
      BY <2>4 DEF vars, ScanCoversFrame, RawUpTo
    <3>5. RawUpTo(Len(published))' = RawUpTo(Len(published))
      BY <2>4 DEF vars, RawUpTo
    <3>. QED
      BY <2>4, <3>2, <3>3, <3>4, <3>5 DEF vars, CoverInv
  <2>. QED
    BY <2>1, <2>2, <2>3, <2>4 DEF Next, Done
<1>. QED
  BY <1>1, <1>2, TypesInductive, PTL DEF Spec

\* Until a restart, the raw packets of a frame's points are in its own scan, or are
\* the one in which the frame before it ended.
THEOREM ScanCoversFrameHolds == Spec => []ScanCoversFrame
<1>1. CoverInv => ScanCoversFrame
  BY DEF CoverInv, ScanCoversFrame
<1>. QED
  BY <1>1, CoverInductive, PTL

-----------------------------------------------------------------------------
(* Frames and turns.                                                         *)

OneTurnEach(frames) ==
  \A i \in 1 .. Len(frames) :
    /\ \A p, q \in DOMAIN frames[i].points : p.turn = q.turn
    /\ i > 1 => \A p \in DOMAIN frames[i - 1].points :
                  \A q \in DOMAIN frames[i].points : p.turn < q.turn

\* When the lidar turns without gaps, the points that wait are of the turn under
\* way, those of the last frame of an earlier one, and the guard before
\* EmitBackMessege is true as long as points wait.
TurnsInv ==
  Steady =>
    /\ block < Blocks /\ structured => 0 \in valid
    /\ Members(buffers) # {} => HasPoints
    /\ \A p \in Members(buffers) : p.turn = Turn(pos)
    /\ Len(published) > 0 =>
         \A p \in DOMAIN published[Len(published)].points : p.turn < Turn(pos)
    /\ OneTurnEach(published)

\* After a block that has its points the guard is true.
LEMMA PointsSeen ==
  ASSUME NEW P, Holds(buffers, P), Params, Members(buffers) # {},
         structured => \E p \in Members(buffers) : p.ring = 0
  PROVE  HasPoints
<1>1. CASE structured
  <2>1. PICK r \in Rings : \E p \in DOMAIN buffers.list[r] : p.ring = 0
    BY <1>1 DEF Members
  <2>2. r = 0 /\ Once(buffers.list[r]) /\ DOMAIN buffers.list[r] # {}
    BY <2>1 DEF Holds
  <2>3. buffers.list[0] # EmptyBag
    BY <2>2, EmptyIs
  <2>. QED
    BY <2>3 DEF HasPoints
<1>2. CASE ~structured
  <2>1. /\ IsFiniteSet(DOMAIN buffers.cloud) /\ DOMAIN buffers.cloud # {}
        /\ buffers.index = Cardinality(DOMAIN buffers.cloud)
    BY <1>2 DEF Holds, Members
  <2>2. buffers.index \in Nat /\ buffers.index # 0
    BY <2>1, FS_EmptySet, FS_CardinalityType
  <2>. QED
    BY <2>2 DEF HasPoints
<1>. QED
  BY <1>1, <1>2

LEMMA PointsSeenNext ==
  ASSUME NEW P
  PROVE  (Holds(buffers, P) /\ Params /\ Members(buffers) # {}
            /\ (structured => \E p \in Members(buffers) : p.ring = 0) => HasPoints)'
<1>1. Holds(buffers, P) /\ Params /\ Members(buffers) # {}
        /\ (structured => \E p \in Members(buffers) : p.ring = 0) => HasPoints
  BY PointsSeen
<1>. QED
  BY <1>1, PTL

\* A small step that publishes nothing stays in the turn, as long as points wait.
LEMMA SteadyStep ==
  ASSUME TypeInv, LastInv, Steady, NEW step \in traffic.steps, BlockBy(step)
  PROVE  /\ step \in Int /\ Turn(pos) \in Int /\ Turn(pos') \in Int /\ Turn(pos) <= Turn(pos')
         /\ Emits(step) => Turn(pos) < Turn(pos')
         /\ HasPoints /\ ~Emits(step) => Turn(pos') = Turn(pos)
<1>1. /\ Params /\ pos \in Nat /\ step \in 0 .. Gap - 1 /\ Gap \in Nat
      /\ StartAngle = 0 \/ StartAngle + step <= Circle
      /\ StartAngle \in Nat /\ Circle \in Nat \ {0}
  BY ParamsHold DEF TypeInv, Steady, Params
<1>2. pos' = pos + step
  BY DEF BlockBy
<1>3. pos' \in Nat /\ pos' - pos = step /\ pos' >= pos /\ step \in Int
  BY <1>1, <1>2
<1>4. /\ step \in 0 .. Gap - 1 /\ Turn(pos') > Turn(pos) =>
           (pos' % Circle < StartAngle => StartAngle > 0 /\ StartAngle + step > Circle)
      /\ Turn(pos) \in Int /\ Turn(pos') \in Int
      /\ Turn(pos') >= Turn(pos)
  BY <1>1, <1>3, StepOf
<1>5. /\ Emits(step) => Turn(pos') > Turn(pos) \/ pos' < pos
      /\ HasPoints /\ step \in 0 .. Gap - 1 /\ Turn(pos') > Turn(pos) =>
           (Emits(step) <=> pos' % Circle >= StartAngle)
  BY <1>3, EmitsWhen
<1>6. pos' % Circle \in Nat
  <2>. DEFINE q == pos'
  <2>1. q \in Nat
    BY <1>3
  <2>. HIDE DEF q
  <2>2. q % Circle \in Nat
    BY <1>1, <2>1
  <2>. QED
    BY <2>2 DEF q
<1>7. Emits(step) => Turn(pos) < Turn(pos')
  BY <1>1, <1>3, <1>4, <1>5
<1>8. ASSUME HasPoints, ~Emits(step)
      PROVE  Turn(pos') = Turn(pos)
  <2>1. ~(Turn(pos') > Turn(pos))
    BY <1>1, <1>4, <1>5, <1>6, <1>8
  <2>. QED
    BY <1>4, <2>1
<1>. QED
  BY <1>3, <1>4, <1>7, <1>8

LEMMA BlockTurns ==
  ASSUME TypeInv, LastInv, TurnsInv, NEW step \in traffic.steps, BlockBy(step)
  PROVE  TurnsInv'
<1>1. UNCHANGED <<traffic, accepted, valid, restarts>> /\ block < Blocks /\ pos' = pos + step
      /\ published' = (IF Emits(step) THEN Append(published, Message) ELSE published)
  BY DEF BlockBy
<1>2. /\ structured' = structured /\ Steady' = Steady /\ Params' = Params
      /\ Turn(pos)' = Turn(pos') /\ Turn(pos + step) = Turn(pos')
  BY <1>1 DEF structured, Steady, StartAngle, Params, Turn
<1>. SUFFICES ASSUME Steady PROVE TurnsInv'
  BY <1>2 DEF TurnsInv
<1>3. /\ structured => 0 \in valid
      /\ Members(buffers) # {} => HasPoints
      /\ \A p \in Members(buffers) : p.turn = Turn(pos)
      /\ Len(published) > 0 => \A p \in DOMAIN published[Len(published)].points : p.turn < Turn(pos)
      /\ OneTurnEach(published)
  BY <1>1 DEF TurnsInv
<1>4. /\ step \in Int /\ Turn(pos) \in Int /\ Turn(pos') \in Int /\ Turn(pos) <= Turn(pos')
      /\ Emits(step) => Turn(pos) < Turn(pos')
      /\ HasPoints /\ ~Emits(step) => Turn(pos') = Turn(pos)
  BY SteadyStep
<1>. DEFINE points == BlockPoints(Turn(pos'))
<1>5. /\ Holds(buffers', Past \cup points)
      /\ Members(buffers)' = (IF Emits(step) THEN {} ELSE Members(buffers)) \cup points
      /\ FramePoints = SetToBag(Members(buffers)) /\ Members(buffers) \subseteq Points
  <2>1. Members(buffers)' = Members(buffers')
    BY <1>2 DEF Members
  <2>. QED
    BY <1>2, <1>4, <2>1, BlockBuffers
<1>6. /\ \A p \in points : p.turn = Turn(pos')
      /\ 0 \in valid => \E p \in points : p.ring = 0
  <2>. DEFINE point(r) == [packet |-> accepted, block |-> block, ring |-> r, turn |-> Turn(pos')]
  <2>1. points = {point(r) : r \in valid}
    BY DEF BlockPoints
  <2>2. \A r : point(r).turn = Turn(pos') /\ point(r).ring = r
    OBVIOUS
  <2>. HIDE DEF points, point
  <2>. QED
    BY <2>1, <2>2
<1>. HIDE DEF points
<1>7. \A p \in Members(buffers)' : p.turn = Turn(pos')
  BY <1>3, <1>4, <1>5, <1>6
<1>8. Members(buffers)' # {} => HasPoints'
  <2>1. Params'
    BY <1>2, ParamsHold DEF TypeInv
  <2>2. structured => \E p \in Members(buffers)' : p.ring = 0
    BY <1>3, <1>5, <1>6
  <2>. PICK P : P = Past \cup points
    OBVIOUS
  <2>3. Holds(buffers, P)'
    BY <1>1, <1>2, <1>5 DEF Holds
  <2>. QED
    BY <1>2, <2>1, <2>2, <2>3, PointsSeenNext
<1>9. published \in Seq(Messages) /\ Len(published) \in Nat
  BY DEF TypeInv
<1>10. CASE ~Emits(step)
  <2>1. published' = published
    BY <1>1, <1>10
  <2>2. Len(published) > 0 => \A p \in DOMAIN published[Len(published)].points : p.turn < Turn(pos')
    <3>1. ASSUME NEW p \in DOMAIN published[Len(published)].points, Len(published) > 0
          PROVE  p.turn < Turn(pos')
      <4>1. p \in Points
        <5>1. published[Len(published)] \in Messages
          BY <1>9, <3>1
        <5>2. PICK S \in SUBSET Points : published[Len(published)].points = SetToBag(S)
          BY <5>1 DEF Messages
        <5>. QED
          BY <3>1, <5>2, BagOfSet
      <4>2. p.turn \in Int /\ p.turn < Turn(pos)
        BY <1>3, <3>1, <4>1 DEF Points
      <4>. QED
        BY <1>4, <4>2
    <3>. QED
      BY <3>1
  <2>. QED
    BY <1>1, <1>2, <1>3, <1>7, <1>8, <2>1, <2>2 DEF TurnsInv
<1>11. CASE Emits(step)
  <2>. PICK n \in Nat : n = Len(published)
    BY <1>9
  <2>1. /\ Len(published') = n + 1 /\ published'[n + 1] = Message
        /\ \A i \in 1 .. n : published'[i] = published[i]
    BY <1>1, <1>9, <1>11
  <2>2. DOMAIN published'[n + 1].points = Members(buffers)
    BY <1>5, <2>1, BagOfSet DEF Message
  <2>3. \A p \in DOMAIN published'[n + 1].points : p.turn = Turn(pos) /\ p.turn < Turn(pos')
    BY <1>3, <1>4, <1>11, <2>2
  <2>4. OneTurnEach(published')
    <3>1. ASSUME NEW i \in 1 .. n + 1
          PROVE  /\ \A p, q \in DOMAIN published'[i].points : p.turn = q.turn
                 /\ i > 1 => \A p \in DOMAIN published'[i - 1].points :
                               \A q \in DOMAIN published'[i].points : p.turn < q.turn
      <4>1. CASE i \in 1 .. n
        <5>1. published'[i] = published[i] /\ (i > 1 => published'[i - 1] = published[i - 1])
          BY <2>1, <4>1
        <5>. QED
          BY <1>3, <4>1, <5>1 DEF OneTurnEach
      <4>2. CASE i = n + 1
        <5>1. i > 1 => published'[i - 1] = published[n] /\ n > 0
          BY <2>1, <4>2
        <5>2. i > 1 => \A p \in DOMAIN published'[i - 1].points : p.turn < Turn(pos)
          BY <1>3, <5>1
        <5>. QED
          BY <2>3, <4>2, <5>2
      <4>. QED
        BY <4>1, <4>2
    <3>. QED
      BY <2>1, <3>1 DEF OneTurnEach
  <2>5. \A p \in DOMAIN published'[Len(published')].points : p.turn < Turn(pos')
    BY <2>1, <2>3
  <2>. QED
    BY <1>1, <1>2, <1>3, <1>7, <1>8, <2>4, <2>5 DEF TurnsInv
<1>. QED
  BY <1>10, <1>11

LEMMA TurnsInductive == Spec => []TurnsInv
<1>1. Init => TurnsInv
  <2>. SUFFICES ASSUME Init PROVE TurnsInv
    OBVIOUS
  <2>1. /\ Len(published) = 0 /\ ~(block < Blocks) /\ Params
        /\ buffers = [index |-> 0, cloud |-> EmptyBag, list |-> [r \in Rings |-> EmptyBag]]
    BY ParamsHold DEF Init, Params
  <2>2. Members(buffers) = {}
    BY <2>1, BagOfNone DEF Members
  <2>3. OneTurnEach(published)
    BY <2>1 DEF OneTurnEach
  <2>. QED
    BY <2>1, <2>2, <2>3 DEF TurnsInv
<1>2. TypeInv /\ LastInv /\ TurnsInv /\ [Next]_vars => TurnsInv'
  <2>. SUFFICES ASSUME TypeInv, LastInv, TurnsInv, [Next]_vars PROVE TurnsInv'
    OBVIOUS
  <2>1. CASE Block
    <3>1. PICK step \in traffic.steps : BlockBy(step)
      BY <2>1, BlockSplits
    <3>. QED
      BY <3>1, BlockTurns
  <2>2. ASSUME UNCHANGED <<traffic, buffers, pos, published>>,
               block' < Blocks /\ structured /\ Steady => 0 \in valid'
        PROVE  TurnsInv'
    <3>1. /\ structured' = structured /\ Steady' = Steady /\ Turn(pos)' = Turn(pos)
      BY <2>2 DEF structured, Steady, StartAngle, Turn
    <3>2. Members(buffers)' = Members(buffers) /\ HasPoints' = HasPoints
          /\ OneTurnEach(published)' = OneTurnEach(published)
      BY <2>2, <3>1 DEF Members, HasPoints, OneTurnEach
    <3>. QED
      BY <2>2, <3>1, <3>2 DEF TurnsInv
  <2>3. CASE BeginPacket
    <3>1. valid' \in traffic.valid /\ UNCHANGED <<traffic, buffers, pos, published>>
      BY <2>3 DEF BeginPacket
    <3>2. structured /\ Steady => 0 \in valid'
      BY <3>1 DEF Steady
    <3>. QED
      BY <2>2, <3>1, <3>2
  <2>4. CASE UNCHANGED <<traffic, buffers, pos, published, block, valid>>
    <3>1. block' < Blocks /\ structured /\ Steady => 0 \in valid'
      BY <2>4 DEF TurnsInv
    <3>. QED
      BY <2>2, <2>4, <3>1
  <2>. QED
    BY <2>1, <2>3, <2>4 DEF Next, Restart, Done, vars
<1>. QED
  BY <1>1, <1>2, TypesInductive, LastInductive, PTL DEF Spec

\* One frame for each turn of a lidar that turns without gaps.
THEOREM FramesAreTurnsHolds == Spec => []FramesAreTurns
<1>1. TypeInv /\ TurnsInv => FramesAreTurns
  <2>. SUFFICES ASSUME TypeInv, TurnsInv, Steady
                PROVE  OneTurnEach(published) /\ \A p \in DOMAIN Pending : p.turn = Turn(pos)
    BY DEF FramesAreTurns, OneTurnEach
  <2>1. DOMAIN Pending = Members(buffers)
    BY PendingIs, BagOfSet
  <2>. QED
    BY <2>1 DEF TurnsInv
<1>. QED
  BY <1>1, TypesInductive, TurnsInductive, PTL

=============================================================================
