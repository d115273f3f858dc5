--------------------------- MODULE ReceiverProofs ----------------------------
(***************************************************************************)
(* What reaches PushLiDARData, for sockets of every size, every number of  *)
(* datagrams, good or bad, and every pace of the GPS.                      *)
(***************************************************************************)
EXTENDS Receiver, SequenceTheorems, FiniteSetTheorems, WellFoundedInduction, TLAPS

Datagrams == Lidar \cup {Gps, Bad}

\* PushedInOrder, of any sequence and the set of its lidar datagrams.
Ordered(all, lidars) ==
  /\ {d \in Lidar : \E i \in DOMAIN all : all[i] = d} = lidars
  /\ \A i, j \in DOMAIN all : i < j /\ all[j] \in Lidar => all[i] < all[j]

\* A datagram with a wrong checksum is still in the socket, or it may have left one
\* failed read behind.
BadAccounted == Count(pushed, Nothing) + Count(lidarSock, Bad) <= bad

\* The next datagram of the lidar is later than those taken.
TakenSent == \A d \in taken : d <= sent

IInv == TypeOK /\ PushedInOrder /\ TakenSent /\ BadAccounted

-----------------------------------------------------------------------------
(* Sequences of at most n elements. *)

LEMMA BoundedSeqIs ==
  ASSUME NEW S, NEW n \in Nat, NEW s
  PROVE  s \in BoundedSeq(S, n) <=> s \in Seq(S) /\ Len(s) <= n
<1>1. ASSUME s \in BoundedSeq(S, n)
      PROVE  s \in Seq(S) /\ Len(s) <= n
  <2>1. PICK m \in 0 .. n : s \in [1 .. m -> S]
    BY <1>1 DEF BoundedSeq, SeqOf
  <2>. QED
    BY <2>1
<1>2. ASSUME s \in Seq(S), Len(s) <= n
      PROVE  s \in BoundedSeq(S, n)
  <2>1. Len(s) \in 0 .. n /\ s \in [1 .. Len(s) -> S]
    BY <1>2
  <2>. QED
    BY <2>1 DEF BoundedSeq, SeqOf
<1>. QED
  BY <1>1, <1>2

\* TypeOK without BoundedSeq.
LEMMA Types ==
  TypeOK <=>
    /\ samePort \in BOOLEAN
    /\ lidarSock \in Seq(Datagrams) /\ Len(lidarSock) <= QueueSize
    /\ gpsSock \in Seq({Gps}) /\ Len(gpsSock) <= QueueSize
    /\ samePort => gpsSock = <<>>
    /\ sent \in 0 .. MaxLidar /\ bad \in 0 .. MaxBad /\ pause \in 0 .. GpsPause
    /\ taken \in SUBSET Lidar /\ pushed \in Seq(Lidar \cup {Nothing})
    /\ from \in {"none", "lidar", "gps"}
    /\ from = "lidar" => lidarSock # <<>>
    /\ from = "gps" => gpsSock # <<>>
<1>1. QueueSize \in Nat
  BY SocketAssumption DEF SocketAssumption
<1>2. lidarSock \in BoundedSeq(Datagrams, QueueSize)
        <=> lidarSock \in Seq(Datagrams) /\ Len(lidarSock) <= QueueSize
  BY <1>1, BoundedSeqIs
<1>3. gpsSock \in BoundedSeq({Gps}, QueueSize)
        <=> gpsSock \in Seq({Gps}) /\ Len(gpsSock) <= QueueSize
  BY <1>1, BoundedSeqIs
<1>. QED
  BY <1>2, <1>3, Zenon DEF TypeOK, Datagrams

-----------------------------------------------------------------------------
(* What recvfrom leaves of a socket. *)

\* Min of FiniteSetsExt is what its name says, for infinite sets as well.
LEMMA MinIsLeast ==
  ASSUME NEW S \in SUBSET Nat, S # {}
  PROVE  Min(S) \in S /\ \A i \in S : Min(S) <= i
<1>. DEFINE Less == {pair \in Nat \X Nat : pair[1] < pair[2]}
<1>1. IsWellFoundedOn(Less, Nat)
  BY NatLessThanWellFounded DEF OpToRel
<1>2. PICK least \in S : \A i \in S : <<i, least>> \notin Less
  <2>. HIDE DEF Less
  <2>. QED
    BY <1>1, WFMin, Zenon
<1>3. ASSUME NEW i \in S PROVE least <= i
  <2>1. i \in Nat /\ least \in Nat /\ <<i, least>> \in Nat \X Nat
    OBVIOUS
  <2>2. <<i, least>> \notin Less
    BY <1>2
  <2>. QED
    BY <2>1, <2>2
<1>4. \E x \in S : \A y \in S : x =< y
  BY <1>3
<1>. QED
  BY <1>4 DEF Min

\* Good drops a beginning, all of it bad, and stops at a datagram that is not.
LEMMA GoodIs ==
  ASSUME NEW sock \in Seq(Datagrams)
  PROVE  \E n \in 0 .. Len(sock) :
           /\ Good(sock) = SubSeq(sock, n + 1, Len(sock))
           /\ \A i \in 1 .. n : sock[i] = Bad
           /\ n < Len(sock) => sock[n + 1] # Bad
<1>. DEFINE NotBad == {i \in 1 .. Len(sock) : sock[i] # Bad}
<1>1. ASSUME NotBad # {}
      PROVE  /\ Min(NotBad) \in 1 .. Len(sock) /\ sock[Min(NotBad)] # Bad
             /\ \A i \in 1 .. Min(NotBad) - 1 : sock[i] = Bad
  <2>1. Min(NotBad) \in NotBad /\ \A i \in NotBad : Min(NotBad) <= i
    BY <1>1, MinIsLeast
  <2>2. Min(NotBad) \in 1 .. Len(sock) /\ sock[Min(NotBad)] # Bad
    BY <2>1
  <2>3. ASSUME NEW i \in 1 .. Min(NotBad) - 1, sock[i] # Bad
        PROVE  FALSE
    <3>1. i \in NotBad /\ i < Min(NotBad)
      BY <2>2, <2>3
    <3>. QED
      BY <2>1, <2>2, <3>1
  <2>. QED
    BY <2>2, <2>3
<1>2. Good(sock) = IF NotBad # {} THEN SubSeq(sock, Min(NotBad), Len(sock)) ELSE <<>>
  BY <1>1 DEF Good, SelectInSeq
<1>3. CASE NotBad = {}
  <2>1. SubSeq(sock, Len(sock) + 1, Len(sock)) = <<>>
    OBVIOUS
  <2>2. Len(sock) \in 0 .. Len(sock) /\ \A i \in 1 .. Len(sock) : sock[i] = Bad
    BY <1>3
  <2>. QED
    BY <1>2, <1>3, <2>1, <2>2
<1>4. CASE NotBad # {}
  <2>1. Min(NotBad) - 1 \in 0 .. Len(sock) /\ (Min(NotBad) - 1) + 1 = Min(NotBad)
    BY <1>1, <1>4
  <2>. QED
    BY <1>1, <1>2, <1>4, <2>1
<1>. QED
  BY <1>3, <1>4

-----------------------------------------------------------------------------
(* The order of the lidar's datagrams. *)

LEMMA OrderedIs == PushedInOrder <=> Ordered(pushed \o lidarSock, taken)
  BY DEF PushedInOrder, Ordered

LEMMA Concatenated ==
  ASSUME NEW p \in Seq(Int), NEW s \in Seq(Int)
  PROVE  /\ p \o s \in Seq(Int) /\ Len(p \o s) = Len(p) + Len(s)
         /\ \A i \in 1 .. Len(p \o s) : (p \o s)[i] = IF i <= Len(p) THEN p[i] ELSE s[i - Len(p)]
  BY ConcatProperties

LEMMA ConcatAppend ==
  ASSUME NEW p \in Seq(Int), NEW s \in Seq(Int), NEW d \in Int
  PROVE  p \o Append(s, d) = Append(p \o s, d)
<1>1. Append(s, d) = s \o <<d>> /\ <<d>> \in Seq(Int)
  BY AppendIsConcat
<1>2. Append(p \o s, d) = (p \o s) \o <<d>>
  BY Concatenated, AppendIsConcat
<1>3. p \o (s \o <<d>>) = (p \o s) \o <<d>>
  BY <1>1, ConcatAssociative
<1>. QED
  BY <1>1, <1>2, <1>3

\* Datagrams that are not the lidar's may be thrown away in the middle.
LEMMA OrderedDrop ==
  ASSUME NEW p \in Seq(Int), NEW s \in Seq(Int), NEW n \in 0 .. Len(s), NEW lidars,
         \A i \in 1 .. n : s[i] \notin Lidar, Ordered(p \o s, lidars)
  PROVE  Ordered(p \o SubSeq(s, n + 1, Len(s)), lidars)
<1>. DEFINE rest == SubSeq(s, n + 1, Len(s))
            all == p \o s
            left == p \o rest
<1>1. rest \in Seq(Int) /\ Len(rest) = Len(s) - n /\ \A i \in 1 .. Len(rest) : rest[i] = s[i + n]
  OBVIOUS
<1>2. /\ all \in Seq(Int) /\ Len(all) = Len(p) + Len(s)
      /\ \A i \in 1 .. Len(all) : all[i] = IF i <= Len(p) THEN p[i] ELSE s[i - Len(p)]
  BY Concatenated
<1>3. /\ left \in Seq(Int) /\ Len(left) = Len(p) + Len(rest)
      /\ \A i \in 1 .. Len(left) : left[i] = IF i <= Len(p) THEN p[i] ELSE rest[i - Len(p)]
  <2>. HIDE DEF rest
  <2>. QED
    BY <1>1, Concatenated
<1>. DEFINE From(i) == IF i <= Len(p) THEN i ELSE i + n
<1>. HIDE DEF rest, all, left
<1>4. /\ Len(p) \in Nat /\ Len(s) \in Nat /\ n \in Nat /\ n <= Len(s)
      /\ Len(rest) = Len(s) - n /\ Len(left) = Len(p) + Len(s) - n /\ Len(all) = Len(p) + Len(s)
      /\ Len(left) \in Nat /\ Len(all) \in Nat
      /\ DOMAIN all = 1 .. Len(all) /\ DOMAIN left = 1 .. Len(left)
  BY <1>1, <1>2, <1>3
<1>5. ASSUME NEW i \in 1 .. Len(left)
      PROVE  From(i) \in 1 .. Len(all) /\ left[i] = all[From(i)]
  <2>1. From(i) \in 1 .. Len(all)
    BY <1>4
  <2>2. CASE i <= Len(p)
    BY <1>2, <1>3, <1>4, <2>1, <2>2
  <2>3. CASE ~(i <= Len(p))
    <3>1. i - Len(p) \in 1 .. Len(rest) /\ (i - Len(p)) + n = (i + n) - Len(p)
      BY <1>4, <2>3
    <3>2. left[i] = s[(i + n) - Len(p)]
      BY <1>1, <1>3, <2>3, <3>1
    <3>3. From(i) = i + n /\ ~(i + n <= Len(p))
      BY <1>4, <2>3
    <3>. QED
      BY <1>2, <2>1, <3>2, <3>3
  <2>. QED
    BY <2>2, <2>3
<1>6. ASSUME NEW k \in 1 .. Len(all), all[k] \in Lidar
      PROVE  \E i \in 1 .. Len(left) : left[i] = all[k]
  <2>1. CASE k <= Len(p)
    <3>1. k \in 1 .. Len(left) /\ From(k) = k
      BY <1>4, <2>1
    <3>. QED
      BY <1>5, <3>1
  <2>2. CASE ~(k <= Len(p))
    <3>1. all[k] = s[k - Len(p)]
      BY <1>2, <2>2
    <3>2. k - Len(p) \in 1 .. Len(s)
      BY <1>4, <2>2
    <3>3. ~(k - Len(p) <= n)
      BY <1>4, <1>6, <2>2, <3>1, <3>2
    <3>4. k - n \in 1 .. Len(left) /\ From(k - n) = k
      BY <1>4, <1>2, <2>2, <3>3
    <3>. QED
      BY <1>5, <3>4
  <2>. QED
    BY <2>1, <2>2
<1>7. /\ {d \in Lidar : \E i \in 1 .. Len(all) : all[i] = d} = lidars
      /\ \A i, j \in 1 .. Len(all) : i < j /\ all[j] \in Lidar => all[i] < all[j]
  BY <1>4 DEF Ordered, all
<1>8. {d \in Lidar : \E i \in 1 .. Len(left) : left[i] = d} = lidars
  BY <1>5, <1>6, <1>7
<1>9. ASSUME NEW i \in 1 .. Len(left), NEW j \in 1 .. Len(left), i < j, left[j] \in Lidar
      PROVE  left[i] < left[j]
  <2>1. From(i) < From(j)
    BY <1>4, <1>9
  <2>. QED
    BY <1>5, <1>7, <1>9, <2>1
<1>. QED
  BY <1>4, <1>8, <1>9 DEF Ordered, left, rest

\* One that is not the lidar's may come last.
LEMMA OrderedOther ==
  ASSUME NEW s \in Seq(Int), NEW d \in Int \ Lidar, NEW lidars, Ordered(s, lidars)
  PROVE  Ordered(Append(s, d), lidars)
<1>1. /\ DOMAIN s = 1 .. Len(s) /\ DOMAIN Append(s, d) = 1 .. Len(s) + 1 /\ Len(s) \in Nat
      /\ \A i \in 1 .. Len(s) + 1 : Append(s, d)[i] = IF i <= Len(s) THEN s[i] ELSE d
  OBVIOUS
<1>2. /\ {e \in Lidar : \E i \in 1 .. Len(s) : s[i] = e} = lidars
      /\ \A i, j \in 1 .. Len(s) : i < j /\ s[j] \in Lidar => s[i] < s[j]
  BY <1>1 DEF Ordered
<1>. DEFINE t == Append(s, d)
<1>. HIDE DEF t
<1>3. {e \in Lidar : \E i \in 1 .. Len(s) + 1 : t[i] = e} = lidars
  BY <1>1, <1>2 DEF t
<1>4. \A i, j \in 1 .. Len(s) + 1 : i < j /\ t[j] \in Lidar => t[i] < t[j]
  BY <1>1, <1>2 DEF t
<1>. QED
  BY <1>1, <1>3, <1>4 DEF Ordered, t

\* So may one of the lidar that is later than all before.
LEMMA OrderedNext ==
  ASSUME NEW s \in Seq(Int), NEW d \in Lidar, NEW lidars \in SUBSET Lidar, Ordered(s, lidars),
         MaxLidar \in Nat, \A e \in lidars : e < d, \A i \in 1 .. Len(s) : s[i] \in Lidar \/ s[i] < 1
  PROVE  Ordered(Append(s, d), lidars \cup {d})
<1>1. /\ DOMAIN s = 1 .. Len(s) /\ DOMAIN Append(s, d) = 1 .. Len(s) + 1 /\ Len(s) \in Nat
      /\ \A i \in 1 .. Len(s) + 1 : Append(s, d)[i] = IF i <= Len(s) THEN s[i] ELSE d
  OBVIOUS
<1>2. /\ {e \in Lidar : \E i \in 1 .. Len(s) : s[i] = e} = lidars
      /\ \A i, j \in 1 .. Len(s) : i < j /\ s[j] \in Lidar => s[i] < s[j]
  BY <1>1 DEF Ordered
<1>. DEFINE t == Append(s, d)
<1>. HIDE DEF t
<1>3. {e \in Lidar : \E i \in 1 .. Len(s) + 1 : t[i] = e} = lidars \cup {d}
  <2>1. t[Len(s) + 1] = d /\ Len(s) + 1 \in 1 .. Len(s) + 1
    BY <1>1 DEF t
  <2>2. \A i \in 1 .. Len(s) : t[i] = s[i] /\ i \in 1 .. Len(s) + 1
    BY <1>1 DEF t
  <2>3. \A i \in 1 .. Len(s) + 1 : i \in 1 .. Len(s) \/ i = Len(s) + 1
    BY <1>1
  <2>. QED
    BY <1>2, <2>1, <2>2, <2>3
<1>4. ASSUME NEW i \in 1 .. Len(s) + 1, NEW j \in 1 .. Len(s) + 1, i < j, t[j] \in Lidar
      PROVE  t[i] < t[j]
  <2>1. i \in 1 .. Len(s) /\ t[i] = s[i]
    BY <1>1, <1>4 DEF t
  <2>2. CASE j <= Len(s)
    BY <1>1, <1>2, <1>4, <2>1, <2>2 DEF t
  <2>3. CASE ~(j <= Len(s))
    <3>1. t[j] = d /\ d >= 1
      BY <1>1, <2>3 DEF t, Lidar
    <3>2. CASE s[i] \in Lidar
      BY <1>2, <2>1, <3>1, <3>2
    <3>3. CASE s[i] < 1
      BY <2>1, <3>1, <3>3 DEF Lidar
    <3>. QED
      BY <2>1, <3>2, <3>3
  <2>. QED
    BY <2>2, <2>3
<1>. QED
  BY <1>1, <1>3, <1>4 DEF Ordered, t

-----------------------------------------------------------------------------
(* How often a datagram is in a sequence. *)

LEMMA CountIsNat ==
  ASSUME NEW s \in Seq(Int), NEW d
  PROVE  /\ IsFiniteSet({i \in DOMAIN s : s[i] = d})
         /\ Count(s, d) \in Nat
<1>1. IsFiniteSet(1 .. Len(s)) /\ DOMAIN s = 1 .. Len(s)
  BY FS_Interval
<1>2. {i \in DOMAIN s : s[i] = d} \in SUBSET (1 .. Len(s))
  BY <1>1
<1>3. IsFiniteSet({i \in DOMAIN s : s[i] = d})
  BY <1>1, <1>2, FS_Subset
<1>. QED
  BY <1>3, FS_CardinalityType DEF Count

LEMMA CountAppend ==
  ASSUME NEW s \in Seq(Int), NEW d, NEW e \in Int
  PROVE  Count(Append(s, e), d) = IF e = d THEN Count(s, d) + 1 ELSE Count(s, d)
<1>. DEFINE S == {i \in DOMAIN s : s[i] = d}
            T == {i \in DOMAIN Append(s, e) : Append(s, e)[i] = d}
<1>1. /\ DOMAIN s = 1 .. Len(s) /\ DOMAIN Append(s, e) = 1 .. Len(s) + 1 /\ Len(s) \in Nat
      /\ \A i \in 1 .. Len(s) + 1 : Append(s, e)[i] = IF i <= Len(s) THEN s[i] ELSE e
  OBVIOUS
<1>2. CASE e = d
  <2>1. T = S \cup {Len(s) + 1} /\ Len(s) + 1 \notin S
    BY <1>1, <1>2
  <2>2. IsFiniteSet(S)
    BY CountIsNat
  <2>3. Cardinality(S \cup {Len(s) + 1}) = Cardinality(S) + 1
    <3>. HIDE DEF S
    <3>. QED
      BY <2>1, <2>2, FS_AddElement
  <2>. QED
    BY <1>2, <2>1, <2>3 DEF Count
<1>3. CASE e # d
  <2>1. T = S
    BY <1>1, <1>3
  <2>. QED
    BY <1>3, <2>1 DEF Count
<1>. QED
  BY <1>2, <1>3

LEMMA CountSuffix ==
  ASSUME NEW s \in Seq(Int), NEW n \in 0 .. Len(s), NEW d
  PROVE  Count(SubSeq(s, n + 1, Len(s)), d) <= Count(s, d)
<1>. DEFINE t == SubSeq(s, n + 1, Len(s))
            S == {i \in DOMAIN s : s[i] = d}
            T == {i \in DOMAIN t : t[i] = d}
            shift == [i \in T |-> i + n]
<1>1. /\ t \in Seq(Int) /\ Len(t) = Len(s) - n /\ DOMAIN t = 1 .. Len(t) /\ DOMAIN s = 1 .. Len(s)
      /\ \A i \in 1 .. Len(t) : t[i] = s[i + n]
  OBVIOUS
<1>2. ASSUME NEW i \in T
      PROVE  i \in Nat /\ i + n \in S
  <2>. HIDE DEF t
  <2>1. i \in 1 .. Len(t) /\ s[i + n] = d
    BY <1>1
  <2>2. i + n \in 1 .. Len(s)
    <3>1. Len(t) = Len(s) - n /\ Len(s) \in Nat /\ n \in Nat
      BY <1>1
    <3>. QED
      BY <2>1, <3>1
  <2>. QED
    BY <1>1, <2>1, <2>2
<1>3. shift \in Injection(T, S)
  <2>1. shift \in [T -> S]
    BY <1>2
  <2>2. \A i, j \in T : shift[i] = shift[j] => i = j
    BY <1>2
  <2>. HIDE DEF shift
  <2>. QED
    BY <2>1, <2>2 DEF Injection, IsInjective
<1>4. IsFiniteSet(S)
  BY CountIsNat
<1>5. Cardinality(T) <= Cardinality(S)
  <2>. HIDE DEF S, T, shift
  <2>. QED
    BY <1>3, <1>4, FS_Injection
<1>. QED
  BY <1>5 DEF Count

LEMMA CountSome ==
  ASSUME NEW s \in Seq(Int), NEW k \in 1 .. Len(s)
  PROVE  Count(s, s[k]) >= 1
<1>. DEFINE S == {i \in DOMAIN s : s[i] = s[k]}
<1>1. k \in S
  OBVIOUS
<1>2. IsFiniteSet(S) /\ Cardinality(S) \in Nat
  BY CountIsNat DEF Count
<1>3. Cardinality(S) # 0
  <2>. HIDE DEF S
  <2>. QED
    BY <1>1, <1>2, FS_EmptySet
<1>. QED
  BY <1>2, <1>3 DEF Count

LEMMA CountNone ==
  ASSUME NEW d
  PROVE  Count(<<>>, d) = 0
<1>1. {i \in DOMAIN <<>> : <<>>[i] = d} = {}
  OBVIOUS
<1>. QED
  BY <1>1, FS_EmptySet DEF Count

-----------------------------------------------------------------------------
(* The steps. *)

\* The types, for a step's use.
LEMMA Known ==
  ASSUME TypeOK
  PROVE  /\ lidarSock \in Seq(Datagrams) /\ lidarSock \in Seq(Int) /\ gpsSock \in Seq({Gps})
         /\ pushed \in Seq(Lidar \cup {Nothing}) /\ pushed \in Seq(Int)
         /\ sent \in Nat /\ bad \in Nat /\ taken \in SUBSET Lidar
         /\ QueueSize \in Nat /\ MaxLidar \in Nat /\ MaxBad \in Nat /\ GpsPause \in Nat
<1>1. QueueSize \in Nat /\ MaxLidar \in Nat /\ MaxBad \in Nat /\ GpsPause \in Nat
  BY SocketAssumption, TrafficAssumption DEF SocketAssumption, TrafficAssumption
<1>2. /\ lidarSock \in Seq(Datagrams) /\ gpsSock \in Seq({Gps})
      /\ pushed \in Seq(Lidar \cup {Nothing}) /\ taken \in SUBSET Lidar
      /\ sent \in 0 .. MaxLidar /\ bad \in 0 .. MaxBad
  BY Types
<1>3. lidarSock \in Seq(Int) /\ pushed \in Seq(Int)
  BY <1>2 DEF Datagrams, Lidar, Gps, Bad, Nothing
<1>. QED
  BY <1>1, <1>2, <1>3

LEMMA InitHolds == Init => IInv
<1>. SUFFICES ASSUME Init PROVE IInv
  OBVIOUS
<1>1. samePort \in BOOLEAN /\ lidarSock = <<>> /\ gpsSock = <<>> /\ pushed = <<>> /\ taken = {}
  BY Zenon DEF Init
<1>2. sent = 0 /\ bad = 0 /\ pause = 0 /\ from = "none"
  BY DEF Init
<1>3. QueueSize \in Nat /\ MaxLidar \in Nat /\ MaxBad \in Nat /\ GpsPause \in Nat
  BY SocketAssumption, TrafficAssumption DEF SocketAssumption, TrafficAssumption
<1>4. TypeOK
  <2>1. /\ lidarSock \in Seq(Datagrams) /\ Len(lidarSock) <= QueueSize
        /\ gpsSock \in Seq({Gps}) /\ Len(gpsSock) <= QueueSize
        /\ pushed \in Seq(Lidar \cup {Nothing}) /\ taken \in SUBSET Lidar
    BY <1>1, <1>3
  <2>2. /\ sent \in 0 .. MaxLidar /\ bad \in 0 .. MaxBad /\ pause \in 0 .. GpsPause
        /\ from \in {"none", "lidar", "gps"} /\ from # "lidar" /\ from # "gps"
    BY <1>2, <1>3
  <2>. QED
    BY <1>1, <2>1, <2>2, Types, Zenon
<1>5. Ordered(pushed \o lidarSock, taken)
  <2>1. pushed \o lidarSock = <<>>
    BY <1>1
  <2>2. DOMAIN <<>> = {}
    OBVIOUS
  <2>. QED
    BY <1>1, <2>1, <2>2 DEF Ordered
<1>6. TakenSent
  BY <1>1 DEF TakenSent
<1>7. BadAccounted
  <2>1. Count(pushed, Nothing) = 0 /\ Count(lidarSock, Bad) = 0
    BY <1>1, CountNone
  <2>. QED
    BY <1>2, <2>1 DEF BadAccounted
<1>. QED
  BY <1>4, <1>5, <1>6, <1>7, OrderedIs DEF IInv

\* A datagram that a socket takes in, and that is not the lidar's.
LEMMA OtherArrives ==
  ASSUME IInv, NEW d \in {Gps, Bad}, lidarSock' = Append(lidarSock, d),
         UNCHANGED <<pushed, taken>>
  PROVE  PushedInOrder'
<1>1. lidarSock \in Seq(Int) /\ pushed \in Seq(Int) /\ d \in Int \ Lidar
  BY Known DEF IInv, Gps, Bad, Lidar
<1>2. Append(pushed \o lidarSock, d) = pushed \o Append(lidarSock, d)
  BY <1>1, ConcatAppend
<1>3. Ordered(Append(pushed \o lidarSock, d), taken)
  BY <1>1, OrderedIs, OrderedOther, Concatenated DEF IInv
<1>. QED
  BY <1>2, <1>3 DEF PushedInOrder, Ordered

LEMMA SendLidarStep ==
  ASSUME IInv, SendLidar
  PROVE  IInv'
<1>. USE DEF SendLidar
<1>1. /\ sent + 1 \in Lidar /\ sent' = sent + 1 /\ sent' \in 0 .. MaxLidar
      /\ sent + 1 \in Datagrams /\ sent + 1 # Bad /\ sent \in Nat
  <2>1. sent \in Nat /\ sent < MaxLidar /\ sent' = sent + 1 /\ MaxLidar \in Nat
    BY Known DEF IInv
  <2>. QED
    BY <2>1 DEF Lidar, Bad, Datagrams
<1>2. /\ lidarSock \in Seq(Datagrams) /\ lidarSock \in Seq(Int) /\ Len(lidarSock) <= QueueSize
      /\ pushed \in Seq(Lidar \cup {Nothing}) /\ pushed \in Seq(Int) /\ taken \in SUBSET Lidar
      /\ QueueSize \in Nat /\ MaxLidar \in Nat
  BY Known, Types DEF IInv
<1>3. CASE ~(Len(lidarSock) < QueueSize)
  <2>1. UNCHANGED <<samePort, lidarSock, gpsSock, bad, pause, taken, from, pushed>>
    BY <1>3
  <2>2. TypeOK'
    BY <1>1, <2>1 DEF IInv, TypeOK
  <2>3. PushedInOrder' /\ BadAccounted'
    BY <2>1 DEF IInv, PushedInOrder, BadAccounted, Count
  <2>4. TakenSent'
    BY <1>1, <1>2, <2>1 DEF IInv, TakenSent, Lidar
  <2>. QED
    BY <2>2, <2>3, <2>4 DEF IInv
<1>4. CASE Len(lidarSock) < QueueSize
  <2>1. /\ lidarSock' = Append(lidarSock, sent + 1) /\ taken' = taken \cup {sent + 1}
        /\ UNCHANGED <<samePort, gpsSock, bad, pause, from, pushed>>
    BY <1>4
  <2>2. /\ lidarSock' \in Seq(Datagrams) /\ Len(lidarSock') <= QueueSize /\ lidarSock' # <<>>
        /\ taken' \in SUBSET Lidar
    BY <1>1, <1>2, <1>4, <2>1
  <2>3. TypeOK'
    <3>1. lidarSock' \in BoundedSeq(Datagrams, QueueSize)
      BY <1>2, <2>2, BoundedSeqIs
    <3>. QED
      BY <1>1, <2>1, <2>2, <3>1 DEF IInv, TypeOK, Datagrams
  <2>4. PushedInOrder'
    <3>1. \A i \in 1 .. Len(pushed \o lidarSock) :
            (pushed \o lidarSock)[i] \in Lidar \/ (pushed \o lidarSock)[i] < 1
      <4>1. \A i \in 1 .. Len(pushed) : pushed[i] \in Lidar \/ pushed[i] < 1
        BY <1>2 DEF Nothing
      <4>2. \A i \in 1 .. Len(lidarSock) : lidarSock[i] \in Lidar \/ lidarSock[i] < 1
        <5>1. \A d \in Datagrams : d \in Lidar \/ d < 1
          BY DEF Datagrams, Gps, Bad
        <5>. QED
          BY <1>2, <5>1
      <4>3. /\ Len(pushed \o lidarSock) = Len(pushed) + Len(lidarSock)
            /\ \A i \in 1 .. Len(pushed \o lidarSock) :
                 (pushed \o lidarSock)[i] = IF i <= Len(pushed) THEN pushed[i]
                                            ELSE lidarSock[i - Len(pushed)]
        BY <1>2, Concatenated
      <4>. SUFFICES ASSUME NEW i \in 1 .. Len(pushed \o lidarSock)
                    PROVE  (pushed \o lidarSock)[i] \in Lidar \/ (pushed \o lidarSock)[i] < 1
        OBVIOUS
      <4>4. CASE i <= Len(pushed)
        BY <1>2, <4>1, <4>3, <4>4
      <4>5. CASE ~(i <= Len(pushed))
        <5>1. i - Len(pushed) \in 1 .. Len(lidarSock)
          BY <1>2, <4>3, <4>5
        <5>. QED
          BY <4>2, <4>3, <4>5, <5>1
      <4>. QED
        BY <4>4, <4>5
    <3>2. \A e \in taken : e < sent + 1
      BY <1>1, <1>2 DEF IInv, TakenSent, Lidar
    <3>3. Ordered(Append(pushed \o lidarSock, sent + 1), taken \cup {sent + 1})
      BY <1>1, <1>2, <3>1, <3>2, OrderedIs, OrderedNext, Concatenated DEF IInv
    <3>4. Append(pushed \o lidarSock, sent + 1) = pushed \o Append(lidarSock, sent + 1)
      <4>1. sent + 1 \in Int
        BY <1>1
      <4>. QED
        BY <1>2, <4>1, ConcatAppend
    <3>. QED
      BY <2>1, <3>3, <3>4 DEF PushedInOrder, Ordered
  <2>5. TakenSent'
    BY <1>1, <1>2, <2>1 DEF IInv, TakenSent, Lidar
  <2>6. BadAccounted'
    <3>1. Count(Append(lidarSock, sent + 1), Bad) = Count(lidarSock, Bad)
      BY <1>1, <1>2, CountAppend DEF Lidar
    <3>. QED
      BY <2>1, <3>1 DEF IInv, BadAccounted, Count
  <2>. QED
    BY <2>3, <2>4, <2>5, <2>6 DEF IInv
<1>. QED
  BY <1>3, <1>4

LEMMA SendBadStep ==
  ASSUME IInv, SendBad
  PROVE  IInv'
<1>. USE DEF SendBad
<1>1. /\ lidarSock \in Seq(Datagrams) /\ lidarSock \in Seq(Int) /\ Len(lidarSock) < QueueSize
      /\ pushed \in Seq(Int) /\ QueueSize \in Nat /\ bad \in Nat /\ MaxBad \in Nat
      /\ lidarSock' = Append(lidarSock, Bad) /\ bad' = bad + 1 /\ bad < MaxBad
      /\ UNCHANGED <<samePort, gpsSock, sent, pause, taken, from, pushed>>
  BY Known DEF IInv
<1>2. TypeOK'
  <2>1. lidarSock' \in Seq(Datagrams) /\ Len(lidarSock') <= QueueSize /\ lidarSock' # <<>>
    BY <1>1 DEF Datagrams
  <2>2. lidarSock' \in BoundedSeq(Datagrams, QueueSize)
    BY <1>1, <2>1, BoundedSeqIs
  <2>3. bad' \in 0 .. MaxBad
    BY <1>1
  <2>. QED
    BY <1>1, <2>1, <2>2, <2>3 DEF IInv, TypeOK, Datagrams
<1>3. PushedInOrder'
  BY <1>1, OtherArrives
<1>4. TakenSent'
  BY <1>1 DEF IInv, TakenSent
<1>5. BadAccounted'
  <2>1. Count(Append(lidarSock, Bad), Bad) = Count(lidarSock, Bad) + 1
    BY <1>1, CountAppend DEF Bad
  <2>2. Count(lidarSock, Bad) \in Nat /\ Count(pushed, Nothing) \in Nat
    BY <1>1, CountIsNat
  <2>3. Count(lidarSock, Bad)' = Count(lidarSock', Bad) /\ Count(pushed, Nothing)' = Count(pushed, Nothing)
    BY <1>1 DEF Count
  <2>. QED
    BY <1>1, <2>1, <2>2, <2>3 DEF IInv, BadAccounted
<1>. QED
  BY <1>2, <1>3, <1>4, <1>5 DEF IInv

LEMMA SendGpsStep ==
  ASSUME IInv, SendGps
  PROVE  IInv'
<1>1. /\ lidarSock \in Seq(Datagrams) /\ lidarSock \in Seq(Int) /\ gpsSock \in Seq({Gps})
      /\ pushed \in Seq(Int) /\ QueueSize \in Nat /\ GpsPause \in Nat
      /\ Len(lidarSock) <= QueueSize /\ Len(gpsSock) <= QueueSize
  BY Known, Types DEF IInv
<1>2. pause' = GpsPause /\ UNCHANGED <<samePort, sent, bad, taken, from, pushed>>
  BY DEF SendGps
<1>3. TakenSent'
  BY <1>2 DEF IInv, TakenSent
<1>4. CASE UNCHANGED lidarSock /\ (gpsSock' = gpsSock
             \/ (~samePort /\ Len(gpsSock) < QueueSize /\ gpsSock' = Append(gpsSock, Gps)))
  <2>1. gpsSock' \in Seq({Gps}) /\ Len(gpsSock') <= QueueSize /\ (gpsSock # <<>> => gpsSock' # <<>>)
    <3>1. /\ Append(gpsSock, Gps) \in Seq({Gps}) /\ Append(gpsSock, Gps) # <<>>
          /\ Len(Append(gpsSock, Gps)) = Len(gpsSock) + 1 /\ Len(gpsSock) \in Nat
      BY <1>1
    <3>2. CASE gpsSock' = gpsSock
      BY <1>1, <3>2
    <3>3. CASE Len(gpsSock) < QueueSize /\ gpsSock' = Append(gpsSock, Gps)
      BY <1>1, <3>1, <3>3
    <3>. QED
      BY <1>4, <3>2, <3>3
  <2>2. gpsSock' \in BoundedSeq({Gps}, QueueSize)
    BY <1>1, <2>1, BoundedSeqIs
  <2>3. TypeOK'
    BY <1>1, <1>2, <1>4, <2>1, <2>2 DEF IInv, TypeOK
  <2>4. PushedInOrder' /\ BadAccounted'
    BY <1>2, <1>4 DEF IInv, PushedInOrder, BadAccounted, Count
  <2>. QED
    BY <1>3, <2>3, <2>4 DEF IInv
<1>5. CASE UNCHANGED gpsSock /\ Len(lidarSock) < QueueSize /\ lidarSock' = Append(lidarSock, Gps)
  <2>1. lidarSock' \in Seq(Datagrams) /\ Len(lidarSock') <= QueueSize /\ lidarSock' # <<>>
    BY <1>1, <1>5 DEF Datagrams
  <2>2. lidarSock' \in BoundedSeq(Datagrams, QueueSize)
    BY <1>1, <2>1, BoundedSeqIs
  <2>3. TypeOK'
    <3>1. from \in {"none", "lidar", "gps"} /\ (from = "gps" => gpsSock # <<>>)
      BY Types DEF IInv
    <3>2. /\ samePort \in BOOLEAN /\ gpsSock \in BoundedSeq({Gps}, QueueSize)
          /\ (samePort => gpsSock = <<>>)
      BY Zenon DEF IInv, TypeOK
    <3>3. /\ sent \in 0 .. MaxLidar /\ bad \in 0 .. MaxBad /\ taken \in SUBSET Lidar
          /\ pushed \in Seq(Lidar \cup {Nothing}) /\ GpsPause \in 0 .. GpsPause
      BY <1>1, Types DEF IInv
    <3>. QED
      BY <1>2, <1>5, <2>1, <2>2, <3>1, <3>2, <3>3 DEF TypeOK, Datagrams
  <2>4. PushedInOrder'
    BY <1>2, <1>5, OtherArrives
  <2>5. BadAccounted'
    <3>1. Count(Append(lidarSock, Gps), Bad) = Count(lidarSock, Bad)
      BY <1>1, CountAppend DEF Bad, Gps
    <3>. QED
      BY <1>2, <1>5, <3>1 DEF IInv, BadAccounted, Count
  <2>. QED
    BY <1>3, <2>3, <2>4, <2>5 DEF IInv
<1>6. \/ UNCHANGED lidarSock /\ (gpsSock' = gpsSock
             \/ (~samePort /\ Len(gpsSock) < QueueSize /\ gpsSock' = Append(gpsSock, Gps)))
      \/ UNCHANGED gpsSock /\ Len(lidarSock) < QueueSize /\ lidarSock' = Append(lidarSock, Gps)
  BY DEF SendGps
<1>. QED
  BY <1>4, <1>5, <1>6

LEMMA PollStep ==
  ASSUME IInv, Poll
  PROVE  IInv'
<1>1. UNCHANGED <<samePort, lidarSock, gpsSock, sent, bad, pause, taken, pushed>>
  BY DEF Poll, netVars
<1>2. /\ from' \in {"lidar", "gps"} /\ (from' = "lidar" => lidarSock # <<>>)
      /\ (from' = "gps" => gpsSock # <<>>)
  BY DEF Poll
<1>3. TypeOK'
  BY <1>1, <1>2 DEF IInv, TypeOK
<1>4. PushedInOrder' /\ TakenSent' /\ BadAccounted'
  BY <1>1 DEF IInv, PushedInOrder, TakenSent, BadAccounted, Count
<1>. QED
  BY <1>3, <1>4 DEF IInv

\* What a read leaves of the lidar's socket and hands on.
LEMMA Reading ==
  ASSUME NEW sock \in Seq(Datagrams), sock # <<>>
  PROVE  \/ /\ Good(sock) = <<>> /\ Received(sock) = Nothing
            /\ \A i \in 1 .. Len(sock) : sock[i] = Bad
         \/ \E n \in 0 .. Len(sock) - 1 :
              /\ \A i \in 1 .. n : sock[i] = Bad
              /\ Good(sock) = SubSeq(sock, n + 1, Len(sock)) /\ Good(sock) # <<>>
              /\ Received(sock) = sock[n + 1] /\ sock[n + 1] \in Lidar \cup {Gps}
              /\ Tail(Good(sock)) = SubSeq(sock, n + 2, Len(sock))
<1>1. PICK n \in 0 .. Len(sock) : /\ Good(sock) = SubSeq(sock, n + 1, Len(sock))
                                  /\ \A i \in 1 .. n : sock[i] = Bad
                                  /\ n < Len(sock) => sock[n + 1] # Bad
  BY GoodIs
<1>2. CASE n = Len(sock)
  <2>1. Good(sock) = <<>>
    BY <1>1, <1>2
  <2>. QED
    BY <1>1, <1>2, <2>1 DEF Received
<1>3. CASE n # Len(sock)
  <2>1. n \in 0 .. Len(sock) - 1 /\ n < Len(sock) /\ n + 1 \in 1 .. Len(sock)
    BY <1>1, <1>3
  <2>2. sock[n + 1] \in Lidar \cup {Gps}
    BY <1>1, <2>1 DEF Datagrams
  <2>3. LET rest == SubSeq(sock, n + 1, Len(sock))
        IN  /\ rest # <<>> /\ Head(rest) = sock[n + 1]
            /\ Tail(rest) = SubSeq(sock, n + 2, Len(sock))
    <3>1. Len(sock) \in n + 1 .. Len(sock) /\ (n + 1) + 1 = n + 2
      BY <2>1
    <3>2. /\ Head(SubSeq(sock, n + 1, Len(sock))) = sock[n + 1]
          /\ Tail(SubSeq(sock, n + 1, Len(sock))) = SubSeq(sock, (n + 1) + 1, Len(sock))
      BY <2>1, <3>1, HeadTailOfSubSeq
    <3>3. SubSeq(sock, n + 1, Len(sock)) # <<>>
      <4>1. Len(SubSeq(sock, n + 1, Len(sock))) = Len(sock) - n
        BY <2>1
      <4>2. Len(sock) - n # 0
        BY <2>1
      <4>. QED
        BY <4>1, <4>2
    <3>. QED
      BY <3>1, <3>2, <3>3
  <2>. QED
    BY <1>1, <2>1, <2>2, <2>3 DEF Received
<1>. QED
  BY <1>2, <1>3

\* Handing on the first of a sequence moves it from one to the other.
LEMMA HeadMoves ==
  ASSUME NEW p \in Seq(Int), NEW s \in Seq(Int), s # <<>>
  PROVE  Append(p, Head(s)) \o Tail(s) = p \o s
<1>1. s = <<Head(s)>> \o Tail(s) /\ <<Head(s)>> \in Seq(Int) /\ Tail(s) \in Seq(Int)
  BY HeadTailProperties, ConcatProperties
<1>2. Append(p, Head(s)) = p \o <<Head(s)>>
  BY AppendIsConcat
<1>3. (p \o <<Head(s)>>) \o Tail(s) = p \o (<<Head(s)>> \o Tail(s))
  BY <1>1, ConcatAssociative
<1>. QED
  BY <1>1, <1>2, <1>3

LEMMA ReceiveGps ==
  ASSUME IInv, Receive, from = "gps"
  PROVE  /\ pushed' = pushed /\ lidarSock' = lidarSock
         /\ gpsSock' \in Seq({Gps}) /\ Len(gpsSock') <= QueueSize /\ (samePort => FALSE)
<1>1. gpsSock \in Seq({Gps}) /\ gpsSock # <<>> /\ Len(gpsSock) <= QueueSize /\ QueueSize \in Nat
  BY Known, Types DEF IInv
<1>2. gpsSock[1] = Gps /\ Len(gpsSock) \in Nat /\ Len(gpsSock) >= 1
  BY <1>1
<1>3. gpsSock \in Seq(Datagrams) /\ Gps # Bad
  BY <1>1 DEF Datagrams, Gps, Bad
<1>4. Received(gpsSock) = Gps
  <2>1. ~ \A i \in 1 .. Len(gpsSock) : gpsSock[i] = Bad
    BY <1>2, <1>3
  <2>2. PICK n \in 0 .. Len(gpsSock) - 1 : Received(gpsSock) = gpsSock[n + 1]
    BY <1>1, <1>3, <2>1, Reading
  <2>3. n + 1 \in 1 .. Len(gpsSock)
    BY <1>2
  <2>. QED
    BY <1>1, <2>2, <2>3
<1>5. pushed' = pushed /\ lidarSock' = lidarSock /\ gpsSock' = Tail(gpsSock)
  BY <1>4 DEF Receive, Dispatch
<1>6. Tail(gpsSock) \in Seq({Gps}) /\ Len(Tail(gpsSock)) = Len(gpsSock) - 1
  BY <1>1
<1>7. ~samePort
  BY <1>1, Types DEF IInv
<1>. QED
  BY <1>1, <1>2, <1>5, <1>6, <1>7

LEMMA ReceiveLidar ==
  ASSUME IInv, Receive, from = "lidar"
  PROVE  /\ gpsSock' = gpsSock
         /\ lidarSock' \in Seq(Datagrams) /\ Len(lidarSock') <= QueueSize
         /\ pushed' \in Seq(Lidar \cup {Nothing})
         /\ Ordered(pushed' \o lidarSock', taken)
         /\ Count(pushed', Nothing) + Count(lidarSock', Bad) <= bad
<1>1. /\ lidarSock \in Seq(Datagrams) /\ lidarSock \in Seq(Int) /\ lidarSock # <<>>
      /\ Len(lidarSock) <= QueueSize /\ QueueSize \in Nat
      /\ pushed \in Seq(Lidar \cup {Nothing}) /\ pushed \in Seq(Int) /\ bad \in Nat
  BY Known, Types DEF IInv
<1>2. /\ lidarSock' = IF Good(lidarSock) = <<>> THEN <<>> ELSE Tail(Good(lidarSock))
      /\ pushed' = IF Received(lidarSock) = Gps THEN pushed ELSE Append(pushed, Received(lidarSock))
      /\ gpsSock' = gpsSock
  BY DEF Receive, Dispatch
<1>3. /\ Count(pushed, Nothing) \in Nat /\ Count(lidarSock, Bad) \in Nat
      /\ Count(pushed, Nothing) + Count(lidarSock, Bad) <= bad
      /\ Ordered(pushed \o lidarSock, taken)
  BY <1>1, CountIsNat, OrderedIs DEF IInv, BadAccounted
<1>4. CASE /\ Good(lidarSock) = <<>> /\ Received(lidarSock) = Nothing
           /\ \A i \in 1 .. Len(lidarSock) : lidarSock[i] = Bad
  <2>1. lidarSock' = <<>> /\ pushed' = Append(pushed, Nothing)
    BY <1>2, <1>4 DEF Nothing, Gps
  <2>2. lidarSock' \in Seq(Datagrams) /\ Len(lidarSock') <= QueueSize
    BY <1>1, <2>1
  <2>3. pushed' \in Seq(Lidar \cup {Nothing}) /\ Nothing \in Int \ Lidar
    BY <1>1, <2>1 DEF Nothing, Lidar
  <2>4. Ordered(pushed' \o lidarSock', taken)
    <3>1. SubSeq(lidarSock, Len(lidarSock) + 1, Len(lidarSock)) = <<>> /\ Len(lidarSock) \in 0 .. Len(lidarSock)
      BY <1>1
    <3>2. \A i \in 1 .. Len(lidarSock) : lidarSock[i] \notin Lidar
      BY <1>4 DEF Bad, Lidar
    <3>3. Ordered(pushed \o <<>>, taken)
      BY <1>1, <1>3, <3>1, <3>2, OrderedDrop
    <3>4. pushed \o <<>> = pushed /\ Append(pushed, Nothing) \o <<>> = Append(pushed, Nothing)
      BY <1>1, <2>3
    <3>5. Ordered(Append(pushed, Nothing), taken)
      BY <1>1, <2>3, <3>3, <3>4, OrderedOther
    <3>. QED
      BY <2>1, <3>4, <3>5
  <2>5. Count(pushed', Nothing) = Count(pushed, Nothing) + 1
    BY <1>1, <2>1, <2>3, CountAppend
  <2>6. Count(lidarSock, Bad) >= 1
    <3>1. 1 \in 1 .. Len(lidarSock) /\ lidarSock[1] = Bad
      BY <1>1, <1>4
    <3>. QED
      BY <1>1, <3>1, CountSome
  <2>7. Count(lidarSock', Bad) = 0
    BY <2>1, CountNone
  <2>. QED
    BY <1>2, <1>3, <1>1, <2>2, <2>3, <2>4, <2>5, <2>6, <2>7
<1>5. ASSUME NEW n \in 0 .. Len(lidarSock) - 1,
             \A i \in 1 .. n : lidarSock[i] = Bad,
             Good(lidarSock) = SubSeq(lidarSock, n + 1, Len(lidarSock)),
             Good(lidarSock) # <<>>,
             Received(lidarSock) = lidarSock[n + 1], lidarSock[n + 1] \in Lidar \cup {Gps},
             Tail(Good(lidarSock)) = SubSeq(lidarSock, n + 2, Len(lidarSock))
      PROVE  /\ lidarSock' \in Seq(Datagrams) /\ Len(lidarSock') <= QueueSize
             /\ pushed' \in Seq(Lidar \cup {Nothing})
             /\ Ordered(pushed' \o lidarSock', taken)
             /\ Count(pushed', Nothing) + Count(lidarSock', Bad) <= bad
  <2>. DEFINE d == lidarSock[n + 1]
  <2>1. /\ n \in 0 .. Len(lidarSock) /\ n + 1 \in 0 .. Len(lidarSock) /\ (n + 1) + 1 = n + 2
        /\ Len(lidarSock) \in Nat
    BY <1>1
  <2>2. /\ lidarSock' = SubSeq(lidarSock, n + 2, Len(lidarSock))
        /\ pushed' = IF d = Gps THEN pushed ELSE Append(pushed, d)
    BY <1>2, <1>5
  <2>3. lidarSock' \in Seq(Datagrams) /\ Len(lidarSock') = Len(lidarSock) - (n + 1)
    BY <1>1, <2>1, <2>2
  <2>4. \A i \in 1 .. n : lidarSock[i] \notin Lidar
    BY <1>5 DEF Bad, Lidar
  <2>5. Count(lidarSock', Bad) <= Count(lidarSock, Bad) /\ Count(lidarSock', Bad) \in Nat
    <3>1. lidarSock' \in Seq(Int)
      BY <2>3 DEF Datagrams, Lidar, Gps, Bad
    <3>2. Count(SubSeq(lidarSock, (n + 1) + 1, Len(lidarSock)), Bad) <= Count(lidarSock, Bad)
      BY <1>1, <2>1, CountSuffix
    <3>. QED
      BY <2>1, <2>2, <3>1, <3>2, CountIsNat
  <2>6. Len(lidarSock') <= QueueSize
    BY <1>1, <2>1, <2>3
  <2>7. Count(pushed', Nothing) = Count(pushed, Nothing)
          => Count(pushed', Nothing) + Count(lidarSock', Bad) <= bad
    BY <1>1, <1>3, <2>5
  <2>8. CASE d = Gps
    <3>1. \A i \in 1 .. n + 1 : lidarSock[i] \notin Lidar
      BY <2>1, <2>4, <2>8 DEF Gps, Lidar
    <3>2. Ordered(pushed \o SubSeq(lidarSock, (n + 1) + 1, Len(lidarSock)), taken)
      BY <1>1, <1>3, <2>1, <3>1, OrderedDrop
    <3>3. pushed' = pushed
      BY <2>2, <2>8
    <3>. QED
      BY <1>1, <2>1, <2>2, <2>3, <2>6, <2>7, <3>2, <3>3
  <2>9. CASE d # Gps
    <3>1. d \in Lidar /\ d \in Int /\ d # Nothing
      BY <1>5, <2>9 DEF Lidar, Nothing
    <3>2. pushed' = Append(pushed, d) /\ pushed' \in Seq(Lidar \cup {Nothing})
      BY <1>1, <2>2, <2>9, <3>1
    <3>3. Ordered(pushed \o Good(lidarSock), taken)
      BY <1>1, <1>3, <1>5, <2>1, <2>4, OrderedDrop
    <3>4. Good(lidarSock) \in Seq(Int) /\ Head(Good(lidarSock)) = d
      <4>1. SubSeq(lidarSock, n + 1, Len(lidarSock)) \in Seq(Int)
        BY <1>1, <2>1
      <4>2. Head(Good(lidarSock)) = Received(lidarSock)
        BY <1>5 DEF Received
      <4>. QED
        BY <1>5, <4>1, <4>2
    <3>5. pushed' \o lidarSock' = pushed \o Good(lidarSock)
      <4>1. lidarSock' = Tail(Good(lidarSock))
        BY <1>2, <1>5
      <4>2. Append(pushed, Head(Good(lidarSock))) \o Tail(Good(lidarSock)) = pushed \o Good(lidarSock)
        BY <1>1, <1>5, <3>4, HeadMoves
      <4>. QED
        BY <3>2, <3>4, <4>1, <4>2
    <3>6. Count(pushed', Nothing) = Count(pushed, Nothing)
      BY <1>1, <3>1, <3>2, CountAppend
    <3>. QED
      BY <2>3, <2>6, <2>7, <3>2, <3>3, <3>5, <3>6
  <2>. QED
    BY <2>8, <2>9
<1>. QED
  BY <1>1, <1>2, <1>4, <1>5, Reading

LEMMA ReceiveStep ==
  ASSUME IInv, Receive
  PROVE  IInv'
<1>1. /\ from' = "none" /\ pause' = (IF pause > 0 THEN pause - 1 ELSE 0)
      /\ UNCHANGED <<samePort, sent, bad, taken>> /\ from \in {"lidar", "gps"}
  BY Types DEF Receive, IInv
<1>2. /\ pause \in 0 .. GpsPause /\ GpsPause \in Nat /\ QueueSize \in Nat
      /\ lidarSock \in Seq(Datagrams) /\ Len(lidarSock) <= QueueSize
      /\ gpsSock \in Seq({Gps}) /\ Len(gpsSock) <= QueueSize
      /\ pushed \in Seq(Lidar \cup {Nothing}) /\ (samePort => gpsSock = <<>>)
  BY Known, Types DEF IInv
<1>3. pause' \in 0 .. GpsPause
  BY <1>1, <1>2
<1>4. /\ lidarSock' \in Seq(Datagrams) /\ Len(lidarSock') <= QueueSize
      /\ gpsSock' \in Seq({Gps}) /\ Len(gpsSock') <= QueueSize
      /\ pushed' \in Seq(Lidar \cup {Nothing}) /\ (samePort => gpsSock' = <<>>)
      /\ PushedInOrder' /\ BadAccounted'
  <2>1. CASE from = "gps"
    <3>1. /\ pushed' = pushed /\ lidarSock' = lidarSock
          /\ gpsSock' \in Seq({Gps}) /\ Len(gpsSock') <= QueueSize /\ ~samePort
      BY <2>1, ReceiveGps
    <3>2. PushedInOrder' /\ BadAccounted'
      BY <1>1, <3>1 DEF IInv, PushedInOrder, BadAccounted, Count
    <3>. QED
      BY <1>2, <3>1, <3>2
  <2>2. CASE from = "lidar"
    <3>1. /\ gpsSock' = gpsSock
          /\ lidarSock' \in Seq(Datagrams) /\ Len(lidarSock') <= QueueSize
          /\ pushed' \in Seq(Lidar \cup {Nothing})
          /\ Ordered(pushed' \o lidarSock', taken)
          /\ Count(pushed', Nothing) + Count(lidarSock', Bad) <= bad
      BY <2>2, ReceiveLidar
    <3>2. PushedInOrder'
      BY <1>1, <3>1 DEF PushedInOrder, Ordered
    <3>3. BadAccounted'
      BY <1>1, <3>1 DEF BadAccounted, Count
    <3>. QED
      BY <1>2, <3>1, <3>2, <3>3
  <2>. QED
    BY <1>1, <2>1, <2>2
<1>5. TypeOK'
  <2>1. lidarSock' \in BoundedSeq(Datagrams, QueueSize)
    BY <1>2, <1>4, BoundedSeqIs
  <2>2. gpsSock' \in BoundedSeq({Gps}, QueueSize)
    BY <1>2, <1>4, BoundedSeqIs
  <2>. QED
    BY <1>1, <1>3, <1>4, <2>1, <2>2 DEF IInv, TypeOK, Datagrams
<1>6. TakenSent'
  BY <1>1 DEF IInv, TakenSent
<1>. QED
  BY <1>4, <1>5, <1>6 DEF IInv

THEOREM Invariance == Spec => []IInv
<1>1. IInv /\ [Next]_vars => IInv'
  <2>. SUFFICES ASSUME IInv, [Next]_vars PROVE IInv'
    OBVIOUS
  <2>1. CASE UNCHANGED vars
    BY <2>1 DEF vars, IInv, TypeOK, PushedInOrder, TakenSent, BadAccounted, Count
  <2>. QED
    BY <2>1, SendLidarStep, SendBadStep, SendGpsStep, PollStep, ReceiveStep DEF Next
<1>. QED
  BY <1>1, InitHolds, PTL DEF Spec

\* Whatever the network sends, the sockets stay within what they hold and poll
\* only reports a socket that has a datagram.
THEOREM TypeCorrect == Spec => []TypeOK
<1>1. IInv => TypeOK
  BY DEF IInv
<1>. QED
  BY <1>1, Invariance, PTL

\* RecvTask hands the ring every lidar datagram its socket took, each once and in
\* the order sent, on one port or two and whatever the GPS does.
THEOREM PushedInOrderHolds == Spec => []PushedInOrder
<1>1. IInv => PushedInOrder
  BY DEF IInv
<1>. QED
  BY <1>1, Invariance, PTL

\* RecvTask hands the ring at most one failed read for each datagram whose checksum
\* was wrong, and no GPS datagram.
THEOREM GarbageOnlyFromBadHolds == Spec => []GarbageOnlyFromBad
<1>1. IInv => GarbageOnlyFromBad
  <2>. SUFFICES ASSUME IInv PROVE GarbageOnlyFromBad
    OBVIOUS
  <2>1. /\ Count(pushed, Nothing) \in Nat /\ Count(lidarSock, Bad) \in Nat /\ bad \in Nat
        /\ Count(pushed, Nothing) + Count(lidarSock, Bad) <= bad
    BY Known, CountIsNat DEF IInv, BadAccounted
  <2>. QED
    BY <2>1 DEF GarbageOnlyFromBad
<1>. QED
  BY <1>1, Invariance, PTL

=============================================================================
