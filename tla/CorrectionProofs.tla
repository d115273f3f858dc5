-------------------------- MODULE CorrectionProofs ---------------------------
(***************************************************************************)
(* The angles of the lasers while a correction is loaded, for every number *)
(* of lasers, rows and loads, contents of every length and every           *)
(* interleaving of the two threads.                                        *)
(***************************************************************************)
EXTENDS Correction, SequenceTheorems, WellFoundedInduction, TLAPS

Resizing == load \in {"resizeSin", "moveSin", "resizeCos", "moveCos"}
Writing == load \in {"elev", "sin", "cos", "azimuth"}

\* The loader stays within its arrays, and the storage of the vectors reaches as far as
\* the rows it writes and as the lidar has lasers.
Extent ==
  /\ load = "idle" \/ Resizing \/ Writing
  /\ loads \in Nat /\ rows \in Nat /\ read \in Nat /\ row \in Nat /\ size \in Nat
  /\ longer \in BOOLEAN
  /\ read <= rows /\ rows <= MaxRows
  /\ read < rows => rows = read + 1 /\ WrongAt(read)
  /\ elev \in [0 .. MaxRows - 1 -> Int] /\ azimuth \in [0 .. MaxRows - 1 -> Int]
  /\ sinMap \in Seq(Int) /\ Len(sinMap) >= Lasers /\ Len(sinMap) >= size
  /\ cosMap \in Seq(Int) /\ Len(cosMap) >= Lasers /\ Len(cosMap) >= size
  /\ Resizing => row = 0 /\ longer = (rows > size)
  /\ load = "moveSin" => rows > Len(sinMap)
  /\ load \in {"resizeCos", "moveCos"} => Len(sinMap) >= rows
  /\ load = "moveCos" => rows > Len(cosMap)
  /\ Writing => row < rows /\ Len(sinMap) >= rows /\ Len(cosMap) >= rows

\* An angle of row i that some load, or Init, meant.
Meant(angle, i) == angle \in Nat \/ (angle = Stack /\ WrongAt(i))

\* In the vectors there may be zeros while a load lengthens them.
Fresh(angle) == angle = Zero /\ load # "idle" /\ longer

Cells(i) ==
  /\ Meant(elev[i], i) /\ Meant(azimuth[i], i)
  /\ Meant(sinMap[i + 1], i) \/ Fresh(sinMap[i + 1])
  /\ Meant(cosMap[i + 1], i) \/ Fresh(cosMap[i + 1])

Same(i) == azimuth[i] = elev[i] /\ sinMap[i + 1] = elev[i] /\ cosMap[i + 1] = elev[i]

\* The rows before the loader's and those behind its last are each of one load.
Settled(i) == load = "idle" \/ i >= rows \/ (Writing /\ i < row)
Ordered(i) ==
  /\ Settled(i) => Same(i) /\ FromLast(i, elev[i])
  /\ load \in {"sin", "cos", "azimuth"} /\ i = row => elev[i] = Angle
  /\ load \in {"cos", "azimuth"} /\ i = row => sinMap[i + 1] = elev[i]
  /\ load = "azimuth" /\ i = row => cosMap[i + 1] = elev[i]

\* What the process thread has read.
Reader ==
  /\ point \in {"idle", "cos", "cosCell", "sin", "sinCell", "made", "save"}
  /\ laser \in 0 .. Lasers - 1
  /\ overlap \in BOOLEAN /\ grown \in BOOLEAN /\ stale \in BOOLEAN
  /\ ~overlap => load = "idle"
  /\ ~grown => load = "idle" \/ ~longer
  /\ grown => overlap
  /\ stale => grown /\ point \in {"cosCell", "sin", "sinCell", "made"}
  /\ seen \in Seq(Int)
  /\ point = "idle" => seen = <<>>
  /\ point = "save" => Len(seen) <= 2 * Lasers /\ Len(seen) % 2 = 0

Readings ==
  \A k \in 1 .. Len(seen) :
    /\ Meant(seen[k], RowOf(k)) \/ (seen[k] \in {Zero, Garbage} /\ grown)
    /\ ~overlap => seen[k] = elev[RowOf(k)]

IInv ==
  Extent /\ (\A i \in 0 .. Lasers - 1 : Cells(i) /\ Ordered(i)) /\ Reader /\ Readings

-----------------------------------------------------------------------------
\* Min of FiniteSetsExt is what its name says, for infinite sets as well.
LEMMA MinIsLeast ==
  ASSUME NEW S \in SUBSET Nat, S # {}
  PROVE  Min(S) \in S /\ \A i \in S : Min(S) <= i
<1>. DEFINE Less == {pair \in Nat \X Nat : pair[1] < pair[2]}
<1>1. IsWellFoundedOn(Less, Nat)
  BY NatLessThanWellFounded DEF OpToRel
<1>2. PICK least \in S : \A i \in S : <<i, least>> \notin Less
  <2>. HIDE DEF Less
  <2>. QED
    BY <1>1, WFMin, Zenon
<1>3. ASSUME NEW i \in S PROVE least <= i
  <2>1. i \in Nat /\ least \in Nat /\ <<i, least>> \in Nat \X Nat
    OBVIOUS
  <2>2. <<i, least>> \notin Less
    BY <1>2
  <2>. QED
    BY <2>1, <2>2
<1>4. \E x \in S : \A y \in S : x =< y
  BY <1>3
<1>. QED
  BY <1>4 DEF Min

\* The rows read are a beginning of the content.
LEMMA RowsReadBounds ==
  ASSUME NEW content \in Contents
  PROVE  RowsRead(content) \in 0 .. Len(content)
<1>. DEFINE Others == {i \in 1 .. Len(content) : ~IsRow(content[i])}
<1>1. Others # {} => Min(Others) \in 1 .. Len(content)
  BY MinIsLeast
<1>2. RowsRead(content) = IF Others # {} THEN Min(Others) - 1 ELSE Len(content)
  BY <1>1 DEF RowsRead, SelectInSeq
<1>. QED
  BY <1>1, <1>2, ContentsAssumption DEF ContentsAssumption

\* So is what lineCounter counts: a row more at the most.
LEMMA LineCounterBounds ==
  ASSUME NEW content \in Contents
  PROVE  LineCounter(content) \in RowsRead(content) .. MaxRows
  BY RowsReadBounds, ContentsAssumption, RowsAssumption
     DEF ContentsAssumption, RowsAssumption, LineCounter

\* Max of FiniteSetsExt, of two numbers.
LEMMA MaxOfTwo ==
  ASSUME NEW m \in Int, NEW n \in Int
  PROVE  Max({m, n}) = IF m >= n THEN m ELSE n
<1>1. PICK x \in {m, n} : \A y \in {m, n} : x >= y
  OBVIOUS
<1>2. Max({m, n}) \in {m, n} /\ \A y \in {m, n} : Max({m, n}) >= y
  BY <1>1 DEF Max
<1>. QED
  BY <1>2

\* A row counted but not read is one with a wrong id.
LEMMA Counted ==
  ASSUME NEW content \in Contents
  PROVE  /\ RowsRead(content) \in Nat /\ LineCounter(content) \in Nat
         /\ RowsRead(content) <= LineCounter(content) /\ LineCounter(content) <= MaxRows
         /\ RowsRead(content) < LineCounter(content) =>
              LineCounter(content) = RowsRead(content) + 1 /\ WrongAt(RowsRead(content))
<1>1. /\ RowsRead(content) \in Nat /\ MaxRows \in Nat
      /\ LineCounter(content) \in RowsRead(content) .. MaxRows
  BY RowsReadBounds, LineCounterBounds, RowsAssumption, ContentsAssumption
     DEF RowsAssumption, ContentsAssumption
<1>2. LineCounter(content) \in {RowsRead(content), RowsRead(content) + 1}
  BY DEF LineCounter
<1>. QED
  BY <1>1, <1>2 DEF WrongAt

LEMMA Assigned ==
  ASSUME NEW vector \in Seq(Int), NEW k \in 1 .. Len(vector), NEW angle \in Int
  PROVE  /\ [vector EXCEPT ![k] = angle] \in Seq(Int)
         /\ Len([vector EXCEPT ![k] = angle]) = Len(vector)
         /\ \A i \in 1 .. Len(vector) :
              [vector EXCEPT ![k] = angle][i] = IF i = k THEN angle ELSE vector[i]
  OBVIOUS

\* What a resize within the storage leaves of the cells.
LEMMA InPlaceIs ==
  ASSUME NEW cells \in Seq(Int), NEW n \in Nat
  PROVE  /\ InPlace(cells, n) \in Seq(Int) /\ Len(InPlace(cells, n)) = Len(cells)
         /\ \A i \in 1 .. Len(cells) :
              InPlace(cells, n)[i] = IF size < i /\ i <= n THEN Zero ELSE cells[i]
  BY DEF InPlace, Zero

\* And what a resize beyond it moves to the new storage.
LEMMA MovedIs ==
  ASSUME NEW cells \in Seq(Int), NEW n \in Nat, size \in Nat, size <= Len(cells)
  PROVE  /\ Moved(cells, n) \in Seq(Int)
         /\ Len(Moved(cells, n)) >= n /\ Len(Moved(cells, n)) >= size
         /\ \A i \in 1 .. n : Moved(cells, n)[i] = IF i <= size THEN cells[i] ELSE Zero
<1>. DEFINE new == Max({2 * size, n})
<1>1. new \in Nat /\ new >= n /\ new >= size
  BY MaxOfTwo
<1>. HIDE DEF new
<1>. DEFINE cell(i) == CASE i <= size -> cells[i] [] size < i /\ i <= n -> Zero
                         [] OTHER -> Garbage
<1>2. \A i \in 1 .. new : cell(i) \in Int
  BY <1>1 DEF Zero, Garbage
<1>3. Moved(cells, n) = [i \in 1 .. new |-> cell(i)]
  BY DEF Moved, new
<1>4. \A i \in 1 .. n : cell(i) = IF i <= size THEN cells[i] ELSE Zero
  OBVIOUS
<1>. HIDE DEF cell
<1>5. Moved(cells, n) \in Seq(Int) /\ Len(Moved(cells, n)) = new
  BY <1>1, <1>2, <1>3
<1>6. \A i \in 1 .. n : Moved(cells, n)[i] = IF i <= size THEN cells[i] ELSE Zero
  BY <1>1, <1>3, <1>4
<1>. QED
  BY <1>1, <1>5, <1>6

LEMMA InitHolds == Init => IInv
<1>. SUFFICES ASSUME Init PROVE IInv
  OBVIOUS
<1>. USE RowsAssumption DEF RowsAssumption, Init
<1>1. Extent
  <2>1. sinMap \in Seq(Int) /\ Len(sinMap) = Lasers /\ cosMap = sinMap
    OBVIOUS
  <2>2. elev \in [0 .. MaxRows - 1 -> Int] /\ azimuth = elev
    BY DEF Garbage
  <2>. QED
    BY <2>1, <2>2 DEF Extent, Resizing, Writing
<1>2. \A i \in 0 .. Lasers - 1 : Cells(i) /\ Ordered(i)
  BY DEF Cells, Ordered, Settled, Same, FromLast, Meant, Writing
<1>3. Reader /\ Readings
  BY DEF Reader, Readings
<1>. QED
  BY <1>1, <1>2, <1>3 DEF IInv

Loader ==
  \/ Parse \/ ResizeSin \/ FreeSin \/ MoveSin \/ ResizeCos \/ FreeCos \/ MoveCos
  \/ WriteElev \/ WriteSin \/ WriteCos \/ WriteAzimuth
Calculator ==
  \/ BeginPoint \/ TakeCos \/ ReadCos \/ TakeSin \/ ReadSin \/ EndPoint
  \/ BeginSave \/ SaveRow \/ EndSave

\* What each row's assignments leave.
LEMMA Written ==
  ASSUME IInv
  PROVE  /\ WriteElev => /\ elev' \in [0 .. MaxRows - 1 -> Int]
                         /\ \A i \in 0 .. MaxRows - 1 :
                              elev'[i] = IF i = row THEN Angle ELSE elev[i]
         /\ WriteSin => /\ sinMap' \in Seq(Int) /\ Len(sinMap') = Len(sinMap)
                        /\ \A i \in 0 .. Lasers - 1 :
                             sinMap'[i + 1] = IF i = row THEN elev[i] ELSE sinMap[i + 1]
         /\ WriteCos => /\ cosMap' \in Seq(Int) /\ Len(cosMap') = Len(cosMap)
                        /\ \A i \in 0 .. Lasers - 1 :
                             cosMap'[i + 1] = IF i = row THEN elev[i] ELSE cosMap[i + 1]
         /\ WriteAzimuth => /\ azimuth' \in [0 .. MaxRows - 1 -> Int]
                            /\ \A i \in 0 .. MaxRows - 1 :
                                 azimuth'[i] = IF i = row THEN Angle ELSE azimuth[i]
<1>1. /\ Extent /\ Lasers \in Nat /\ MaxRows \in Nat /\ Angle \in Int
  <2>1. Extent /\ Lasers \in Nat /\ MaxRows \in Nat
    BY RowsAssumption DEF IInv, RowsAssumption
  <2>2. loads \in Nat
    BY <2>1 DEF Extent
  <2>3. Angle \in Int
    BY <2>2 DEF Angle, Stack
  <2>. QED
    BY <2>1, <2>3
<1>2. Writing => row \in 0 .. MaxRows - 1 /\ row + 1 \in 1 .. Len(sinMap)
                 /\ row + 1 \in 1 .. Len(cosMap) /\ elev[row] \in Int
  <2>. SUFFICES ASSUME Writing
                PROVE  row \in 0 .. MaxRows - 1 /\ row + 1 \in 1 .. Len(sinMap)
                       /\ row + 1 \in 1 .. Len(cosMap) /\ elev[row] \in Int
    OBVIOUS
  <2>1. /\ row \in Nat /\ rows \in Nat /\ row < rows /\ rows <= MaxRows
        /\ Len(sinMap) \in Nat /\ Len(cosMap) \in Nat
        /\ Len(sinMap) >= rows /\ Len(cosMap) >= rows
        /\ elev \in [0 .. MaxRows - 1 -> Int]
    <3>1. /\ row \in Nat /\ rows \in Nat /\ rows <= MaxRows
          /\ elev \in [0 .. MaxRows - 1 -> Int] /\ sinMap \in Seq(Int) /\ cosMap \in Seq(Int)
      BY <1>1 DEF Extent
    <3>2. row < rows /\ Len(sinMap) >= rows /\ Len(cosMap) >= rows
      BY <1>1 DEF Extent
    <3>. QED
      BY <3>1, <3>2
  <2>. QED
    BY <1>1, <2>1
<1>3. ASSUME WriteElev
      PROVE  /\ elev' \in [0 .. MaxRows - 1 -> Int]
             /\ \A i \in 0 .. MaxRows - 1 : elev'[i] = IF i = row THEN Angle ELSE elev[i]
  BY <1>1, <1>3 DEF WriteElev, Extent
<1>4. ASSUME WriteSin
      PROVE  /\ sinMap' \in Seq(Int) /\ Len(sinMap') = Len(sinMap)
             /\ \A i \in 0 .. Lasers - 1 :
                  sinMap'[i + 1] = IF i = row THEN elev[i] ELSE sinMap[i + 1]
  <2>1. /\ sinMap \in Seq(Int) /\ row + 1 \in 1 .. Len(sinMap) /\ elev[row] \in Int
        /\ sinMap' = [sinMap EXCEPT ![row + 1] = elev[row]] /\ row \in Nat
        /\ Len(sinMap) >= Lasers
    BY <1>1, <1>2, <1>4 DEF WriteSin, Writing, Extent
  <2>2. \A i \in 0 .. Lasers - 1 : i + 1 \in 1 .. Len(sinMap) /\ (i + 1 = row + 1 <=> i = row)
    BY <1>1, <2>1
  <2>. QED
    BY <2>1, <2>2, Assigned
<1>5. ASSUME WriteCos
      PROVE  /\ cosMap' \in Seq(Int) /\ Len(cosMap') = Len(cosMap)
             /\ \A i \in 0 .. Lasers - 1 :
                  cosMap'[i + 1] = IF i = row THEN elev[i] ELSE cosMap[i + 1]
  <2>1. /\ cosMap \in Seq(Int) /\ row + 1 \in 1 .. Len(cosMap) /\ elev[row] \in Int
        /\ cosMap' = [cosMap EXCEPT ![row + 1] = elev[row]] /\ row \in Nat
        /\ Len(cosMap) >= Lasers
    BY <1>1, <1>2, <1>5 DEF WriteCos, Writing, Extent
  <2>2. \A i \in 0 .. Lasers - 1 : i + 1 \in 1 .. Len(cosMap) /\ (i + 1 = row + 1 <=> i = row)
    BY <1>1, <2>1
  <2>. QED
    BY <2>1, <2>2, Assigned
<1>6. ASSUME WriteAzimuth
      PROVE  /\ azimuth' \in [0 .. MaxRows - 1 -> Int]
             /\ \A i \in 0 .. MaxRows - 1 : azimuth'[i] = IF i = row THEN Angle ELSE azimuth[i]
  BY <1>1, <1>6 DEF WriteAzimuth, Extent
<1>. QED
  BY <1>3, <1>4, <1>5, <1>6

\* What each resize leaves.
LEMMA Resized ==
  ASSUME IInv
  PROVE  /\ ResizeSin => /\ sinMap' \in Seq(Int) /\ Len(sinMap') = Len(sinMap)
                         /\ \A i \in 0 .. Lasers - 1 : sinMap'[i + 1] =
                              IF size <= i /\ i < rows THEN Zero ELSE sinMap[i + 1]
         /\ MoveSin => /\ sinMap' \in Seq(Int) /\ Len(sinMap') >= rows /\ Len(sinMap') >= size
                       /\ rows > Lasers
                       /\ \A i \in 0 .. Lasers - 1 : sinMap'[i + 1] =
                            IF size <= i /\ i < rows THEN Zero ELSE sinMap[i + 1]
         /\ ResizeCos => /\ cosMap' \in Seq(Int) /\ Len(cosMap') = Len(cosMap)
                         /\ \A i \in 0 .. Lasers - 1 : cosMap'[i + 1] =
                              IF size <= i /\ i < rows THEN Zero ELSE cosMap[i + 1]
         /\ MoveCos => /\ cosMap' \in Seq(Int) /\ Len(cosMap') >= rows /\ Len(cosMap') >= size
                       /\ rows > Lasers
                       /\ \A i \in 0 .. Lasers - 1 : cosMap'[i + 1] =
                            IF size <= i /\ i < rows THEN Zero ELSE cosMap[i + 1]
<1>1. /\ Lasers \in Nat /\ size \in Nat /\ rows \in Nat
      /\ sinMap \in Seq(Int) /\ Len(sinMap) >= Lasers /\ size <= Len(sinMap)
      /\ cosMap \in Seq(Int) /\ Len(cosMap) >= Lasers /\ size <= Len(cosMap)
      /\ Len(sinMap) \in Nat /\ Len(cosMap) \in Nat
  BY RowsAssumption DEF IInv, RowsAssumption, Extent
<1>2. \A i \in 0 .. Lasers - 1 : /\ i + 1 \in 1 .. Len(sinMap) /\ i + 1 \in 1 .. Len(cosMap)
                                 /\ (size < i + 1 <=> size <= i) /\ (i + 1 <= rows <=> i < rows)
                                 /\ (i + 1 <= size <=> ~(size <= i))
  BY <1>1
<1>3. ASSUME ResizeSin
      PROVE  /\ sinMap' \in Seq(Int) /\ Len(sinMap') = Len(sinMap)
             /\ \A i \in 0 .. Lasers - 1 : sinMap'[i + 1] =
                  IF size <= i /\ i < rows THEN Zero ELSE sinMap[i + 1]
  <2>1. sinMap' = InPlace(sinMap, rows)
    BY <1>3 DEF ResizeSin
  <2>. QED
    BY <1>1, <1>2, <2>1, InPlaceIs
<1>4. ASSUME ResizeCos
      PROVE  /\ cosMap' \in Seq(Int) /\ Len(cosMap') = Len(cosMap)
             /\ \A i \in 0 .. Lasers - 1 : cosMap'[i + 1] =
                  IF size <= i /\ i < rows THEN Zero ELSE cosMap[i + 1]
  <2>1. cosMap' = InPlace(cosMap, rows)
    BY <1>4 DEF ResizeCos
  <2>. QED
    BY <1>1, <1>2, <2>1, InPlaceIs
<1>5. ASSUME MoveSin
      PROVE  /\ sinMap' \in Seq(Int) /\ Len(sinMap') >= rows /\ Len(sinMap') >= size
             /\ rows > Lasers
             /\ \A i \in 0 .. Lasers - 1 : sinMap'[i + 1] =
                  IF size <= i /\ i < rows THEN Zero ELSE sinMap[i + 1]
  <2>1. sinMap' = Moved(sinMap, rows) /\ rows > Len(sinMap)
    BY <1>5 DEF MoveSin, IInv, Extent
  <2>2. rows > Lasers /\ \A i \in 0 .. Lasers - 1 : i < rows /\ i + 1 \in 1 .. rows
    BY <1>1, <2>1
  <2>. QED
    BY <1>1, <1>2, <2>1, <2>2, MovedIs
<1>6. ASSUME MoveCos
      PROVE  /\ cosMap' \in Seq(Int) /\ Len(cosMap') >= rows /\ Len(cosMap') >= size
             /\ rows > Lasers
             /\ \A i \in 0 .. Lasers - 1 : cosMap'[i + 1] =
                  IF size <= i /\ i < rows THEN Zero ELSE cosMap[i + 1]
  <2>1. cosMap' = Moved(cosMap, rows) /\ rows > Len(cosMap)
    BY <1>6 DEF MoveCos, IInv, Extent
  <2>2. rows > Lasers /\ \A i \in 0 .. Lasers - 1 : i < rows /\ i + 1 \in 1 .. rows
    BY <1>1, <2>1
  <2>. QED
    BY <1>1, <1>2, <2>1, <2>2, MovedIs
<1>. QED
  BY <1>3, <1>4, <1>5, <1>6

-----------------------------------------------------------------------------
(* The loader's steps. *)

LEMMA ExtentStep ==
  ASSUME IInv, Loader
  PROVE  Extent'
<1>1. Extent /\ Lasers \in Nat /\ MaxRows \in Nat
  BY RowsAssumption DEF IInv, RowsAssumption
<1>. USE DEF Extent, Resizing, Writing
<1>2. CASE Parse
  <2>1. PICK content \in Contents : rows' = LineCounter(content) /\ read' = RowsRead(content)
    BY <1>2 DEF Parse
  <2>2. /\ rows' \in Nat /\ read' \in Nat /\ read' <= rows' /\ rows' <= MaxRows
        /\ read' < rows' => rows' = read' + 1 /\ WrongAt(read')
    BY <2>1, Counted
  <2>. QED
    BY <1>1, <1>2, <2>2 DEF Parse
<1>3. CASE ResizeSin
  <2>1. sinMap' \in Seq(Int) /\ Len(sinMap') = Len(sinMap)
    BY <1>3, Resized
  <2>. QED
    BY <1>1, <1>3, <2>1 DEF ResizeSin
<1>4. CASE FreeSin
  BY <1>1, <1>4 DEF FreeSin
<1>5. CASE MoveSin
  <2>1. sinMap' \in Seq(Int) /\ Len(sinMap') >= rows /\ Len(sinMap') >= size /\ rows > Lasers
    BY <1>5, Resized
  <2>. QED
    BY <1>1, <1>5, <2>1 DEF MoveSin
<1>6. CASE ResizeCos
  <2>1. cosMap' \in Seq(Int) /\ Len(cosMap') = Len(cosMap)
    BY <1>6, Resized
  <2>2. /\ load = "resizeCos" /\ rows <= Len(cosMap) /\ size' = rows
        /\ load' = (IF rows > 0 THEN "elev" ELSE "idle")
        /\ UNCHANGED <<elev, azimuth, sinMap, rows, read, row, loads, longer>>
    BY <1>6 DEF ResizeCos, NextRow
  <2>. QED
    BY <1>1, <2>1, <2>2
<1>7. CASE FreeCos
  BY <1>1, <1>7 DEF FreeCos
<1>8. CASE MoveCos
  <2>1. cosMap' \in Seq(Int) /\ Len(cosMap') >= rows /\ rows > Lasers
    BY <1>8, Resized
  <2>2. /\ load = "moveCos" /\ size' = rows /\ load' = (IF rows > 0 THEN "elev" ELSE "idle")
        /\ UNCHANGED <<elev, azimuth, sinMap, rows, read, row, loads, longer>>
    BY <1>8 DEF MoveCos, NextRow
  <2>3. /\ ~Resizing' /\ (load' = "idle" \/ Writing') /\ (Writing' => row' < rows)
    BY <1>1, <2>2
  <2>4. /\ sinMap' \in Seq(Int) /\ Len(sinMap') >= Lasers /\ Len(sinMap') >= size'
        /\ Len(sinMap') >= rows'
    BY <1>1, <2>2
  <2>5. /\ cosMap' \in Seq(Int) /\ Len(cosMap') >= Lasers /\ Len(cosMap') >= size'
        /\ Len(cosMap') >= rows'
    BY <1>1, <2>1, <2>2
  <2>6. read' < rows' => rows' = read' + 1 /\ WrongAt(read')
    BY <1>1, <2>2
  <2>. QED
    BY <1>1, <2>2, <2>3, <2>4, <2>5, <2>6
<1>9. CASE WriteElev
  <2>1. elev' \in [0 .. MaxRows - 1 -> Int]
    BY <1>9, Written
  <2>. QED
    BY <1>1, <1>9, <2>1 DEF WriteElev
<1>10. CASE WriteSin
  <2>1. sinMap' \in Seq(Int) /\ Len(sinMap') = Len(sinMap)
    BY <1>10, Written
  <2>. QED
    BY <1>1, <1>10, <2>1 DEF WriteSin
<1>11. CASE WriteCos
  <2>1. cosMap' \in Seq(Int) /\ Len(cosMap') = Len(cosMap)
    BY <1>11, Written
  <2>. QED
    BY <1>1, <1>11, <2>1 DEF WriteCos
<1>12. CASE WriteAzimuth
  <2>1. azimuth' \in [0 .. MaxRows - 1 -> Int]
    BY <1>12, Written
  <2>2. load = "azimuth" /\ load' = (IF row >= rows - 1 THEN "idle" ELSE "elev") /\ row' = row + 1
        /\ UNCHANGED <<elev, sinMap, cosMap, size, rows, read, loads, longer>>
    BY <1>12 DEF WriteAzimuth, LastRow
  <2>3. row' \in Nat /\ (load' = "elev" => row' < rows)
    BY <1>1, <2>2
  <2>4. ~Resizing' /\ (load' = "idle" \/ Writing')
    BY <2>2
  <2>. QED
    BY <1>1, <2>1, <2>2, <2>3, <2>4
<1>. QED
  BY <1>2, <1>3, <1>4, <1>5, <1>6, <1>7, <1>8, <1>9, <1>10, <1>11, <1>12 DEF Loader

\* A load's own angle of a row.
LEMMA AngleIs ==
  ASSUME IInv, Writing
  PROVE  Meant(Angle, row) /\ FromLast(row, Angle)
<1>1. /\ loads \in Nat /\ row \in Nat /\ read \in Nat /\ rows \in Nat /\ row < rows
      /\ read <= rows /\ (read < rows => rows = read + 1 /\ WrongAt(read))
  BY DEF IInv, Extent
<1>2. CASE row < read
  BY <1>1, <1>2 DEF Angle, Meant, FromLast
<1>3. CASE ~(row < read)
  <2>1. row = read
    BY <1>1, <1>3
  <2>. QED
    BY <1>1, <1>3, <2>1 DEF Angle, Meant, FromLast
<1>. QED
  BY <1>2, <1>3

\* A resize disturbs only rows the load will write.
LEMMA RowsResized ==
  ASSUME IInv, Resizing, NEW i \in 0 .. Lasers - 1,
         UNCHANGED <<elev, azimuth, rows, read, row, loads, longer>>,
         load' = "idle" => rows = 0, load' # "idle" => longer' = longer,
         load' \in {"resizeCos", "moveSin", "moveCos", "elev", "idle"},
         sinMap'[i + 1] = sinMap[i + 1] \/ (size <= i /\ i < rows /\ sinMap'[i + 1] = Zero),
         cosMap'[i + 1] = cosMap[i + 1] \/ (size <= i /\ i < rows /\ cosMap'[i + 1] = Zero)
  PROVE  Cells(i)' /\ Ordered(i)'
<1>1. /\ Cells(i) /\ Ordered(i) /\ row = 0 /\ longer = (rows > size) /\ rows \in Nat
      /\ size \in Nat /\ i \in Nat /\ load # "idle"
  BY DEF IInv, Extent, Resizing
<1>2. ASSUME size <= i, i < rows
      PROVE  longer /\ longer' = longer /\ load' # "idle" /\ ~(i >= rows)
  <2>1. rows > size /\ rows # 0 /\ ~(i >= rows)
    BY <1>1, <1>2
  <2>2. longer
    BY <1>1, <2>1, Zenon
  <2>. QED
    BY <2>1, <2>2
<1>3. load' = "idle" => i >= rows
  BY <1>1
<1>4. Cells(i)'
  <2>1. Meant(elev[i], i)' /\ Meant(azimuth[i], i)'
    BY <1>1 DEF Cells, Meant
  <2>2. /\ Meant(sinMap[i + 1], i) \/ Fresh(sinMap[i + 1])
        /\ Meant(cosMap[i + 1], i) \/ Fresh(cosMap[i + 1])
        /\ i >= rows => Meant(sinMap[i + 1], i) /\ Meant(cosMap[i + 1], i)
    BY <1>1 DEF Cells, Ordered, Settled, Same
  <2>3. (Meant(sinMap[i + 1], i) \/ Fresh(sinMap[i + 1]))'
    BY <1>2, <1>3, <2>2 DEF Meant, Fresh
  <2>4. (Meant(cosMap[i + 1], i) \/ Fresh(cosMap[i + 1]))'
    BY <1>2, <1>3, <2>2 DEF Meant, Fresh
  <2>. QED
    BY <2>1, <2>3, <2>4 DEF Cells
<1>5. Ordered(i)'
  <2>1. Settled(i)' => i >= rows
    BY <1>1, <1>3 DEF Settled, Writing
  <2>2. i >= rows => Same(i)' /\ FromLast(i, elev[i])'
    BY <1>1, <1>2 DEF Ordered, Settled, Same, FromLast
  <2>3. load' \notin {"sin", "cos", "azimuth"}
    OBVIOUS
  <2>. QED
    BY <2>1, <2>2, <2>3 DEF Ordered
<1>. QED
  BY <1>4, <1>5

\* A laser's row is replaced assignment by assignment and holds nothing else.
LEMMA RowsStep ==
  ASSUME IInv, Loader, NEW i \in 0 .. Lasers - 1
  PROVE  Cells(i)' /\ Ordered(i)'
<1>1. /\ Extent /\ Cells(i) /\ Ordered(i) /\ i \in 0 .. MaxRows - 1 /\ i \in Nat
      /\ rows \in Nat /\ row \in Nat /\ read \in Nat /\ read <= rows
  <2>1. Extent /\ Cells(i) /\ Ordered(i) /\ i \in Nat
    BY RowsAssumption DEF IInv, RowsAssumption
  <2>2. i \in 0 .. MaxRows - 1
    BY RowsAssumption DEF RowsAssumption
  <2>3. rows \in Nat /\ row \in Nat /\ read \in Nat /\ read <= rows
    BY <2>1 DEF Extent
  <2>. QED
    BY <2>1, <2>2, <2>3
<1>2. CASE Parse
  <2>1. /\ load = "idle" /\ load' = "resizeSin" /\ UNCHANGED <<elev, azimuth, sinMap, cosMap>>
    BY <1>2 DEF Parse
  <2>2. PICK content \in Contents : rows' = LineCounter(content) /\ read' = RowsRead(content)
    BY <1>2 DEF Parse
  <2>3. rows' \in Nat /\ read' \in Nat /\ read' <= rows'
    BY <2>2, Counted
  <2>4. i >= rows' => ~(i < read') /\ ~(i < rows')
    BY <1>1, <2>3
  <2>5. Cells(i)'
    BY <1>1, <2>1 DEF Cells, Meant, Fresh
  <2>. QED
    BY <1>1, <2>1, <2>4, <2>5 DEF Ordered, Settled, Same, FromLast, Writing
<1>3. CASE ResizeSin
  BY <1>1, <1>3, RowsResized, Resized DEF ResizeSin, Resizing
<1>4. CASE FreeSin
  BY <1>1, <1>4, RowsResized DEF FreeSin, Resizing
<1>5. CASE MoveSin
  BY <1>1, <1>5, RowsResized, Resized DEF MoveSin, Resizing
<1>6. CASE ResizeCos
  <2>1. load' \in {"elev", "idle"} /\ (load' = "idle" => rows = 0)
    BY <1>1, <1>6 DEF ResizeCos, NextRow
  <2>. QED
    BY <1>1, <1>6, <2>1, RowsResized, Resized DEF ResizeCos, Resizing
<1>7. CASE FreeCos
  BY <1>1, <1>7, RowsResized DEF FreeCos, Resizing
<1>8. CASE MoveCos
  <2>1. load' \in {"elev", "idle"} /\ (load' = "idle" => rows = 0)
    BY <1>1, <1>8 DEF MoveCos, NextRow
  <2>. QED
    BY <1>1, <1>8, <2>1, RowsResized, Resized DEF MoveCos, Resizing
<1>9. CASE WriteElev
  <2>1. /\ load = "elev" /\ load' = "sin"
        /\ UNCHANGED <<azimuth, sinMap, cosMap, rows, read, row, loads, longer>>
    BY <1>9 DEF WriteElev
  <2>2. elev'[i] = IF i = row THEN Angle ELSE elev[i]
    BY <1>1, <1>9, Written
  <2>3. Meant(Angle, row) /\ Angle' = Angle
    BY <2>1, AngleIs DEF Writing, Angle
  <2>4. Cells(i)'
    BY <1>1, <2>1, <2>2, <2>3 DEF Cells, Meant, Fresh
  <2>5. Settled(i)' => i # row /\ Settled(i)
    BY <1>1, <2>1 DEF Settled, Writing, Extent
  <2>. QED
    BY <1>1, <2>1, <2>2, <2>3, <2>4, <2>5 DEF Ordered, Same, FromLast
<1>10. CASE WriteSin
  <2>1. /\ load = "sin" /\ load' = "cos"
        /\ UNCHANGED <<elev, azimuth, cosMap, rows, read, row, loads, longer>>
    BY <1>10 DEF WriteSin
  <2>2. sinMap'[i + 1] = IF i = row THEN elev[i] ELSE sinMap[i + 1]
    BY <1>1, <1>10, Written
  <2>3. Angle' = Angle
    BY <2>1 DEF Angle
  <2>4. Cells(i)'
    BY <1>1, <2>1, <2>2 DEF Cells, Meant, Fresh
  <2>5. Settled(i)' => i # row /\ Settled(i)
    BY <1>1, <2>1 DEF Settled, Writing, Extent
  <2>. QED
    BY <1>1, <2>1, <2>2, <2>3, <2>4, <2>5 DEF Ordered, Same, FromLast
<1>11. CASE WriteCos
  <2>1. /\ load = "cos" /\ load' = "azimuth"
        /\ UNCHANGED <<elev, azimuth, sinMap, rows, read, row, loads, longer>>
    BY <1>11 DEF WriteCos
  <2>2. cosMap'[i + 1] = IF i = row THEN elev[i] ELSE cosMap[i + 1]
    BY <1>1, <1>11, Written
  <2>3. Angle' = Angle
    BY <2>1 DEF Angle
  <2>4. Cells(i)'
    BY <1>1, <2>1, <2>2 DEF Cells, Meant, Fresh
  <2>5. Settled(i)' => i # row /\ Settled(i)
    BY <1>1, <2>1 DEF Settled, Writing, Extent
  <2>. QED
    BY <1>1, <2>1, <2>2, <2>3, <2>4, <2>5 DEF Ordered, Same, FromLast
<1>12. CASE WriteAzimuth
  <2>1. /\ load = "azimuth" /\ load' \in {"idle", "elev"} /\ row' = row + 1
        /\ load' = "idle" => row + 1 >= rows
        /\ UNCHANGED <<elev, sinMap, cosMap, rows, read, loads, longer>>
    BY <1>1, <1>12 DEF WriteAzimuth, LastRow
  <2>2. azimuth'[i] = IF i = row THEN Angle ELSE azimuth[i]
    BY <1>1, <1>12, Written
  <2>3. Meant(Angle, row) /\ FromLast(row, Angle)
    BY <2>1, AngleIs DEF Writing
  <2>4. i = row => elev[i] = Angle /\ sinMap[i + 1] = elev[i] /\ cosMap[i + 1] = elev[i]
    BY <1>1, <2>1 DEF Ordered
  <2>5. Settled(i)' => i = row \/ Settled(i)
    BY <1>1, <2>1 DEF Settled, Writing
  <2>6. Settled(i)' => Same(i)' /\ FromLast(i, elev[i])'
    BY <1>1, <2>1, <2>2, <2>3, <2>4, <2>5 DEF Ordered, Same, FromLast
  <2>7. load' = "idle" => Settled(i)'
    BY DEF Settled
  <2>8. Cells(i)'
    BY <1>1, <2>1, <2>2, <2>3, <2>6, <2>7 DEF Cells, Meant, Fresh, Same
  <2>. QED
    BY <2>1, <2>6, <2>8 DEF Ordered
<1>. QED
  BY <1>2, <1>3, <1>4, <1>5, <1>6, <1>7, <1>8, <1>9, <1>10, <1>11, <1>12 DEF Loader

\* A load marks whatever the process thread is at, and an address of storage it frees.
LEMMA LoaderReader ==
  ASSUME IInv, Loader
  PROVE  Reader' /\ Readings'
<1>1. Reader /\ Readings /\ Extent
  BY DEF IInv
<1>2. /\ UNCHANGED <<point, laser, seen>> /\ overlap' = TRUE
      /\ grown => grown'
      /\ grown' \in BOOLEAN /\ stale' \in BOOLEAN
      /\ ~grown' => load' = "idle" \/ ~longer'
      /\ stale' => stale \/ (grown' /\ point \in {"cosCell", "sinCell"})
  <2>1. CASE Parse
    BY <1>1, <2>1 DEF Parse, calcVars, Reader
  <2>2. CASE FreeSin \/ FreeCos
    <3>1. longer /\ load # "idle"
      BY <1>1, <2>2 DEF FreeSin, FreeCos, Extent, Resizing
    <3>. QED
      BY <1>1, <2>2, <3>1 DEF FreeSin, FreeCos, histVars, Reader
  <2>3. CASE \/ ResizeSin \/ MoveSin \/ ResizeCos \/ MoveCos
             \/ WriteElev \/ WriteSin \/ WriteCos \/ WriteAzimuth
    <3>1. /\ load # "idle" /\ longer' = longer /\ UNCHANGED calcVars /\ UNCHANGED histVars
      BY <2>3 DEF ResizeSin, MoveSin, ResizeCos, MoveCos, WriteElev, WriteSin, WriteCos,
                  WriteAzimuth
    <3>. QED
      BY <1>1, <3>1 DEF calcVars, histVars, Reader
  <2>. QED
    BY <2>1, <2>2, <2>3 DEF Loader
<1>3. Reader'
  <2>1. stale' => grown' /\ point' \in {"cosCell", "sin", "sinCell", "made"}
    BY <1>1, <1>2 DEF Reader
  <2>2. laser' \in 0 .. Lasers - 1 /\ seen' \in Seq(Int)
    BY <1>1, <1>2 DEF Reader
  <2>. QED
    BY <1>1, <1>2, <2>1, <2>2 DEF Reader
<1>4. Readings'
  BY <1>1, <1>2 DEF Readings, RowOf, Meant
<1>. QED
  BY <1>3, <1>4

-----------------------------------------------------------------------------
(* The process thread's steps. *)

\* The angles of a laser, as the process thread finds them.
LEMMA Found ==
  ASSUME IInv, NEW i \in 0 .. Lasers - 1
  PROVE  /\ Meant(elev[i], i) /\ Meant(azimuth[i], i)
         /\ \A cells \in {sinMap, cosMap} :
              /\ At(cells, i) \in Int
              /\ Meant(At(cells, i), i) \/ (At(cells, i) \in {Zero, Garbage} /\ grown)
              /\ ~overlap => At(cells, i) = elev[i]
         /\ ~overlap => azimuth[i] = elev[i]
<1>1. /\ Cells(i) /\ Ordered(i) /\ Lasers \in Nat /\ i \in Nat /\ i < Lasers
      /\ sinMap \in Seq(Int) /\ Len(sinMap) >= Lasers
      /\ cosMap \in Seq(Int) /\ Len(cosMap) >= Lasers
  BY RowsAssumption DEF IInv, Extent, RowsAssumption
<1>2. /\ stale => grown
      /\ ~grown => load = "idle" \/ ~longer
      /\ ~overlap => load = "idle" /\ ~grown
  BY DEF IInv, Reader
<1>3. ASSUME NEW cells \in {sinMap, cosMap}
      PROVE  /\ At(cells, i) \in Int
             /\ Meant(At(cells, i), i) \/ (At(cells, i) \in {Zero, Garbage} /\ grown)
             /\ ~overlap => At(cells, i) = elev[i]
  <2>1. At(cells, i) = IF ~stale THEN cells[i + 1] ELSE Garbage
    <3>1. i < Len(cells)
      BY <1>1
    <3>. QED
      BY <3>1 DEF At
  <2>2. cells[i + 1] \in Int
    <3>1. cells \in Seq(Int) /\ i + 1 \in 1 .. Len(cells)
      BY <1>1
    <3>. QED
      BY <3>1
  <2>3. Meant(cells[i + 1], i) \/ (cells[i + 1] = Zero /\ grown)
    BY <1>1, <1>2 DEF Cells, Fresh
  <2>4. load = "idle" => cells[i + 1] = elev[i]
    BY <1>1 DEF Ordered, Settled, Same
  <2>5. At(cells, i) \in Int
    BY <2>1, <2>2 DEF Garbage
  <2>. QED
    BY <1>2, <2>1, <2>3, <2>4, <2>5
<1>4. ~overlap => azimuth[i] = elev[i]
  BY <1>1, <1>2 DEF Ordered, Settled, Same
<1>. QED
  BY <1>1, <1>3, <1>4 DEF Cells

\* One more angle of the point's laser.
LEMMA OneMore ==
  ASSUME IInv, point # "save", NEW angle \in Int,
         Meant(angle, laser) \/ (angle \in {Zero, Garbage} /\ grown),
         ~overlap => angle = elev[laser],
         seen' = Append(seen, angle), UNCHANGED <<loadVars, laser, histVars>>, point' # "save"
  PROVE  seen' \in Seq(Int) /\ Readings'
<1>1. seen \in Seq(Int) /\ Readings
  BY DEF IInv, Reader
<1>2. /\ seen' \in Seq(Int) /\ Len(seen') = Len(seen) + 1
      /\ \A k \in 1 .. Len(seen) + 1 :
           seen'[k] = IF k = Len(seen) + 1 THEN angle ELSE seen[k]
  BY <1>1, AppendProperties
<1>3. ASSUME NEW k \in 1 .. Len(seen) + 1
      PROVE  /\ Meant(seen'[k], laser) \/ (seen'[k] \in {Zero, Garbage} /\ grown)
             /\ ~overlap => seen'[k] = elev[laser]
  <2>1. CASE k = Len(seen) + 1
    BY <1>2, <2>1
  <2>2. CASE k # Len(seen) + 1
    <3>1. k \in 1 .. Len(seen) /\ seen'[k] = seen[k]
      BY <1>1, <1>2, <2>2
    <3>. QED
      BY <1>1, <3>1 DEF Readings, RowOf
  <2>. QED
    BY <2>1, <2>2
<1>4. RowOf(1)' = laser /\ \A k : RowOf(k)' = laser
  BY DEF RowOf
<1>5. Readings'
  BY <1>2, <1>3, <1>4 DEF Readings, Meant, loadVars, histVars
<1>. QED
  BY <1>2, <1>5

\* Two more of the row a save is at.
LEMMA TwoMore ==
  ASSUME IInv, SaveRow
  PROVE  /\ seen' \in Seq(Int) /\ Len(seen') <= 2 * Lasers /\ Len(seen') % 2 = 0
         /\ Readings'
<1>. DEFINE i == Len(seen) \div 2
            more == <<elev[i], azimuth[i]>>
<1>1. /\ seen \in Seq(Int) /\ Readings /\ Lasers \in Nat /\ Len(seen) \in Nat
      /\ (Len(seen) % 2) = 0 /\ Len(seen) < 2 * Lasers /\ point = "save" /\ point' = "save"
      /\ UNCHANGED <<loadVars, histVars, laser>> /\ seen' = seen \o more
  <2>1. /\ point = "save" /\ point' = "save" /\ Len(seen) < 2 * Lasers
        /\ UNCHANGED <<loadVars, histVars, laser>> /\ seen' = seen \o more
    BY DEF SaveRow
  <2>2. seen \in Seq(Int) /\ Readings /\ (Len(seen) % 2) = 0
    BY <2>1 DEF IInv, Reader
  <2>. QED
    BY <2>1, <2>2, RowsAssumption DEF RowsAssumption
<1>2. /\ i \in 0 .. Lasers - 1 /\ Len(seen) + 2 <= 2 * Lasers /\ ((Len(seen) + 2) % 2) = 0
      /\ (Len(seen) \div 2) = i /\ ((Len(seen) + 1) \div 2) = i
  <2>1. PICK half \in Nat : Len(seen) = 2 * half
    <3>1. PICK l \in Nat : l = Len(seen)
      BY <1>1
    <3>2. l = 2 * (l \div 2) /\ (l \div 2) \in Nat
      BY <1>1, <3>1
    <3>. QED
      BY <3>1, <3>2
  <2>2. half + 1 <= Lasers
    BY <1>1, <2>1
  <2>3. ((2 * half + 2) % 2) = 0
    OBVIOUS
  <2>4. ((2 * half) \div 2) = half /\ ((2 * half + 1) \div 2) = half
    OBVIOUS
  <2>5. (Len(seen) \div 2) = half /\ ((Len(seen) + 1) \div 2) = half
    BY <2>1, <2>4
  <2>6. Len(seen) + 2 <= 2 * Lasers
    BY <1>1, <2>1, <2>2
  <2>7. ((Len(seen) + 2) % 2) = 0
    BY <2>1, <2>3
  <2>. QED
    BY <1>1, <2>1, <2>2, <2>5, <2>6, <2>7
<1>. HIDE DEF i
<1>3. /\ elev[i] \in Int /\ azimuth[i] \in Int
      /\ Meant(elev[i], i) /\ Meant(azimuth[i], i) /\ (~overlap => azimuth[i] = elev[i])
  <2>1. elev \in [0 .. MaxRows - 1 -> Int] /\ azimuth \in [0 .. MaxRows - 1 -> Int]
    BY DEF IInv, Extent
  <2>2. i \in 0 .. MaxRows - 1
    BY <1>2, RowsAssumption DEF RowsAssumption
  <2>. QED
    BY <1>2, <2>1, <2>2, Found
<1>4. more \in Seq(Int) /\ Len(more) = 2 /\ more[1] = elev[i] /\ more[2] = azimuth[i]
  BY <1>3
<1>. HIDE DEF more
<1>5. /\ seen' \in Seq(Int) /\ Len(seen') = Len(seen) + 2
      /\ \A k \in 1 .. Len(seen) + 2 :
           seen'[k] = IF k <= Len(seen) THEN seen[k] ELSE more[k - Len(seen)]
  <2>1. /\ seen \o more \in Seq(Int) /\ Len(seen \o more) = Len(seen) + Len(more)
        /\ \A k \in 1 .. Len(seen) + Len(more) :
             (seen \o more)[k] = IF k <= Len(seen) THEN seen[k] ELSE more[k - Len(seen)]
    BY <1>1, <1>4, ConcatProperties
  <2>. QED
    BY <1>1, <1>4, <2>1
<1>6. \A k : RowOf(k)' = (k - 1) \div 2 /\ RowOf(k) = (k - 1) \div 2
  BY <1>1 DEF RowOf
<1>7. Len(seen) \in Nat
  BY <1>1
<1>8. ASSUME NEW k \in 1 .. Len(seen) + 2
      PROVE  /\ Meant(seen'[k], RowOf(k)') \/ (seen'[k] \in {Zero, Garbage} /\ grown)
             /\ ~overlap => seen'[k] = elev[RowOf(k)']
  <2>1. CASE k \in 1 .. Len(seen)
    <3>1. seen'[k] = seen[k] /\ RowOf(k)' = RowOf(k)
      BY <1>1, <1>5, <1>6, <2>1
    <3>2. /\ Meant(seen[k], RowOf(k)) \/ (seen[k] \in {Zero, Garbage} /\ grown)
          /\ ~overlap => seen[k] = elev[RowOf(k)]
      BY <1>1, <2>1 DEF Readings
    <3>3. Meant(seen'[k], RowOf(k)') \/ (seen'[k] \in {Zero, Garbage} /\ grown)
      BY <3>1, <3>2, Zenon
    <3>4. ~overlap => seen'[k] = elev[RowOf(k)']
      BY <3>1, <3>2, Zenon
    <3>. QED
      BY <3>3, <3>4
  <2>2. CASE k = Len(seen) + 1
    <3>1. RowOf(k)' = i
      <4>1. (k - 1) \div 2 = Len(seen) \div 2
        BY <2>2, <1>7
      <4>. QED
        BY <1>2, <1>6, <4>1
    <3>2. seen'[k] = elev[i]
      BY <1>1, <1>4, <1>5, <2>2
    <3>. QED
      BY <1>3, <3>1, <3>2
  <2>3. CASE k = Len(seen) + 2
    <3>1. RowOf(k)' = i
      <4>1. (k - 1) \div 2 = (Len(seen) + 1) \div 2
        BY <2>3, <1>7
      <4>. QED
        BY <1>2, <1>6, <4>1
    <3>2. seen'[k] = azimuth[i]
      BY <1>1, <1>4, <1>5, <2>3
    <3>. QED
      BY <1>3, <3>1, <3>2
  <2>4. k \in 1 .. Len(seen) \/ k = Len(seen) + 1 \/ k = Len(seen) + 2
    BY <1>7
  <2>. QED
    BY <2>1, <2>2, <2>3, <2>4, Zenon
<1>9. Readings'
  BY <1>1, <1>5, <1>8 DEF Readings, Meant, loadVars, histVars
<1>. QED
  BY <1>1, <1>2, <1>5, <1>9

LEMMA CalculatorReader ==
  ASSUME IInv, Calculator
  PROVE  Reader' /\ Readings'
<1>1. /\ Reader /\ Readings /\ UNCHANGED loadVars /\ load' = load /\ longer' = longer
      /\ load = "idle" \/ load # "idle"
      /\ longer \in BOOLEAN /\ (load = "moveSin" \/ load = "moveCos" => longer)
  <2>1. longer \in BOOLEAN /\ (load = "moveSin" \/ load = "moveCos" => longer)
    <3>1. Extent /\ Lasers \in Nat
      BY RowsAssumption DEF IInv, RowsAssumption
    <3>2. load = "moveSin" \/ load = "moveCos" => rows > size
      BY <3>1 DEF Extent
    <3>3. load = "moveSin" \/ load = "moveCos" => longer = (rows > size)
      BY <3>1 DEF Extent, Resizing
    <3>4. longer \in BOOLEAN
      BY <3>1 DEF Extent
    <3>. QED
      BY <3>2, <3>3, <3>4, Zenon
  <2>. QED
    BY <2>1 DEF IInv, Calculator, BeginPoint, TakeCos, ReadCos, TakeSin, ReadSin, EndPoint,
       BeginSave, SaveRow, EndSave, loadVars
<1>2. /\ laser \in 0 .. Lasers - 1 /\ laser \in 0 .. MaxRows - 1
      /\ azimuth \in [0 .. MaxRows - 1 -> Int]
  BY RowsAssumption DEF IInv, Reader, Extent, RowsAssumption
<1>3. CASE BeginPoint
  <2>1. /\ seen' = <<azimuth[laser]>> /\ laser' = laser /\ point' = "cos" /\ point = "idle"
        /\ stale' = stale /\ ~stale
        /\ overlap' = (load # "idle") /\ grown' = (load # "idle" /\ longer)
    BY <1>1, <1>3 DEF BeginPoint, Reader
  <2>2. azimuth[laser] \in Int /\ Meant(azimuth[laser], laser)
        /\ (load = "idle" => azimuth[laser] = elev[laser])
    <3>1. Ordered(laser)
      BY <1>2 DEF IInv
    <3>. QED
      BY <1>2, <3>1, Found DEF Ordered, Settled, Same
  <2>3. seen' \in Seq(Int) /\ Len(seen') = 1 /\ seen'[1] = azimuth[laser]
    BY <2>1, <2>2
  <2>4. /\ overlap' \in BOOLEAN /\ grown' \in BOOLEAN /\ (grown' => overlap')
        /\ ~overlap' => load = "idle"
        /\ ~grown' => load = "idle" \/ ~longer
    BY <1>1, <2>1, Zenon
  <2>5. Reader'
    BY <1>1, <1>2, <2>1, <2>3, <2>4 DEF Reader
  <2>6. \A k \in 1 .. 1 : k = 1
    OBVIOUS
  <2>7. \A k : RowOf(k)' = laser
    BY <2>1 DEF RowOf
  <2>8. elev' = elev
    BY <1>1 DEF loadVars
  <2>. HIDE <2>1
  <2>9. Readings'
    BY <2>2, <2>3, <2>4, <2>6, <2>7, <2>8 DEF Readings, Meant
  <2>. QED
    BY <2>5, <2>9
<1>4. CASE TakeCos \/ TakeSin
  <2>1. /\ UNCHANGED <<laser, seen, overlap, grown>> /\ stale' \in BOOLEAN
        /\ point' \in {"cosCell", "sinCell"} /\ point \in {"cos", "sin"}
        /\ stale' => load = "moveSin" \/ load = "moveCos"
    BY <1>4 DEF TakeCos, TakeSin, histVars
  <2>2. stale' => grown
    BY <1>1, <2>1 DEF Reader
  <2>3. Reader'
    BY <1>1, <2>1, <2>2 DEF Reader
  <2>4. Readings'
    BY <1>1, <2>1 DEF Readings, RowOf, Meant, loadVars
  <2>. QED
    BY <2>3, <2>4
<1>5. CASE ReadCos \/ ReadSin
  <2>1. PICK cells \in {sinMap, cosMap} : seen' = Append(seen, At(cells, laser))
    BY <1>5 DEF ReadCos, ReadSin
  <2>2. /\ UNCHANGED <<laser, stale, overlap, grown>> /\ UNCHANGED histVars
        /\ point' \in {"sin", "made"} /\ point \in {"cosCell", "sinCell"}
    BY <1>5 DEF ReadCos, ReadSin, histVars
  <2>3. /\ At(cells, laser) \in Int
        /\ Meant(At(cells, laser), laser) \/ (At(cells, laser) \in {Zero, Garbage} /\ grown)
        /\ ~overlap => At(cells, laser) = elev[laser]
    BY <1>2, <2>1, Found
  <2>4. seen' \in Seq(Int) /\ Readings'
    BY <1>1, <2>1, <2>2, <2>3, OneMore
  <2>5. Reader'
    BY <1>1, <2>2, <2>4 DEF Reader
  <2>. QED
    BY <2>4, <2>5
<1>6. CASE EndPoint \/ EndSave
  <2>1. laser' \in 0 .. Lasers - 1
    <3>1. Lasers \in Nat \ {0} /\ laser \in Nat
      BY <1>2, RowsAssumption DEF RowsAssumption
    <3>2. ((laser + 1) % Lasers) \in 0 .. Lasers - 1
      BY <3>1
    <3>. QED
      BY <1>2, <1>6, <3>2 DEF EndPoint, EndSave
  <2>2. /\ seen' = <<>> /\ point' = "idle" /\ UNCHANGED <<overlap, grown>> /\ ~stale'
        /\ stale' \in BOOLEAN
    <3>1. CASE EndPoint
      BY <3>1 DEF EndPoint, histVars
    <3>2. CASE EndSave
      <4>1. point = "save" /\ stale' = stale
        BY <3>2 DEF EndSave
      <4>2. ~stale /\ stale \in BOOLEAN
        BY <1>1, <4>1 DEF Reader
      <4>. QED
        BY <3>2, <4>1, <4>2 DEF EndSave, histVars
    <3>. QED
      BY <1>6, <3>1, <3>2
  <2>3. Reader'
    BY <1>1, <2>1, <2>2 DEF Reader
  <2>4. Readings'
    BY <2>2 DEF Readings
  <2>. QED
    BY <2>3, <2>4
<1>7. CASE BeginSave
  <2>1. /\ seen = <<>> /\ seen' = seen /\ laser' = laser /\ point' = "save" /\ point = "idle"
        /\ stale' = stale /\ ~stale
        /\ overlap' = (load # "idle") /\ grown' = (load # "idle" /\ longer)
    BY <1>1, <1>7 DEF BeginSave, Reader
  <2>2. /\ overlap' \in BOOLEAN /\ grown' \in BOOLEAN /\ (grown' => overlap')
        /\ ~overlap' => load = "idle"
        /\ ~grown' => load = "idle" \/ ~longer
    BY <1>1, <2>1, Zenon
  <2>3. Lasers \in Nat /\ Len(seen') = 0 /\ Len(seen') <= 2 * Lasers /\ Len(seen') % 2 = 0
    BY <2>1, RowsAssumption DEF RowsAssumption
  <2>4. Reader'
    BY <1>1, <1>2, <2>1, <2>2, <2>3 DEF Reader
  <2>5. Readings'
    BY <2>3 DEF Readings
  <2>. QED
    BY <2>4, <2>5
<1>8. CASE SaveRow
  <2>1. /\ seen' \in Seq(Int) /\ Len(seen') <= 2 * Lasers /\ Len(seen') % 2 = 0
        /\ Readings'
    BY <1>8, TwoMore
  <2>2. UNCHANGED <<point, laser, stale, overlap, grown>> /\ point = "save"
    BY <1>8 DEF SaveRow, histVars
  <2>. QED
    BY <1>1, <2>1, <2>2 DEF Reader
<1>. QED
  BY <1>3, <1>4, <1>5, <1>6, <1>7, <1>8 DEF Calculator

\* What both threads keep: whole rows outside the load, and no angle nobody meant unless
\* a load lengthens the vectors.
THEOREM Inductive == Spec => []IInv
<1>1. IInv /\ [Next]_vars => IInv'
  <2> SUFFICES ASSUME IInv, [Next]_vars PROVE IInv'
    OBVIOUS
  <2>1. CASE Loader
    <3>1. \A i \in 0 .. Lasers - 1 : Cells(i)' /\ Ordered(i)'
      BY <2>1, RowsStep
    <3>. QED
      BY <2>1, <3>1, ExtentStep, LoaderReader DEF IInv
  <2>2. CASE Calculator
    <3>1. UNCHANGED loadVars
      BY <2>2 DEF Calculator, BeginPoint, TakeCos, ReadCos, TakeSin, ReadSin, EndPoint,
                  BeginSave, SaveRow, EndSave
    <3>2. Extent'
      BY <3>1 DEF IInv, Extent, Resizing, Writing, loadVars
    <3>3. \A i \in 0 .. Lasers - 1 : Cells(i)' /\ Ordered(i)'
      BY <3>1 DEF IInv, Cells, Meant, Fresh, Ordered, Settled, Same, FromLast, Writing, Angle,
                  loadVars
    <3>. QED
      BY <2>2, <3>2, <3>3, CalculatorReader DEF IInv
  <2>3. CASE UNCHANGED vars
    <3>1. UNCHANGED loadVars /\ UNCHANGED calcVars /\ UNCHANGED histVars
      BY <2>3 DEF vars
    <3>2. Extent'
      BY <3>1 DEF IInv, Extent, Resizing, Writing, loadVars
    <3>3. \A i \in 0 .. Lasers - 1 : Cells(i)' /\ Ordered(i)'
      BY <3>1 DEF IInv, Cells, Meant, Fresh, Ordered, Settled, Same, FromLast, Writing, Angle,
                  loadVars
    <3>4. Reader' /\ Readings'
      BY <3>1 DEF IInv, Reader, Readings, RowOf, Meant, loadVars, calcVars, histVars
    <3>. QED
      BY <3>2, <3>3, <3>4 DEF IInv
  <2>. QED
    BY <2>1, <2>2, <2>3 DEF Next, Loader, Calculator
<1>. QED
  BY <1>1, InitHolds, PTL DEF Spec

-----------------------------------------------------------------------------
\* A point, and each row of a saved correction, that no load overlapped is all of one
\* load, the last whose content had the row, whatever the contents' lengths are.
THEOREM OneSourceHolds == Spec => []OneSource
<1>1. IInv => OneSource
  <2>. SUFFICES ASSUME IInv, point \in {"made", "save"}, ~overlap, NEW k \in DOMAIN seen
                PROVE  /\ FromLast(RowOf(k), seen[k])
                       /\ \A j \in DOMAIN seen : RowOf(j) = RowOf(k) => seen[j] = seen[k]
    BY DEF OneSource
  <2>1. /\ DOMAIN seen = 1 .. Len(seen) /\ load = "idle" /\ Len(seen) \in Nat
        /\ \A j \in DOMAIN seen : seen[j] = elev[RowOf(j)]
    BY DEF IInv, Reader, Readings
  <2>2. RowOf(k) \in 0 .. Lasers - 1
    <3>1. CASE point = "save"
      <4>1. Len(seen) <= 2 * Lasers /\ Lasers \in Nat
        BY <3>1, RowsAssumption DEF IInv, Reader, RowsAssumption
      <4>2. k \in Nat /\ 1 <= k /\ k <= 2 * Lasers
        BY <2>1, <4>1
      <4>3. ((k - 1) \div 2) \in 0 .. Lasers - 1
        BY <4>1, <4>2
      <4>. QED
        BY <3>1, <4>3 DEF RowOf
    <3>2. CASE point # "save"
      BY <3>2 DEF IInv, Reader, RowOf
    <3>. QED
      BY <3>1, <3>2
  <2>3. FromLast(RowOf(k), elev[RowOf(k)])
    BY <2>1, <2>2 DEF IInv, Ordered, Settled
  <2>. QED
    BY <2>1, <2>3
<1>. QED
  BY <1>1, Inductive, PTL

\* However loads and points interleave, and whatever the contents' lengths are, an angle
\* comes from memory nobody wrote, or that was freed, only while a load lengthens the
\* vectors; and what was on a load's stack, only in the row of a wrong id.
THEOREM NoGarbageHolds == Spec => []NoGarbage
<1>1. IInv => NoGarbage
  <2>. SUFFICES ASSUME IInv, NEW k \in DOMAIN seen
                PROVE  /\ seen[k] \in {Garbage, Zero} => grown
                       /\ seen[k] = Stack => WrongAt(RowOf(k))
    BY DEF NoGarbage
  <2>1. Meant(seen[k], RowOf(k)) \/ (seen[k] \in {Zero, Garbage} /\ grown)
    BY DEF IInv, Reader, Readings
  <2>. QED
    BY <2>1 DEF Meant, Garbage, Zero, Stack
<1>. QED
  BY <1>1, Inductive, PTL

=============================================================================
