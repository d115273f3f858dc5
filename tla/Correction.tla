----------------------------- MODULE Correction ------------------------------
(***************************************************************************)
(* The angles of the lasers: LoadCorrectionFile writes them row by row on  *)
(* the calibration thread (or the node's), and nothing keeps the process   *)
(* thread from computing points with them, or from saving them into a raw  *)
(* scan, at the same time.                                                 *)
(*                                                                         *)
(* An angle is the number of the load it comes from: 0 for the angles Init *)
(* wrote, Stack for a local cell of a load that it did not write, Zero for *)
(* what a vector puts into new elements, and Garbage for memory nobody     *)
(* wrote or that has been freed.  A load is of a content, a sequence of    *)
(* lines after the header: "row" is a line with the right laser id,        *)
(* "wrong" one with another id, "short" one of less than five characters.  *)
(*                                                                         *)
(* The sines and cosines are in vectors, which grow as libstdc++'s do: in  *)
(* place while the storage suffices; else the elements are copied to new   *)
(* storage, the old storage is freed, and only then does the vector point  *)
(* to the new.  A vector that is shortened keeps its storage and what is   *)
(* in it.  The process thread takes the address of the storage first and   *)
(* the cell after it, and checks no size.                                  *)
(***************************************************************************)
EXTENDS Integers, SequencesExt

CONSTANTS
  Lasers,     \* the lidar's lasers, the rows Init writes
  MaxRows,    \* the size of the arrays General_..._map_
  Contents,   \* the contents that may be loaded
  MaxLoads    \* bound on the loads

ASSUME RowsAssumption == Lasers \in Nat \ {0} /\ MaxRows \in Nat /\ Lasers <= MaxRows
ASSUME ContentsAssumption ==
  \A c \in Contents : c \in Seq({"row", "wrong", "short"}) /\ Len(c) <= MaxRows

Garbage == -1
Zero == -2
Stack == -3

VARIABLES
  elev, azimuth,  \* General_elev_angle_map_, General_horizatal_azimuth_offset_map_
  sinMap, cosMap, \* the storage of m_sin_elevation_map_, m_cos_elevation_map_
  size,           \* the elements of both, of those in a resize the elements before it
  load,           \* where the loader is: "idle" or its next assignment
  rows, read,     \* its lineCounter, and how many rows it read from the content
  row,            \* the row it writes
  loads,          \* loads begun
  point,          \* where the process thread is: "idle" or its next read
  laser,          \* its laser
  stale,          \* is the storage freed whose address it has taken?
  seen,           \* the angles the point, or the rows saved so far, were read from
  overlap,        \* was a load under way since the point or the save began?
  longer,         \* does the load under way, or the last, lengthen the vectors?
  grown           \* was one that does under way since the point or the save began?

loadVars == <<elev, azimuth, sinMap, cosMap, size, load, rows, read, row, loads, longer>>
calcVars == <<point, laser, stale, seen>>
histVars == <<overlap, grown>>
vars == <<loadVars, calcVars, histVars>>

Init ==
  /\ elev = [i \in 0 .. MaxRows - 1 |-> IF i < Lasers THEN 0 ELSE Garbage]
  /\ azimuth = elev
  /\ sinMap = [i \in 1 .. Lasers |-> 0] /\ cosMap = sinMap /\ size = Lasers
  /\ load = "idle" /\ rows = 0 /\ read = 0 /\ row = 0 /\ loads = 0
  /\ point = "idle" /\ laser = 0 /\ stale = FALSE /\ seen = <<>>
  /\ overlap = FALSE /\ longer = FALSE /\ grown = FALSE

-----------------------------------------------------------------------------
(* LoadCorrectionFile. *)

IsRow(line) == line = "row"

\* The rows read: all up to the first line that is not one.
RowsRead(content) ==
  LET stop == SelectInSeq(content, LAMBDA line : ~IsRow(line))
  IN  IF stop = 0 THEN Len(content) ELSE stop - 1

\* lineCounter: a line with a wrong id has been counted when the loop ends.
LineCounter(content) ==
  IF RowsRead(content) < Len(content) /\ content[RowsRead(content) + 1] = "wrong"
    THEN RowsRead(content) + 1 ELSE RowsRead(content)

Parse ==
  /\ load = "idle" /\ loads < MaxLoads
  /\ \E content \in Contents :
       rows' = LineCounter(content) /\ read' = RowsRead(content)
  /\ loads' = loads + 1 /\ row' = 0 /\ load' = "resizeSin"
  /\ overlap' = TRUE /\ longer' = (rows' > size) /\ grown' = (grown \/ longer')
  /\ UNCHANGED <<elev, azimuth, sinMap, cosMap, size, calcVars>>

\* Mistake: the elements there are are set anew as well.
InPlaceAnew(cells, n) == [i \in 1 .. Len(cells) |-> IF i <= n THEN Zero ELSE cells[i]]
InPlace(cells, n) ==
  [i \in 1 .. Len(cells) |-> IF size < i /\ i <= n THEN Zero ELSE cells[i]]

\* The new storage, twice as large as the elements were, or as large as needed.
Moved(cells, n) ==
  [i \in 1 .. Max({2 * size, n}) |->
     CASE i <= size -> cells[i] [] size < i /\ i <= n -> Zero [] OTHER -> Garbage]

\* vector::resize, when the storage suffices; or its beginning up to the freeing of
\* the old storage, whose address the process thread may have taken; and its end.
ResizeSin ==
  /\ load = "resizeSin" /\ rows <= Len(sinMap)
  /\ sinMap' = InPlace(sinMap, rows) /\ load' = "resizeCos"
  /\ UNCHANGED <<elev, azimuth, cosMap, size, rows, read, row, loads, longer, calcVars, histVars>>

FreeSin ==
  /\ load = "resizeSin" /\ rows > Len(sinMap)
  /\ load' = "moveSin" /\ stale' = (stale \/ point = "sinCell")
  /\ UNCHANGED <<elev, azimuth, sinMap, cosMap, size, rows, read, row, loads, longer,
                 point, laser, seen, histVars>>

MoveSin ==
  /\ load = "moveSin"
  /\ sinMap' = Moved(sinMap, rows) /\ load' = "resizeCos"
  /\ UNCHANGED <<elev, azimuth, cosMap, size, rows, read, row, loads, longer, calcVars, histVars>>

NextRow == IF rows > 0 THEN "elev" ELSE "idle"

ResizeCos ==
  /\ load = "resizeCos" /\ rows <= Len(cosMap)
  /\ cosMap' = InPlace(cosMap, rows) /\ size' = rows /\ load' = NextRow
  /\ UNCHANGED <<elev, azimuth, sinMap, rows, read, row, loads, longer, calcVars, histVars>>

FreeCos ==
  /\ load = "resizeCos" /\ rows > Len(cosMap)
  /\ load' = "moveCos" /\ stale' = (stale \/ point = "cosCell")
  /\ UNCHANGED <<elev, azimuth, sinMap, cosMap, size, rows, read, row, loads, longer,
                 point, laser, seen, histVars>>

MoveCos ==
  /\ load = "moveCos"
  /\ cosMap' = Moved(cosMap, rows) /\ size' = rows /\ load' = NextRow
  /\ UNCHANGED <<elev, azimuth, sinMap, rows, read, row, loads, longer, calcVars, histVars>>

\* The local arrays hold nothing for a row that was counted but not read.
Angle == IF row < read THEN loads ELSE Stack

WriteElev ==
  /\ load = "elev"
  /\ elev' = [elev EXCEPT ![row] = Angle] /\ load' = "sin"
  /\ UNCHANGED <<azimuth, sinMap, cosMap, size, rows, read, row, loads, longer, calcVars, histVars>>

WriteSin ==
  /\ load = "sin"
  /\ sinMap' = [sinMap EXCEPT ![row + 1] = elev[row]] /\ load' = "cos"
  /\ UNCHANGED <<elev, azimuth, cosMap, size, rows, read, row, loads, longer, calcVars, histVars>>

WriteCos ==
  /\ load = "cos"
  /\ cosMap' = [cosMap EXCEPT ![row + 1] = elev[row]] /\ load' = "azimuth"
  /\ UNCHANGED <<elev, azimuth, sinMap, size, rows, read, row, loads, longer, calcVars, histVars>>

\* Mistake: the loop ends a row early.
LastRowEarly == rows - 2
LastRow == rows - 1

\* The last assignment of a row; the load ends with the last row and returns 0.
WriteAzimuth ==
  /\ load = "azimuth"
  /\ azimuth' = [azimuth EXCEPT ![row] = Angle]
  /\ row' = row + 1 /\ load' = IF row >= LastRow THEN "idle" ELSE "elev"
  /\ UNCHANGED <<elev, sinMap, cosMap, size, rows, read, loads, longer, calcVars, histVars>>

-----------------------------------------------------------------------------
(* The process thread: Calc...PointXYZIT and SaveCorrectionFile. *)

\* A cell behind the storage, or in storage that has been freed, holds anything.
At(cells, i) == IF ~stale /\ i < Len(cells) THEN cells[i + 1] ELSE Garbage

BeginPoint ==
  /\ point = "idle"
  /\ point' = "cos" /\ seen' = <<azimuth[laser]>>
  /\ overlap' = (load # "idle") /\ grown' = (load # "idle" /\ longer)
  /\ UNCHANGED <<loadVars, laser, stale>>

TakeCos ==
  /\ point = "cos"
  /\ point' = "cosCell" /\ stale' = (load = "moveCos")
  /\ UNCHANGED <<loadVars, laser, seen, histVars>>

ReadCos ==
  /\ point = "cosCell"
  /\ point' = "sin" /\ seen' = Append(seen, At(cosMap, laser))
  /\ UNCHANGED <<loadVars, laser, stale, histVars>>

TakeSin ==
  /\ point = "sin"
  /\ point' = "sinCell" /\ stale' = (load = "moveSin")
  /\ UNCHANGED <<loadVars, laser, seen, histVars>>

ReadSin ==
  /\ point = "sinCell"
  /\ point' = "made" /\ seen' = Append(seen, At(sinMap, laser))
  /\ UNCHANGED <<loadVars, laser, stale, histVars>>

EndPoint ==
  /\ point = "made"
  /\ point' = "idle" /\ seen' = <<>> /\ laser' = (laser + 1) % Lasers /\ stale' = FALSE
  /\ UNCHANGED <<loadVars, histVars>>

\* Before a frame is handed on its rows are saved one after the other.
BeginSave ==
  /\ point = "idle" /\ laser = 0
  /\ point' = "save" /\ overlap' = (load # "idle") /\ grown' = (load # "idle" /\ longer)
  /\ UNCHANGED <<loadVars, laser, stale, seen>>

SaveRow ==
  /\ point = "save" /\ Len(seen) < 2 * Lasers
  /\ LET i == Len(seen) \div 2 IN seen' = seen \o <<elev[i], azimuth[i]>>
  /\ UNCHANGED <<loadVars, point, laser, stale, histVars>>

EndSave ==
  /\ point = "save" /\ Len(seen) = 2 * Lasers
  /\ point' = "idle" /\ seen' = <<>>
  /\ UNCHANGED <<loadVars, laser, stale, histVars>>

Next ==
  \/ Parse \/ ResizeSin \/ FreeSin \/ MoveSin \/ ResizeCos \/ FreeCos \/ MoveCos
  \/ WriteElev \/ WriteSin \/ WriteCos \/ WriteAzimuth
  \/ BeginPoint \/ TakeCos \/ ReadCos \/ TakeSin \/ ReadSin \/ EndPoint
  \/ BeginSave \/ SaveRow \/ EndSave

Spec == Init /\ [][Next]_vars

-----------------------------------------------------------------------------
\* The row the k-th angle of the point or of the save is of.
RowOf(k) == IF point = "save" THEN (k - 1) \div 2 ELSE laser

\* The angles of a row between loads: those of the last load, if its content had the
\* row, what was on the stack, if it stopped there, and else those of an older load.
FromLast(i, angle) ==
  /\ i < read => angle = loads
  /\ read <= i /\ i < rows => angle = Stack

\* A point, and each row of a saved correction, that no load overlapped has all its
\* angles from one load, and that is the last unless its content was too short for
\* the row: the angles of two loads meet only while one is written, although no lock
\* separates the threads, and although a short content leaves the vectors shorter
\* than the lidar has lasers.
OneSource ==
  point \in {"made", "save"} /\ ~overlap =>
    \A k \in DOMAIN seen :
      /\ FromLast(RowOf(k), seen[k])
      /\ \A j \in DOMAIN seen : RowOf(j) = RowOf(k) => seen[j] = seen[k]

\* Some content has a line with a wrong laser id where row i should be.
WrongAt(i) == \E content \in Contents : RowsRead(content) = i /\ LineCounter(content) = i + 1

\* Even while a load is under way no angle comes from memory that nobody wrote or
\* that was freed, and none is the zero of a new element, unless a load lengthens the
\* vectors in the meantime; and what was on the stack of a load is an angle only of
\* the row where a content has a wrong id.
NoGarbage ==
  \A k \in DOMAIN seen :
    /\ seen[k] \in {Garbage, Zero} => grown
    /\ seen[k] = Stack => WrongAt(RowOf(k))
=============================================================================
