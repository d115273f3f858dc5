----------------------------- MODULE FrameStream -----------------------------
(***************************************************************************)
(* What cutting a stream of packets into frames promises, without saying   *)
(* where it cuts: a frame is everything calculated and packed since the    *)
(* frame before, no more and no less.  Points are in bags, so that one     *)
(* handed over twice would show; their order in a frame is left open.      *)
(***************************************************************************)
EXTENDS Integers, SequencesExt

CONSTANTS
  Blocks,    \* blocks in a packet
  Lasers     \* lasers of the lidar

VARIABLES
  emptyToo,  \* may a frame have no points?
  number,    \* packets accepted; the current one's number
  block,     \* the next block of the current packet; Blocks when done
  valid,     \* the lasers with a valid return in the current packet
  turn,      \* the turn the points of a block belong to: any label will do
  pending,   \* points calculated and not yet in a frame
  raw,       \* packets accepted and not yet in a raw scan
  frames     \* the frames: points and raw scan

streamVars == <<emptyToo, number, block, valid, turn, pending, raw, frames>>

StreamInit ==
  /\ emptyToo \in BOOLEAN
  /\ number = 0 /\ block = Blocks /\ valid = {}
  /\ pending = EmptyBag /\ raw = <<>> /\ frames = <<>>

Accept ==
  /\ block = Blocks
  /\ number' = number + 1 /\ raw' = Append(raw, number + 1)
  /\ valid' \in SUBSET (0 .. Lasers - 1)
  /\ block' = 0
  /\ UNCHANGED <<emptyToo, pending, frames>>

Fresh ==
  SetToBag({[packet |-> number, block |-> block, ring |-> r, turn |-> turn'] : r \in valid})

AddPoints ==
  /\ block < Blocks
  /\ pending' = pending (+) Fresh
  /\ block' = block + 1
  /\ UNCHANGED <<emptyToo, number, valid, raw, frames>>

\* The frame ends before the block that shows it is over.
EndFrame ==
  /\ block < Blocks
  /\ pending # EmptyBag \/ emptyToo
  /\ frames' = Append(frames, [points |-> pending, scan |-> raw])
  /\ pending' = Fresh /\ raw' = <<>>
  /\ block' = block + 1
  /\ UNCHANGED <<emptyToo, number, valid>>

\* A restart of the thread loses the raw scan under way, and only that.
DropScan ==
  /\ block = Blocks
  /\ raw' = <<>>
  /\ UNCHANGED <<emptyToo, number, block, valid, pending, frames>>

StreamNext == Accept \/ AddPoints \/ EndFrame \/ DropScan

StreamSpec == StreamInit /\ [][StreamNext]_streamVars
=============================================================================
