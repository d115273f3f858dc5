------------------------------ MODULE MCReplay -------------------------------
(* Replay for TLC: captures of a lidar with GPS datagrams in between, without *)
(* and with a longer datagram that is neither.                                *)
EXTENDS Replay

Lidar(t) == [kind |-> "lidar", time |-> t]
Short == [kind |-> "short", time |-> 1]
Long == [kind |-> "long", time |-> 1]

SomeCaptures ==
  {<<Lidar(1), Lidar(2), Short, Lidar(4), Lidar(5), Lidar(6)>>,
   <<Short, Lidar(1), Long, Lidar(3), Lidar(4), Lidar(5)>>}

\* A first word of 0 is no time; what was on the stack may be below or past gap.
SomeGarbage == {0, 9}
SomeCounts == {-1, GapCount}
=============================================================================
