----------------------------- MODULE MCLifecycle -----------------------------
(* Lifecycle for TLC: as many clients as calls of Start, and the answers of a *)
(* lidar: a calibration, contents of no byte and of a byte that is no row, an *)
(* error, and something else.                                                 *)
EXTENDS Lifecycle

StartIds == 1 .. MaxStarts

Answered(n, holdsRow) == [magic |-> TRUE, code |-> 0, len |-> n, rows |-> holdsRow]

SomeAnswers ==
  {Answered(0, FALSE), Answered(1, FALSE), Answered(2, TRUE),
   [magic |-> TRUE, code |-> 1, len |-> 1, rows |-> FALSE],
   [magic |-> FALSE, code |-> 0, len |-> 1, rows |-> FALSE]}
=============================================================================
