SPECIFICATION Spec
CONSTANTS
  QueueSize = 2
  GpsPause = 2
  MaxLidar = 4
  MaxBad = 1
CHECK_DEADLOCK FALSE
INVARIANTS
  TypeOK
  PushedInOrder
  GarbageOnlyFromBad
PROPERTY LidarServed
