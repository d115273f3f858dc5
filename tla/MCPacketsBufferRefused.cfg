CONSTANTS
  N = 6
  Window = 3
  MaxArrived = 14
  MaxTaken = 14
SPECIFICATION Spec
PROPERTIES RefusedOnlyWhenFull
CHECK_DEADLOCK FALSE
