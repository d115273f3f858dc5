SPECIFICATION Spec
CONSTANTS
  Scans = 4
  PerScan = 2
  Depth = 2
  Republish = FALSE
  FileExists = TRUE
  Broken = {2}
  N = 4
  Window = 2
  MaxArrived = 6
  MaxTaken = 5
  Captures <- SomeCaptures
  GapCount = 2
  Garbage <- SomeGarbage
  Counts <- SomeCounts
  MaxNow = 7
CHECK_DEADLOCK FALSE
INVARIANTS
  TypeOK
  Continuous
  SettledAngles
PROPERTIES
  AllButNewestProcessed
  OnSchedule
