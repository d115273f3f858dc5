CONSTANTS
  Drivers = {camera, lidar}
  MaxCrashes = 2
  MaxInterrupts = 2
  MaxFails = 1
SPECIFICATION Spec
INVARIANT EndedMeansDown
PROPERTIES Recovers InterruptInRvizEnds
