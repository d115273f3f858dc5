CONSTANTS
  Drivers = {camera, lidar}
  MaxCrashes = 0
  MaxInterrupts = 1
  MaxFails = 0
SPECIFICATION Spec
PROPERTY InterruptStopsAll
