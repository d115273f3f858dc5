\* A lidar that turns without gaps, and one of which nothing is known.
CONSTANTS
  Circle = 6
  Gap = 3
  Blocks = 2
  Lasers = 2
  Traffics <- AllTraffic
SPECIFICATION Spec
INVARIANTS TypeOK ScanCoversFrame FramesAreTurns LabelledAfterFirst
PROPERTIES ImplementsStream TurnEnds
