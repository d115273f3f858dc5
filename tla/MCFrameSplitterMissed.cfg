\* Packets may be lost in between.
CONSTANTS
  Circle = 6
  Gap = 3
  Blocks = 2
  Lasers = 2
  Traffics <- LossyTraffic
SPECIFICATION Spec
PROPERTIES StepOverStartPublishes
