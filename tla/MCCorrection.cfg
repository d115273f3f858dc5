SPECIFICATION Spec
CONSTANTS
  Lasers = 3
  MaxRows = 5
  Contents <- AnyLength
  MaxLoads = 3
INVARIANTS
  OneSource
  NoGarbage
