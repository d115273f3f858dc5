SPECIFICATION Spec
CONSTANTS
  Types = {"Pandar40P", "Pandar64", "Pandar20A", "Pandar20B", "PandarQT",
           "PandarXT-32", "PandarXT-16", "PandarXTM", "Pandar40M", "XT", "other"}
  Echoes = {0, 5, 55, 56, 57, 59, 60, 61}
  Blocks64 = {6, 7}
INVARIANTS
  BytesInPacket
  PcapAgrees
  FiringsInOrder
  CellsWritten
  ReturnsTogether
  AnglesInRange
