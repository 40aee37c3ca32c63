SPECIFICATION PortFairSpec
CONSTANTS
  Dockers = {w1, w2, w3}
  SigThread = Sig
  NoThread = Nobody
  Loads = {1, 2}
  MaxShips = 2
  MaxSpurious = 1
INVARIANTS
  EachPackageOnce
PROPERTIES
  FlowSpec
  PortCloses
  ShipUnloaded
