SPECIFICATION Spec
CONSTANTS
  Cols = 3
  Rows = 2
  SLOTS <- TwoSlots
  Machines <- FewMachines
  Hosts = {h1}
  MaxBoxes = 2
  Tools = {"select", "erase", "switch", "belt", "hub", "filter"}
  MaxBirds = 2
  MaxEdits = 1
  Second = 4
  MeterLimits = {2, 3, 4}
  Lengths = {1, 2}
  Keys = {k1, k2, k3}
  TableNames = {t1}
  Travels = {0, 1}
  MaxTable = 2
  TableTTL = 2
INVARIANTS FloorSound RefreshedAsDrawn WallsHold OnlySurplusShaped HitsAreTrue
PROPERTY PanelKeepsMachine
CHECK_DEADLOCK FALSE
