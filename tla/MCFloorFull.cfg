\* Two frames share a flock of two.
SPECIFICATION FloorSpec
CONSTANTS
  Hosts = {h1}
  NoHost = NoHost
  NumSlots = 1
  MaxIds = 1
  Macs = {m1}
  Lanes = {l1}
  MaxEntries = 1
  FdbTTL = 1
  MaxFrames = 2
  MaxRestarts = 0
  MaxPigeons = 2
  MaxQueue = 2
  MaxAsked = 2
INVARIANT EndsInOneState
