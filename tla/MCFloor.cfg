\* More hosts than slots, two ports; three addresses on a database for two;
\* three frames, three pigeons, a queue of two, one restart of the loft.
SPECIFICATION FloorSpec
CONSTANTS
  Hosts = {h1, h2, h3}
  NoHost = NoHost
  NumSlots = 2
  MaxIds = 2
  Macs = {m1, m2, m3}
  Lanes = {l1, l2}
  MaxEntries = 2
  FdbTTL = 1
  MaxFrames = 3
  MaxRestarts = 1
  MaxPigeons = 3
  MaxQueue = 2
  MaxAsked = 2
SYMMETRY Alike
INVARIANTS SlotsAgree ShownAsIs FdbTrue RightWay NoFrameForgotten OneVerdict
