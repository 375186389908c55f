\* Two pages, both with the game's clock, and a loft; nothing else happens.
SPECIFICATION Spec
CONSTANTS
  Pages = {p1, p2}
  Timed = {p2}
  NoPage = nobody
  MaxWait = 2
  Alice = alice
  Bob = bob
  Hosts = {alice, bob}
  Broadcast = everybody
  MaxPorts = 2
  MaxNotices = 0
  FrameIds = {}
  NoKind = none
  Limit = 0
  Pods = {}
  MaxSessions = 0
  MaxOutput = 0
INVARIANT BackoffCalms
CHECK_DEADLOCK FALSE
