SPECIFICATION Spec
CONSTANTS
  Pages = {p1, p2}
  Timed = {p2}
  NoPage = nobody
  MaxWait = 2
  Alice = alice
  Bob = bob
  Hosts = {alice, bob}
  Broadcast = everybody
  MaxPorts = 4
  MaxNotices = 2
  FrameIds = {1, 2}
  NoKind = none
  Limit = 1
  Pods = {"a"}
  MaxSessions = 1
  MaxOutput = 1
CHECK_DEADLOCK FALSE
INVARIANTS OneSourceEach HeardIsReached NothingMissed OpenIsRemembered
PROPERTIES FactoryInTheEnd SimIsSolved ShellsEnd
