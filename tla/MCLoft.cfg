\* A router and an observer that may stop reading for a while, and a second
\* router that bumps the first; one port, whose frames meet a buffer of one.
SPECIFICATION LoftSpec
CONSTANTS
  Routers = {r1, r2}
  Observers = {o1}
  Sluggish = {r1, o1}
  NoRouter = NoRouter
  MaxPorts = 1
  MaxFrames = 2
  MaxRx = 2
  MaxInbox = 1
  MaxBuffered = 1
  BufTTL = 1
INVARIANTS
  OneWayOut
  CountersExact
  FloodIsNoDrop
  RouterKept
  IInv
PROPERTIES
  Lifecycle
  FramesLeave
CHECK_DEADLOCK FALSE
