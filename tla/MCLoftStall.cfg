\* The same kind of loft with consumers that may stop reading for good.
SPECIFICATION LiveSpec
CONSTANTS
  Routers = {r1}
  Observers = {o1}
  Sluggish = {r1, o1}
  NoRouter = NoRouter
  MaxPorts = 1
  MaxFrames = 2
  MaxRx = 2
  MaxInbox = 1
  MaxBuffered = 2
  BufTTL = 1
PROPERTIES
  FramesLeave
CHECK_DEADLOCK FALSE
