SPECIFICATION Spec
CONSTANTS
  Frames = {f1, f2, f3}
  NoFrame = NoFrame
  Places = {c1}
  SinkPorts = {p1, p2}
  NoSink = NoSink
  MaxBalls = 2
  MaxMsgs = 1
  Packets = {k1, k2}
  Outlets = {o1}
  Suction = suck
  Particles = 2
  Ring = 2
  Batch = 1
  HopperCap = 1
  MaxPoured = 1
  Cells = {"a", "b", "c", "d"}
  Circle <- TwoTurns
  MaxDockIds = 2
INVARIANTS SlotsSound FrameInOnePlace ThreadsAgree
  PacketInOnePlace PhysicsMirrors
PROPERTY BallsDecided
CHECK_DEADLOCK FALSE
