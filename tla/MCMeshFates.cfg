\* An edge, a frame, a verdict, and a trunk that breaks once.
SPECIFICATION Spec
CONSTANTS
  Edges = {e1}
  Gateway = gw
  MaxConns = 1
  MaxBoots = 1
  MaxFrames = 1
  MaxIngests = 1
  MaxBreaks = 1
  MaxRemovals = 0
  MaxVerdicts = 1
INVARIANTS ExactlyOneState
CHECK_DEADLOCK FALSE
