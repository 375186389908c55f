\* Two edges that stay up, a frame of one of them or of the gateway, two verdicts;
\* or a lone edge that breaks off and restarts, and one verdict.
SPECIFICATION MeshSpec
CONSTANTS
  Edges = {e1, e2}
  Gateway = gw
  MaxConns = 2
  MaxBoots = 2
  MaxFrames = 2
  MaxIngests = 1
  MaxBreaks = 1
  MaxRemovals = 1
  MaxVerdicts = 2
SYMMETRY EdgeSymmetry
INVARIANTS BookSound ConsumedOnce DeliveredAsOrdered OneFate
CHECK_DEADLOCK FALSE
