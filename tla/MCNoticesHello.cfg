\* One router attaches while a port comes or goes.
SPECIFICATION BothSpec
CONSTANTS
  Routers = {r1}
  Observers = {}
  NoRouter = NoRouter
  MaxPorts = 1
  MaxAgents = 1
  MaxTokens = 0
  Pods = {}
  MaxConns = 1
  MaxEdgePorts = 0
  MaxBoots = 1
INVARIANT HelloResyncs
CHECK_DEADLOCK FALSE
