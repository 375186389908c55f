\* Two routers in turn and two ports, or an observer, and a port with a token;
\* an edge of two pods, two trunk connections, two ports before and after a
\* restart.
SPECIFICATION BothSpec
CONSTANTS
  Routers = {r1, r2}
  Observers = {o1}
  NoRouter = NoRouter
  MaxPorts = 2
  MaxAgents = 2
  MaxTokens = 1
  Pods = {p1, p2}
  MaxConns = 2
  MaxEdgePorts = 2
  MaxBoots = 2
SYMMETRY Alike
CONSTRAINT Explored
INVARIANTS MapsSound ViewTracksPorts NoStrangeToken NoPortMissed
CHECK_DEADLOCK FALSE
