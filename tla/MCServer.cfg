SPECIFICATION Spec
CONSTANTS
  Connections = {c1, c2, c3}
  MaxConnections = 2
INVARIANTS WorkersWithinLimit StopClosesEveryone
PROPERTIES StopReturns PeersAreAnswered WorkersEnd
