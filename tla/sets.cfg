SPECIFICATION SetFair
CONSTANTS
  Conns = {c1, c2, c3}
  Tubes = {d, t}
  Default = d
  Burst = 1
INVARIANTS SetInv WaitsWhereItWatches
PROPERTIES EveryoneServed
