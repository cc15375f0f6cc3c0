SPECIFICATION Spec
CONSTANTS
  Conns = {c1, c2}
  NoConn = NoConn
  Tubes = {default, t2}
  NoTube = NoTube
  Default = default
  MaxJobs = 1
  Pris = {0}
  UrgentThreshold = 1
  Delays = {0}
  RelDelays = {0}
  Ttrs = {1}
  PauseDelays = {0}
  Nums = {}
  Second = 1
  DefaultPeriod = 2
SYMMETRY ConnSymmetry
INVARIANTS TypeOK Housekeeping WaitersAreWaiting WorkConserving
