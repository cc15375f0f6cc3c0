SPECIFICATION Spec
CONSTANTS
  Conns = {c1, c2}
  NoConn = NoConn
  Tubes = {default}
  NoTube = NoTube
  Default = default
  MaxJobs = 2
  Pris = {0, 1}
  UrgentThreshold = 1
  Delays = {0, 1}
  RelDelays = {1}
  Ttrs = {1}
  PauseDelays = {}
  Nums = {101, 102, 11}
  Second = 2
  DefaultPeriod = 3
SYMMETRY ConnSymmetry
INVARIANTS JobsPlaced ReservedOnce NoOrphans SoonestFresh OutJobHeld TimelyWake StatsExact
PROPERTY KeepsPromise
