SPECIFICATION FairSpec
CONSTANTS
  Conns = {c1}
  NoConn = NoConn
  Tubes = {default}
  NoTube = NoTube
  Default = default
  MaxJobs = 2
  Pris = {0, 1}
  UrgentThreshold = 1
  Delays = {0, 1}
  RelDelays = {1}
  Ttrs = {1}
  PauseDelays = {1}
  Nums = {101}
  Second = 2
  DefaultPeriod = 3
PROPERTIES DelayEnds LoopReturns
