SPECIFICATION FairSpec
CONSTANTS
  Conns = {c1}
  NoConn = NoConn
  Tubes = {default}
  NoTube = NoTube
  Default = default
  MaxJobs = 1
  Pris = {0}
  UrgentThreshold = 1
  Delays = {0}
  RelDelays = {1}
  Ttrs = {1}
  PauseDelays = {}
  Nums = {}
  Second = 2
  DefaultPeriod = 3
PROPERTY TtrEnds
