SPECIFICATION Spec
CONSTANTS
  Conns = {c1}
  NoConn = NoConn
  Tubes = {default, t2}
  NoTube = NoTube
  Default = default
  MaxJobs = 2
  Pris = {0, 1}
  UrgentThreshold = 1
  Delays = {0}
  RelDelays = {0}
  Ttrs = {1}
  PauseDelays = {0}
  Nums = {101}
  Second = 1
  DefaultPeriod = 2
PROPERTY MostUrgentFirst
