SPECIFICATION WalFair
CONSTANTS
  MaxJobs = 3
  Kinds = {"plain", "long"}
  Extra <- ExtraSizes
  TooBig = {}
  Foreign = {}
  Ops = {"put", "put-delay", "delete", "bury", "release", "release-delay"}
  Cost <- Costs
  Short = 2
  FileSize = 11
  MaxFiles = 14
  MaxRoom = 2
  MaxCmds = 5
  MaxFaults = 2
  OpenCost = 2
  Legacy = {5}
INVARIANTS Durable NoGhosts WalInv AliveExact Budget NoInternalError
PROPERTY ComesBack
CHECK_DEADLOCK FALSE
