SPECIFICATION LoopFair
CONSTANTS
  Conns = {c1, c2}
  Backend = "kqueue"
  MaxRefused = 1
  MaxJobs = 2
  MaxPipe = 2
INVARIANTS LoopInv Registered ClosedIsGone
PROPERTIES Applied Heard
