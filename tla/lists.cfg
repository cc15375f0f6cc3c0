SPECIFICATION ListSpec
CONSTANTS
  Jobs = {j1, j2, j3, j4}
  Conns = {c1, c2}
  Buried = Buried
INVARIANTS ListInv  
CHECK_DEADLOCK FALSE
