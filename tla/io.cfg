SPECIFICATION IOFair
CONSTANTS
  Kinds = {"cmd", "put", "putin", "big", "long"}
  Scripts <- MCScripts
  LineSize <- MCLineSize
  BodySize <- MCBodySize
  InnerCR <- MCInnerCR
  LineBufSize = 12
  BucketBufSize = 3
  MayLeave = {"eof", "reset"}
INVARIANTS IOInv InTurn
PROPERTY AllAnswered
CHECK_DEADLOCK FALSE
