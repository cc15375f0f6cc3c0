SPECIFICATION Spec
CONSTANTS
  Items = {1, 2, 3}
  Conns = {c1, c2}
  NoConn = NoConn
PROPERTY NeverTwice
