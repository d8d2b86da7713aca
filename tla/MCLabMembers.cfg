SPECIFICATION Spec
CONSTANTS
  a = a
  b = b
  c = c
  x = x
  y = y
  z = z
  Nodes = {a, b, c}
  Founders = {a, b, c}
  Tokens = {}
  Addrs = {x, y, z}
  JoinAddrs = {}
  Home <- MCHome
  Removals = {o1, o2}
  Inviters = {a}
  Removable = {b}
  Rotators = {b}
  None = None
  MaxFaults = 1
  MaxRequests = 2
CHECK_DEADLOCK FALSE
INVARIANTS  RemovedStaysOut
PROPERTIES RemovalTakesEffect
