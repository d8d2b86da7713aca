SPECIFICATION Spec
CONSTANTS
  a = a
  b = b
  c = c
  x = x
  y = y
  z = z
  Nodes = {a, b, c}
  Founders = {a, b}
  Tokens = {t1}
  Addrs = {x, y, z}
  JoinAddrs = {y, z}
  Home <- MCHome
  Removals = {o1}
  Inviters = {a}
  Removable = {a, b, c}
  Rotators = {}
  None = None
  MaxFaults = 1
  MaxRequests = 1
CHECK_DEADLOCK FALSE
INVARIANTS JoinSafe
PROPERTIES LabDataKept 
