SPECIFICATION Spec
CONSTANTS
  t1 = t1
  t2 = t2
  n1 = n1
  n2 = n2
  p1 = p1
  Keys = {k1}
  Candidates <- MCCandidates
  Edits <- MCEdits
  Stacks = {s1, s2}
  SvcAddrs <- MCSvcAddrs
  Tops <- MCTops
  LeaseNet <- MCLeaseNet
  Pool = p1
  PoolNet = n1
  None = None
  Dhcp = Dhcp
  Absent = Absent
  Invalid = Invalid
  MaxFaults = 1
  MaxEdits = 1
CHECK_DEADLOCK FALSE
INVARIANTS  AddressesOwned
 
