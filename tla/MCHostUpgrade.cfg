SPECIFICATION FairSpec
CONSTANTS
  o1 = o1
  o2 = o2
  v0 = v0
  v1 = v1
  None = None
  Ops = {o1, o2}
  Versions = {v0, v1}
  Installed = v0
  MaxCrashes = 2
  MaxFaults = 1
  MaxEarly = 1
CHECK_DEADLOCK FALSE
INVARIANTS BootSafe JournalMatchesDisk
PROPERTIES OldNeverReadsNew  BadTrialAbandoned
