\* Two updates, so that one prunes the rollback point of the other; a second power
\* loss during the recovery of the first; one failing command and one request.
\* CHECK_DEADLOCK FALSE: a failed recovery waits for an operator.
SPECIFICATION Spec
CONSTANTS
  None = None
  Ops = {o1, o2}
  Releases = {r1, r2}
  Installed = r1
  Datasets = {d1, d2}
  MaxCrashes = 2
  MaxFaults = 1
  MaxActions = 1
CHECK_DEADLOCK FALSE
INVARIANTS OutcomeSafe OldNeverReadsNew RollbackPointKept
PROPERTIES RecoverSettles CommittedStays
