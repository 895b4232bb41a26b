\* A batch child cancelled at any moment of its dispatch and reconciliation.
SPECIFICATION Spec
CONSTANTS
  dispatch1 = dispatch1
  sweep1 = sweep1
  cancel1 = cancel1
  Launchers = {}
  Dispatchers = {dispatch1}
  Sweepers = {sweep1}
  Viewers = {}
  Cancellers = {cancel1}
  BatchModes = {TRUE}
  Faults = {}
  MaxLeases = 1
  MaxCrashes = 0
INVARIANT EndedIsStopped
INVARIANT NoQuotaLeak
\* A job's life ends: nothing has to happen to a settled job.
CHECK_DEADLOCK FALSE
