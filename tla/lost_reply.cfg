SPECIFICATION Spec
CONSTANTS
  launch1 = launch1
  dispatch1 = dispatch1
  sweep1 = sweep1
  Launchers = {launch1}
  Dispatchers = {dispatch1}
  Sweepers = {sweep1}
  Viewers = {}
  Cancellers = {}
  BatchModes = {FALSE}
  Faults = {"lostReply"}
  MaxLeases = 0
  MaxCrashes = 0
INVARIANT EndedIsStopped
\* A job's life ends: nothing has to happen to a settled job.
CHECK_DEADLOCK FALSE
