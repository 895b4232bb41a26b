\* Liveness through a crash, a lost receipt and a failing mining agent.
SPECIFICATION FairSpec
CONSTANTS
  launch1 = launch1
  dispatch1 = dispatch1
  sweep1 = sweep1
  Launchers = {launch1}
  Dispatchers = {dispatch1}
  Sweepers = {sweep1}
  Viewers = {}
  Cancellers = {}
  BatchModes = {TRUE, FALSE}
  Faults = {"lostReply", "agent"}
  MaxLeases = 1
  MaxCrashes = 1
PROPERTY JobEnds
\* A job's life ends: nothing has to happen to a settled job.
CHECK_DEADLOCK FALSE
