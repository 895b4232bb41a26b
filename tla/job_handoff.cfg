\* Every fault at once around one launch, one dispatcher and one sweeper.
SPECIFICATION Spec
CONSTANTS
  launch1 = launch1
  dispatch1 = dispatch1
  sweep1 = sweep1
  Launchers = {launch1}
  Dispatchers = {dispatch1}
  Sweepers = {sweep1}
  Viewers = {}
  Cancellers = {}
  BatchModes = {TRUE, FALSE}
  Faults = {"outage", "lostReply", "stall", "forget", "leave", "agent"}
  MaxLeases = 1
  MaxCrashes = 1
INVARIANT HandoffInv
INVARIANT CompletedAfterSuccess
INVARIANT ChargedWasAccepted
PROPERTY TerminalIsFinal
PROPERTY HandoffSpec
\* A job's life ends: nothing has to happen to a settled job.
CHECK_DEADLOCK FALSE
