\* Two dispatchers that outlive their leases, lost replies, and a status poll
\* that recovers prompts, carries cancellations on and ends the job.
SPECIFICATION Spec
CONSTANTS
  view1 = view1
  dispatch1 = dispatch1
  dispatch2 = dispatch2
  Launchers = {}
  Dispatchers = {dispatch1, dispatch2}
  Sweepers = {}
  Viewers = {view1}
  Cancellers = {}
  BatchModes = {TRUE}
  Faults = {"stall", "lostReply"}
  MaxLeases = 0
  MaxCrashes = 0
SYMMETRY DispatcherSymmetry
INVARIANT AtMostOneSend
INVARIANT ClosedIsSettled
\* A job's life ends: nothing has to happen to a settled job.
CHECK_DEADLOCK FALSE
