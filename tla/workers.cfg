SPECIFICATION WorkersSpec
CONSTANTS
  a1 = a1  a2 = a2  b1 = b1
  \* GenerationQueue: a launch and two batches, of which one may be active
  Launches = {l1}  Batches <- TwoBatches  MaxActive = 1
  \* MiningPause: a job and a model call, an agent that fails, one call cut off
  Works = {w1, i1}  Inference = {i1}  Gateways = {g1}
  Faults = {"down"}  MaxAborts = 1
INVARIANT BatchInTurn
PROPERTY ChildrenEnd
INVARIANT PauseHolds
INVARIANT PauseHasOwner
PROPERTY MinerComesBack
\* The agent may never be started, and nothing else may be left to do.
CHECK_DEADLOCK FALSE
