\* The agent stops the miner, but its answer comes too late.
SPECIFICATION Spec
CONSTANTS
  w1 = w1
  i1 = i1
  g1 = g1
  Works = {w1, i1}
  Inference = {i1}
  Gateways = {g1}
  Faults = {"lostStop"}
  MaxAborts = 0
INVARIANT PauseHasOwner
\* The agent may never be started, and nothing else may be left to do.
CHECK_DEADLOCK FALSE
