\* Submit stops waiting for the queue after it has stored the job.
SPECIFICATION FairSpec
CONSTANTS
  j1 = j1
  g1 = g1
  Jobs = {j1}
  Patient = {j1}
  Gateways = {g1}
  Faults = {"lost", "giveUp"}
  MaxCrashes = 0
PROPERTY JobDecided
CHECK_DEADLOCK FALSE
