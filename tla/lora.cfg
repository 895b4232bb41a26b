\* Two trainings queued behind one another; calls are lost, one restart of either side.
SPECIFICATION LoraSpec
CONSTANTS
  c1 = c1  j1 = j1  j2 = j2  g1 = g1  g2 = g2  nobody = nobody
  Jobs = {j1, j2}  Patient = {j1, j2}  Gateways = {g1}
  Faults = {"lost"}  MaxCrashes = 1
  \* LoraCaption: one image and two workers
  Captions = {c1}  ImageOf <- SameImage  CaptionWorkers = {g1, g2}
  MaxPending = 1  MaxAttempts = 2  NoWorker = nobody
PROPERTY SlotSpec
PROPERTY AnswerIsCurrent
PROPERTY EachCaptionEnds
PROPERTY TrainingEnds
\* Both jobs, or the caption, may have ended.
CHECK_DEADLOCK FALSE
