SPECIFICATION ServicesSpec
CONSTANTS
  k1 = k1  k2 = k2
  u1 = u1  u2 = u2  alice = alice  bob = bob
  gateway = gateway  webui = webui  g1 = g1  g2 = g2  nobody = nobody
  r1 = r1   x1 = x1  x2 = x2
  q1 = q1  q2 = q2  q3 = q3  q4 = q4  root = root
  \* GenerationQuota
  QuotaJobs = {j1, v1, v2}  QuotaBatches = {{v1, v2}}  Videos = {v1, v2}
  DailyLimit = {2}  TotalLimit = {0, 2}  LastDay = 2
  \* DependencyHealth
  Dependencies = {y1, y2}  Agents = {y2}  Sampled = {y2}  Interval = 2  Deadline = 1  RetryDelay = 1
  MaxBackoff = 3  StaleAfter = 5  OfflineAfter = 6  MaxChanges = 1
  \* ComfyControl
  Prompts = {q1, q2, q3, q4}  Users = {alice, bob, root}  Admin = root  Owner <- PromptOwner
  Calls = {u1}  MaxQueue = 2  MaxPerUser = 1  MaxWaiting = 2  Around = {q2}  Nobody = nobody
  \* LoraDatasets
  Photos = {p1}  Datasets = {d1, d2}  Versions = {v1}  Editors = {e1}
  \* UpdateAgent
  Parts <- InstallOrder  FromGit = {gateway}  HealthAgain = {gateway}  Unhealthy = {2}
  LastVersion = 3  Installs = {g1, g2}  Unlocked = nobody
  \* MinerUpdate
  Broken = {3}  Keep = 2  LastPackage = 5  LastEdit = 2
  \* ComfySchema
  TTL = 2  RetryPause = 1  MaxStale = 3  Callers = {k1, k2}  NoCaller = nobody
  LastTick = 7  LastNodes = 3
  \* ContentArchive
  PromptCount = 2  CopiesKept = 1  EventsKept = 2  LastHour = 3  MaxWriting = 1
  \* ComfyInputs
  Inputs = {u1, u2}  Uploader <- InputOwner  MaxStored = 2
  UserQuota = 2  GlobalQuota = 3  UserFiles = 1  GlobalFiles = 2
  \* PromptGraph
  Slots = {1, 4, 5, 10}  Absent = {{}, {"22"}}
  \* LoraTraining: calls are lost, Submit gives up, records expire, two restarts
  Jobs = {r1}  Patient = {}  Gateways = {g1}
  Faults = {"lost", "store", "giveUp", "retention"}  MaxCrashes = 2
  \* AccountAccess
  Sessions = {s1}  Sockets = {k1, k2}  LockThreshold = 2  MaxPasswords = 2
  \* PinnedMedia
  Copies = {m1, m2}  GenerationMedia = 1  AIContent = 2  Requests = 2  Pinned = 3  LastTime = 4
  \* GenerationDraft
  Tabs = {t1, t2}  LastRevision = 3
  \* SuggestionBoard
  Places = {1, 2}  Scanners = {x1, x2}  MaxRetries = 1  NoToken = nobody
SYMMETRY ServicesSymmetry
INVARIANT CountersMatch
INVARIANT RevokedIsClosed
PROPERTY ChosenOnly
INVARIANT WithinBudget
INVARIANT PhotosKept
INVARIANT InstallSettles
INVARIANT PinnedKept
INVARIANT ReleaseAfterStop
INVARIANT PausedWhileTraining
INVARIANT CatalogCatchesUp
INVARIANT PromptIsWhole
INVARIANT AcceptedIsClean
PROPERTY OwnControl
INVARIANT QueueBounded
PROPERTY UpdateSettles
INVARIANT HealthTold
INVARIANT FileIsTracked
CHECK_DEADLOCK FALSE
