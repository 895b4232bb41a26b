\* One ComfyUI that goes away and comes back, two callers, eight units of time.
SPECIFICATION SchemaSpec
CONSTANTS
  c1 = c1
  c2 = c2
  NoCaller = NoCaller
  TTL = 2
  RetryPause = 1
  MaxStale = 3
  Callers = {c1, c2}
  LastTick = 8
  LastNodes = 3
INVARIANT FallbackOnlyWithinMaxStale
\* The clock is bounded.
CHECK_DEADLOCK FALSE
