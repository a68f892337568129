\* A server that stalls transfers; as many bulk fetches as fetchCh and its loop hold.
\* A stalled system rests, so deadlock is not checked.
SPECIFICATION StalledFetchSpec
CONSTANTS
  Callers = {c1, c2, c3}
  Bulk = {c2, c3}
  Stoppers = {}
  Tick = Tick
  QueueCap = 1
PROPERTY StaysResponsive
CHECK_DEADLOCK FALSE
