\* A quick caller, a bulk caller and a stopper under full fairness.
\* The worker really stops, so deadlock is not checked.
SPECIFICATION LiveSpec
CONSTANTS
  Callers = {c1, c2}
  Bulk = {c2}
  Stoppers = {s1}
  Tick = Tick
  QueueCap = 1
INVARIANTS TypeOK ReplyNeverBlocks CommandTracking
PROPERTIES RefinesRequestReply EveryCallReturns StopReturns
CHECK_DEADLOCK FALSE
