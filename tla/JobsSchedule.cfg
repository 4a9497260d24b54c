CONSTANTS
  MaxRuns = 2
  MaxReceipts = 2
  MaxAttempts = 2
  ApprovalTTL = 2
  RetryDelay = 1
  Oversize = TRUE
  NoCall = NoCall
  Procs = {p1, p2}
  Requests = {q1, q2}
  Ops = {"update", "pause", "resume", "cancel", "run"}
  Events = {}
  Schedules <- SomeSchedules
  MaxTime = 3
SPECIFICATION Spec
INVARIANTS LedgerComplete PendingIsCurrent OccurrenceOnce
PROPERTIES CancelStopsRuns
SYMMETRY Symmetry
CHECK_DEADLOCK FALSE
