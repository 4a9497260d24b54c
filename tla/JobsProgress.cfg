CONSTANTS
  MaxRuns = 1
  MaxReceipts = 2
  MaxAttempts = 2
  ApprovalTTL = 1
  RetryDelay = 1
  Oversize = FALSE
  NoCall = NoCall
  Procs = {p1, p2}
  Requests = {q1}
  Ops = {"run"}
  Events = {"revoke"}
  Schedules <- OneRecurrence
  MaxTime = 2
SPECIFICATION FairSpec
PROPERTIES OccurrenceServed RevokedLeavesQueue
CHECK_DEADLOCK FALSE
