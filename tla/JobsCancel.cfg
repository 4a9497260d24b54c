CONSTANTS
  MaxRuns = 1
  MaxReceipts = 1
  MaxAttempts = 2
  ApprovalTTL = 1
  RetryDelay = 1
  Oversize = FALSE
  NoCall = NoCall
  Procs = {p1, p2}
  Requests = {q1, q2}
  Ops = {"cancel", "resume"}
  Events = {"revoke", "reinstate"}
  Schedules <- OneRecurrence
  MaxTime = 2
SPECIFICATION Spec
PROPERTIES CancelStopsRuns
SYMMETRY Symmetry
CHECK_DEADLOCK FALSE
