CONSTANTS
  MaxRuns = 2
  MaxReceipts = 1
  MaxAttempts = 3
  ApprovalTTL = 1
  RetryDelay = 1
  Oversize = FALSE
  NoCall = NoCall
  Procs = {p1, p2}
  Requests = {1, 2, 3, 4}
  FewRequests = {1, 2}
  Ops = {"update", "pause", "resume", "cancel", "run", "retry", "approve", "cancelRun", "note"}
  Events = {"revoke", "reinstate", "purge"}
  Schedules <- AllSchedules
  MaxTime = 1
SPECIFICATION MCSpec
INVARIANTS AtMostOnce AnswersAgree RetryOnce PurgeComplete
PROPERTIES OutcomeFinal AccountFence ActsAtomically
SYMMETRY ProcSymmetry
CHECK_DEADLOCK FALSE
