CONSTANTS
  Procs = {p1, p2}
  Requests = {r1}
  OneRequest = {r1}
  Repos = {repo}
  Repo <- OneRepo
  MaxReceive = 2
  MaxPosts = 1
  Faults = {"crash"}
  AllFaults = {"crash"}
  NoRequest = NoRequest
SPECIFICATION MCSpec
PROPERTIES Retried
CHECK_DEADLOCK FALSE
