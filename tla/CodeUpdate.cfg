CONSTANTS
  Procs = {p1, p2}
  Requests = {r1, r2}
  OneRequest = {r1}
  Repos = {repo}
  Repo <- OneRepo
  MaxReceive = 3
  MaxPosts = 2
  Faults = {"lostAnswer"}
  AllFaults = {"crash", "lostAnswer", "lostMail", "lostStatus"}
  NoRequest = NoRequest
SPECIFICATION MCSpec
INVARIANTS OneSession ProgressBounded ToldOnce
PROPERTIES Told
CHECK_DEADLOCK FALSE
