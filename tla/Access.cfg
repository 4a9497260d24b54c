CONSTANTS
  Procs = {p1, p2}
  Ids = {s1, s2}
  OneId = {s1}
  Devices = {d1, d2}
  OneDevice = {d1}
  Pairs = {n1}
  None = None
  MaxTokens = 3
  MaxNames = 1
  MaxUpserts = 2
  MaxCodes = 2
  MaxCounted = 3
  Ops = {}
  Faults = {}
  Invocations = {p1, p2}
  Requests = {r1}
  Codes = {11, 12}
  Grants = {1, 2}
  Credentials = {1, 2, 3, 4}
  Scopes = {x1, x2}
  Attempts = 2
  MaxRenders = 2
  McpFaults = {"die", "lost", "store"}
  OwnerOps = {}
  Nothing = Nothing
  Routers = {p1, p2}
  Dispatchers = {p1, p2}
  ToolUses = {1, 2, 3}
  Proposals = {k1}
  Arguments = {g1, g2}
  Mails = {m1, m2}
  Tools = {"send_email", "command"}
  MaxPosts = 2
  MaxReceives = 2
  CallFaults = {"die", "lost"}
  NoAsk = NoAsk
  NoCall = NoCall
  NoProposal = NoProposal
SPECIFICATION MCSpec
INVARIANTS TokensOnce LockPending UsedOnce EffectsOnce
PROPERTIES EndedSilent DeviceKept GrantShrinks ReuseRevokes
SYMMETRY Symmetry
CHECK_DEADLOCK FALSE
