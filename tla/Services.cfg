CONSTANTS
  Takers = {p1, p2}
  Capacity = 3
  RefillTime = 2
  Attempts = 2
  MaxTime = 5
  NoBucket = NoBucket
  Sids = {1, 2, 3}
  OneSid = {1}
  NoSid = NoSid
  MaxConcurrent = 1
  SessionCap = 2
  HourLength = 1
  BurnLimit = 1
  MaxUsed = 3
  Lag = 1
  Kinds = {"direct", "bridge", "phone"}
  Ops = {}
  Workers = {p1, p2}
  Handlers = {h1}
  Hotels = {1, 2}
  OneHotel = {1}
  MaxCommands = 2
  MaxVersion = 4
  NoView = NoView
  Elsewhere = Elsewhere
  NoHotel = NoHotel
  Editors = {p1, p2}
  OneEditor = {p1}
  Devices = {d1, d2}
  OneDevice = {d1}
  Values = {x1, x2}
  SyncOps = {"put", "patch", "all", "revoke"}
  SyncFaults = {}
  PurgeAttempts = 2
  MaxEdits = 2
  MaxInFlight = 1
  Inherit = Inherit
  Same = Same
  GetShadow = GetShadow
  Approvers = {p1, p2}
  ApprovalIds = {i1, i2}
  MaxGenerations = 2
  NoIntent = NoIntent
  NoReceipt = NoReceipt
  Extractors = {p1, p2}
  Curators = {p1, p2}
  Talks = {c1}
  Stamps = {1, 2}
  Topics = {T1, T2, T3}
  T1 = T1
  T2 = T2
  T3 = T3
  KnownTopics <- KnownValue
  Merges <- MergesValue
  Removals = {T2}
  MaxTags = 2
  Deliveries = 1
  TalkFaults = {"die", "lag"}
  NoStamp = NoStamp
  NoConv = NoConv
  NoKey = NoKey
  NoTopic = NoTopic
  Analyzers = {p1, p2}
  Failures = {1, 2}
  Signatures = {1, 2}
  Cooldown = 1
  DayLength = 2
  DailyCap = 1
  NoticeWindow = 1
  Visibility = 1
  MaxDeliveries = 2
  MaxClock = 2
  RcaFaults = {}
  NoSignature = NoSignature
  NoFailure = NoFailure
SPECIFICATION MCSpec
INVARIANTS SpentWithinRate SessionsBounded CallsSafe StoppedSilent OverridesForgotten DesiredTruthful
  ApprovedAsReviewed HistoryIndexed AnalysesBounded
PROPERTIES SuspendedFairly OpenedOnce
SYMMETRY Symmetry
CHECK_DEADLOCK FALSE
