CONSTANTS
  Editors = {p1}
  Devices = {d1}
  Values = {x1, x2}
  SyncOps = {"put"}
  SyncFaults = {}
  PurgeAttempts = 2
  MaxEdits = 2
  MaxInFlight = 2
  Inherit = Inherit
  Same = Same
  GetShadow = GetShadow
SPECIFICATION SettingsSpec
PROPERTIES Converges
CHECK_DEADLOCK FALSE
