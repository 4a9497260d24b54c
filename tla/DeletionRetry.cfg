CONSTANTS
  Deletes = {d1, d2}
  Runs = {p1, p2}
  Writers = {}
  Held = {r1}
  Profile = Profile
  Attempts = 2
  MaxDeaths = 0
  Faults = {"invoke"}
  NoDelete = NoDelete
SPECIFICATION FairSpec
PROPERTIES AcceptedErases
CHECK_DEADLOCK FALSE
