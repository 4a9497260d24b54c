CONSTANTS
  Deletes = {d1}
  Runs = {p1, p2}
  Writers = {w1}
  Held = {r1}
  Profile = Profile
  Attempts = 2
  MaxDeaths = 0
  Faults = {}
  NoDelete = NoDelete
SPECIFICATION Spec
INVARIANTS NothingLeft
CHECK_DEADLOCK FALSE
