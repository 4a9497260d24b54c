CONSTANTS
  Deletes = {d1, d2}
  Runs = {p1, p2}
  Writers = {w1}
  Held = {r1}
  Profile = Profile
  Attempts = 3
  MaxDeaths = 2
  Faults = {"crash", "invoke", "marker", "mail"}
  NoDelete = NoDelete
SPECIFICATION FairSpec
INVARIANTS ConfirmedOnce ErasedBeforeMail
PROPERTIES DeletionFinal Resumed
CHECK_DEADLOCK FALSE
