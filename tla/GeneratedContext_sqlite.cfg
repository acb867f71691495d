\* Three tasks publish, forget and preview, the user edits; a crash or failure.
SPECIFICATION FairSpec
CONSTANTS
  Backend = "sqlite"
  Memory = {m1, m2}
  Task = {t1, t2, t3}
  User = User
  None = None
  UserRaces = FALSE
  MaxOps = 3
  MaxEdits = 1
  MaxFaults = 1
INVARIANTS
  StaleIsPending
PROPERTIES
  EditsPreserved
  ForgottenLeavesContext
CHECK_DEADLOCK FALSE
