SPECIFICATION OpenSpec
CONSTANTS
  Starter = {s1, s2}
  Legacy = {1, 2, 3}
  New = 4
  Stores <- MCStores
  BATCH = 2
  Gone = Gone
  Null = Null
  Fallible <- MCFallible
  MaxStarts = 3
  MaxFaults = 1
SYMMETRY Symmetry
INVARIANTS
  ReadyIsMigrated
  ReadyIsRooted
  RootsAgree
CHECK_DEADLOCK FALSE
