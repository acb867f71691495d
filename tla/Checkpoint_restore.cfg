SPECIFICATION Spec
CONSTANTS
  None = None
  Blob = {"transcript"}
  BlobOf <- MCBlobOf
  Provenance = {"default"}
  DefaultProvenance = "default"
  Limit = {"legal_hold"}
  MAX_DEPTH = 1
  MaxMemories = 2
  MaxVersion = 1
  MaxEvents = 2
  MaxSnapshots = 3
  MaxRestores = 2
  MaxRecreates = 1
  MaxOps = 6
INVARIANTS
  ReferencedIsKept
  RemovedReturnsHidden
  HandlesAreStable
  SupersededStaysDown
PROPERTIES
  RestoreOnlyTightens
  HistoryNeverShrinks
CHECK_DEADLOCK FALSE
