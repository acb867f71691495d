\* One snapshot, exported and imported by a separate database, and the handles
\* given out there.
SPECIFICATION Spec
CONSTANTS
  None = None
  Blob = {"transcript"}
  BlobOf <- MCBlobOf
  Provenance = {"default", "governed"}
  DefaultProvenance = "default"
  Limit = {"legal_hold"}
  MAX_DEPTH = 1
  MaxMemories = 2
  MaxVersion = 1
  MaxEvents = 1
  MaxSnapshots = 1
  MaxRestores = 1
  MaxRecreates = 1
  MaxOps = 6
INVARIANTS
  RemovedHandlesStayRetired
CHECK_DEADLOCK FALSE
