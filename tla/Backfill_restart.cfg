\* One runner that fails or dies twice over archived transcripts, one of them
\* unreadable and one dated, and sessions that were never compressed.
SPECIFICATION FairSpec
CONSTANTS
  Transcripts = 3
  Items = 2
  Corrupt = {2}
  Dated = {1}
  Runner = {r}
  Limit = 2
  None = None
  MaxFaults = 2
INVARIANTS
  CompleteMeansGoverned
  OneGovernedChild
  SpansResolve
PROPERTIES
  BackfillCompletes
CHECK_DEADLOCK FALSE
