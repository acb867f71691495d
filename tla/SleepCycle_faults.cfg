\* Two sweepers and one handler over one session, leases that expire while the
\* compression runs, one crash or failed statement, under fairness.
SPECIFICATION FairSpec
CONSTANTS
  Session = {s1}
  Sweeper = {a, b}
  Handler = {h}
  None = None
  IdleSecs = 2
  MinObs = 2
  Limit = 1
  LeaseSecs = 1
  MaxTime = 2
  MaxObs = 2
  MaxRequests = 1
  MaxFaults = 1
INVARIANTS
  LeaseExclusion
  CompressedHasNarrative
  AuditIsTrue
  OneNarrativePerSession
PROPERTIES
  ObservationsAreCompressed
CHECK_DEADLOCK FALSE
