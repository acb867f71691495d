\* Two calls against a recorded edge, two reviews, a reconciliation, a failure
\* or crash; a single-valued relation, a current state, and one that is both.
SPECIFICATION Spec
CONSTANTS
  a = a
  b = b
  auth_mode = auth_mode
  owner = owner
  status_of = status_of
  Operator = Operator
  None = None
  Memory = {1, 2, 3}
  TargetOf <- MCTargetOf
  MayClose = {3}
  Recorded = {2}
  Relation = {auth_mode, owner, status_of}
  Single = {auth_mode, status_of}
  Current = {owner, status_of}
  MaxReviews = 2
  MaxFaults = 1
INVARIANTS
  CompetitorsAreMembers
  UnseenMemberReopens
  CurrentFactIsLatest
  ReconcileConverges
CHECK_DEADLOCK FALSE
