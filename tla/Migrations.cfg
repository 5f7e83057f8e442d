CONSTANTS
  Nodes = {n1, n2, n3}
  N = 3
  Idempotent = {3}
  MaxIncidents = 2
SPECIFICATION FairSpec
INVARIANTS TypeOK AppliedOnce RecordedInOrder ServesMigrated
PROPERTY EveryNodeServes
CHECK_DEADLOCK FALSE
