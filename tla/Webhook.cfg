CONSTANTS
  Events = {failed, completed}
  maxRetries = 2
SPECIFICATION FairSpec
INVARIANTS TypeOK EndsForAReason NoNeedlessDuplicate
PROPERTY SendEnds
CHECK_DEADLOCK FALSE
