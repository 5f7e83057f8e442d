CONSTANTS
  Jobs = {j1}
  Tasks = {t1}
  NoJob = NoJob
  MaxRetry = 1
  Runs = {h1, h2}
  Requests = {r1}
  Creator = r1
  n1 = n1
  n2 = n2
  Nodes = {n1, n2}
  First = {h1, r1}
  Host <- Placed
  Reach = 2
  FaultKinds = {"db", "deadline", "crash"}
  MaxFaults = 2
SPECIFICATION FairSpec
INVARIANT DirectoriesAreRemoved
PROPERTY EventuallySettled
CHECK_DEADLOCK FALSE
