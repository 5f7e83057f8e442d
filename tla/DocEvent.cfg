CONSTANTS
  Jobs = {j1}
  Tasks = {t1, t2}
  NoJob = NoJob
  MaxRetry = 1
  Runs = {h1}
  Requests = {r1, r2, r3}
  Creator = r1
  n1 = n1
  n2 = n2
  Nodes = {n1, n2}
  First = {r1, r2, r3}
  Host <- Placed
  Reach = 3
  FaultKinds = {}
  MaxFaults = 0
SPECIFICATION Spec
INVARIANTS CompletedEventMeansCompleted
CHECK_DEADLOCK FALSE
