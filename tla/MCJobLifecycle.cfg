CONSTANTS
  Jobs = {j1}
  Tasks = {t1, t2}
  NoJob = NoJob
  MaxRetry = 1
  Runs = {h1, h2}
  Requests = {r1, r2, r3}
  Creator = r1
  n1 = n1
  n2 = n2
  Nodes = {n1, n2}
  First = {r1, r2, r3}
  Host <- Placed
  Reach = 3
  FaultKinds = {"db", "enqueue", "shutdown", "crash"}
  MaxFaults = 1
SPECIFICATION Spec
SYMMETRY Symmetry
INVARIANTS TypeOK RowsAgree ActiveJobsAreDriven CompletedHasOutput CompletedIsFull HandlersTakeTurns
PROPERTY DeletedStaysDeleted KeepsContract
CONSTRAINT Bounds
VIEW AllButEvents
CHECK_DEADLOCK FALSE
