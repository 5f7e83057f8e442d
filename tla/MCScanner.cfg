CONSTANTS
  Nodes = {n1, n2}
  Uploads = {u1}
  Dropped = {}
  Jobs = {j1, j2, j3}
  NoJob = NoJob
  MaxGeneration = 1
  OutputsListed = TRUE
  Settings <- ThreeSettings
  FirstSettings <- Default
  IncidentKinds = {"check", "create", "enqueue", "crash", "fail", "cancel", "delete", "retry", "overlap", "settings"}
  MaxIncidents = 2
SPECIFICATION Spec
SYMMETRY Symmetry
INVARIANTS TypeOK OneJobPerMaker OutputsAreNoSources
PROPERTY KeepsContract
CHECK_DEADLOCK FALSE
