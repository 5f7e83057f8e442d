CONSTANTS
  Nodes = {n1, n2}
  Uploads = {}
  Dropped = {v1}
  Jobs = {j1, j2, j3, j4}
  NoJob = NoJob
  MaxGeneration = 0
  OutputsListed = FALSE
  Settings <- TwoSettings
  FirstSettings <- Default
  IncidentKinds = {"check", "create", "enqueue", "crash", "fail", "cancel", "delete", "retry", "overlap", "settings"}
  MaxIncidents = 2
SPECIFICATION FairSpec
PROPERTY EveryVideoIsTranscoded
CHECK_DEADLOCK FALSE
