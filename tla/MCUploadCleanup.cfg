CONSTANTS
  Videos <- TwoVideos
  OutputPrefix <- HlsPrefix
  Template <- NoTemplate
  InputBucket = "media"
  OutputBucket = "media"
  Parts = {p1, p2}
  Jobs = {j1, j2}
  NoJob = NoJob
  Runs = {h1}
  Requests = {r1, r2}
  IncidentKinds = {"again", "fail", "crash", "retry", "delete", "db", "s3"}
  MaxIncidents = 1
SPECIFICATION Spec
SYMMETRY Symmetry
INVARIANTS TypeOK DeletedVideosStayAway OthersKeepTheirOutput
CHECK_DEADLOCK FALSE
