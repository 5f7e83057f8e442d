CONSTANTS
  Clients = {c1, c2}
  NoClient = NoClient
  Requests = {r1, r2, r3, r4, r5}
  Limit = 2
  Minute = 2
  MaxTime = 7
SPECIFICATION Spec
SYMMETRY Symmetry
INVARIANTS TypeOK LimitHolds VisitorsForgotten
CHECK_DEADLOCK FALSE
