SPECIFICATION AccessSpec
CONSTANTS
  p1 = p1
  p2 = p2
  x1 = x1
  Principals = {p1, p2}
  Reports = {x1}
  Owner <- MCOwner
  SessionIds = {s1, s2}
  Requests = {r1, r2}
  Keys = {k1}
  Actions = {"correction", "deletion"}
  None = None
  SessionLife = 2
  RecentAuth = 0
  MaxDelay = 1
  MaxClock = 2
SYMMETRY Symmetry
CHECK_DEADLOCK FALSE
INVARIANT EverythingIsAudited
PROPERTIES RevocationStops ReceiptsAgree SignedOutEverywhere
