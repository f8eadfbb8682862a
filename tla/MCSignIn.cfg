SPECIFICATION SignInSpec
CONSTANTS
  Principals = {p1}
  SessionIds = {s1, s2}
  Links = {l1, l2, l3}
  Browsers = {b1, b2}
  Requests = {r1, r2}
  None = None
  SessionLife = 3
  RecentAuth = 1
  MaxClock = 4
  MaxDelay = 1
  LinkLife = 2
  Throttle = 1
  BudgetWindow = 3
  BudgetMax = 2
  KeepFor = 4
SYMMETRY Symmetry
CHECK_DEADLOCK FALSE
INVARIANTS LinkOpensOnce LinkBudget
PROPERTY LiveLinkKept
