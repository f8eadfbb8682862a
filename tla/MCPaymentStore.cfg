\* Two intents (so rows of one order can be confused with the other's), two remote
\* orders, two payments, two refunds and three event ids.
SPECIFICATION StoreSpec
CONSTANTS
  Intents = {i1, i2}
  ProviderOrders = {po1, po2}
  Payments = {p1, p2}
  Refunds = {r1, r2}
  EventIds = {e1, e2, e3}
  None = None
SYMMETRY Symmetry
INVARIANTS
  CaptureIsFulfilled
  PayableWithoutEvidence
  AcceptedEventsApplied
  RefundRevokesAccess
  OrderedIntentKept
PROPERTIES
  FinalityMonotonic
  EvidenceMonotonic
  ImplementsPurchase
CHECK_DEADLOCK FALSE
