SPECIFICATION FairRefundSpec
CONSTANTS
  Intents = {i1}
  ProviderOrders = {o1}
  Payments = {p1, p2}
  Refunds = {r1, r2}
  Calls = {c1, c2}
  EventIds = {e1, e2}
  None = None
CHECK_DEADLOCK FALSE
INVARIANTS OneRemoteRefund RefundFollowsProvider
PROPERTIES ResultNotRegressed ProcessedIsRecorded
