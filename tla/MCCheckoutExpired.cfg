SPECIFICATION ServiceSpec
CONSTANTS
  Intents = {i1}
  ProviderOrders = {po1}
  Payments = {p1}
  Refunds = {}
  Calls = {c1}
  EventIds <- MCEventIds
  None = None
INVARIANTS
  ExpiredNotReopened
SYMMETRY Symmetry
