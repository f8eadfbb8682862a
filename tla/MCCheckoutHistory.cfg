SPECIFICATION HistorySpec
CONSTANTS
  Intents = {i1}
  ProviderOrders = {po1}
  Payments = {p1}
  Refunds = {}
  Calls = {c1, c2}
  EventIds <- MCEventIds
  None = None
PROPERTIES
  UncertaintyOutlivesAttempts
