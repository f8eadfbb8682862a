SPECIFICATION ServiceSpec
CONSTANTS
  Intents = {i1}
  ProviderOrders = {po1, po2}
  Payments = {p1}
  Refunds = {}
  Calls = {c1, c2}
  EventIds <- MCEventIds
  None = None
INVARIANTS
  OneRemoteOrder
  RowsFollowProvider
  OfferedIsAdopted
SYMMETRY Symmetry
