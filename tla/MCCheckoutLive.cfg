SPECIFICATION FairServiceSpec
CONSTANTS
  Intents = {i1}
  ProviderOrders = {po1, po2}
  Payments = {p1}
  Refunds = {}
  Calls = {c1}
  EventIds <- MCEventIds
  None = None
PROPERTIES
  CaptureSettles
  LostOrderRecovered
