SPECIFICATION MaintainedSpec
CONSTANTS
  Keys = {k1}
  Locales = {en}
  Tabs = {t1}
  Calls = {c1}
  Sections = {name}
  Values = {v1}
  None = None
  DraftLife = 2
  KeyWindow = 1
  MaxDelay = 1
  MaxClock = 2
  MaxVersion = 2
CHECK_DEADLOCK FALSE
PROPERTY UnpaidIsErased
