SPECIFICATION DraftsSpec
CONSTANTS
  Keys = {k1}
  Locales = {en, hi}
  Tabs = {t1, t2}
  Calls = {c1, c2}
  Sections = {name, birth}
  Values = {v1}
  None = None
  DraftLife = 2
  KeyWindow = 1
  MaxDelay = 1
  MaxClock = 2
  MaxVersion = 2
SYMMETRY Symmetry
CHECK_DEADLOCK FALSE
INVARIANT ExpiryIsFinal
PROPERTIES CompletedOnce ReplaysAreLive ImplementsIntake
