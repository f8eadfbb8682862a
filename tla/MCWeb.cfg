\* Two requests of the panel in flight; a budget of three, a window of two ticks
\* and three statements of the limiter that wait up to two ticks.
SPECIFICATION WebSpec
CONSTANTS
  Requests = {r1, r2}
  Limit = 3
  Window = 2
  MaxAge = 6
  MaxDelay = 2
  Statements = {s1, s2, s3}
  Remembered = 3
CHECK_DEADLOCK FALSE
INVARIANTS NoDeadEnd WindowBudget
PROPERTIES SuccessIsNotRepaid PaidIsShown
