\* The application opens the channel once and then makes service calls,
\* whatever the open returned.
CONSTANTS
  Callers <- MCCallers
  c1 = c1
  c2 = c2
  NoHolder = NoHolder
  MaxTokens = 2
  MaxOps = 4
  Renewals = FALSE
  CloseWhileSending = FALSE

SPECIFICATION Spec
INVARIANT FramesCarryLiveToken
CHECK_DEADLOCK FALSE
