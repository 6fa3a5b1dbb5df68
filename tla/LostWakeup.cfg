\* A response stored by OnData before the caller reaches wait_for is never noticed.
CONSTANTS
  Callers <- MCCallers
  Statuses <- MCStatuses
  c1 = c1
  c2 = c2
  Pub = Pub
  NoData = NoData
  Good = Good
  BadSessionClosed = BadSessionClosed
  HandleBits = 3
  MaxRequests = 2
  MaxResponses = 1
  SpuriousWakeups = FALSE

SPECIFICATION Spec
INVARIANT ResponseWakesCaller
CHECK_DEADLOCK FALSE
