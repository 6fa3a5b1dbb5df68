\* Send<Response> implements RequestResponse: two callers, duplicated, late,
\* lost and bad frames, no spurious wakeups.
CONSTANTS
  Callers <- MCCallers
  Statuses <- MCStatuses
  c1 = c1
  c2 = c2
  Pub = Pub
  NoData = NoData
  Good = Good
  BadSessionClosed = BadSessionClosed
  HandleBits = 3
  MaxRequests = 2
  MaxResponses = 2
  SpuriousWakeups = FALSE

SPECIFICATION Spec
PROPERTY RequestResponseSpec
CHECK_DEADLOCK FALSE
