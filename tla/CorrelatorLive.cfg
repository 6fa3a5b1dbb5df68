\* Every Send<Response> returns: fair caller steps and receive thread,
\* unfair server (answers may be lost).
CONSTANTS
  Callers <- MCCallers
  Statuses <- MCStatuses
  c1 = c1
  c2 = c2
  Pub = Pub
  NoData = NoData
  Good = Good
  BadSessionClosed = BadSessionClosed
  HandleBits = 3
  MaxRequests = 2
  MaxResponses = 2
  SpuriousWakeups = TRUE

SPECIFICATION Spec
PROPERTY SendReturns
CHECK_DEADLOCK FALSE
