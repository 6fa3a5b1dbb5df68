\* Correlation under two concurrent callers, duplicated, reordered, late,
\* lost and bad frames; RequestHandle cannot wrap within the bound.
CONSTANTS
  Callers <- MCCallers
  Statuses <- MCStatuses
  c1 = c1
  c2 = c2
  Pub = Pub
  NoData = NoData
  Good = Good
  BadSessionClosed = BadSessionClosed
  HandleBits = 3
  MaxRequests = 3
  MaxResponses = 3
  SpuriousWakeups = FALSE

SPECIFICATION Spec
INVARIANT TypeOK
INVARIANT OwnResponseOnly
PROPERTY CallbackTargetsLiveCall
INVARIANT DeliveredAtMostOnce

CHECK_DEADLOCK FALSE
