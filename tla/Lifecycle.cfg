\* A client constructed, used and destroyed while the server sends frames or closes the connection.
CONSTANTS
  SubIds <- MCSubIds
  Statuses <- MCStatuses
  Good = Good
  BadSessionClosed = BadSessionClosed
  BadTimeout = BadTimeout
  NoCallback = NoCallback
  MaxPosts = 3
  MaxSubscriptions = 1
  MaxFrames = 3

SPECIFICATION Spec
INVARIANT TypeOK
INVARIANT NoSleepWithWork
PROPERTY ReceiveJoinReturns
PROPERTY NotificationsDispatched
CHECK_DEADLOCK FALSE
