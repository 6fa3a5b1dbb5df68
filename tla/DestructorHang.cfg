\* Stop's unlocked notify can fall between the worker's predicate check and its wait: ~BinaryClient then hangs in callback_thread.join().
CONSTANTS
  SubIds <- MCSubIds
  Statuses <- MCStatuses
  Good = Good
  BadSessionClosed = BadSessionClosed
  BadTimeout = BadTimeout
  NoCallback = NoCallback
  MaxPosts = 2
  MaxSubscriptions = 1
  MaxFrames = 3

SPECIFICATION Spec

PROPERTY DestructorReturns
CHECK_DEADLOCK FALSE
