\* RemoveSelfReferences clears PublishCallbacks while the worker holds an iterator into it.
CONSTANTS
  SubIds <- MCSubIds
  Statuses <- MCStatuses
  Good = Good
  BadSessionClosed = BadSessionClosed
  BadTimeout = BadTimeout
  NoCallback = NoCallback
  MaxPosts = 2
  MaxSubscriptions = 1

SPECIFICATION Spec
INVARIANT NoCallbackAfterClose
CHECK_DEADLOCK FALSE
