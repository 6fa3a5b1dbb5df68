\* Two application threads: open once, service calls, close when the others
\* are done, with writes that may throw.  send_mutex keeps the service
\* calls' frames whole and is always released.
CONSTANTS
  Callers <- MCCallers
  c1 = c1
  c2 = c2
  NoHolder = NoHolder
  MaxTokens = 2
  MaxOps = 4
  Renewals = FALSE
  CloseWhileSending = FALSE

SPECIFICATION Spec
INVARIANT NoInterleavedFrames
PROPERTY LockGranted
CHECK_DEADLOCK FALSE
